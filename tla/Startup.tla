------------------------------ MODULE Startup ------------------------------
(***************************************************************************)
(* From the command line to the event loop: the configuration file is read *)
(* entry by entry (config.c), then each server is bound, given the SSL     *)
(* context (ssl.c) and its callbacks (manager.c) by main.c.  One thread,   *)
(* no second chance: any step may fail, and then the process ends.         *)
(***************************************************************************)
EXTENDS Integers, Sequences

CONSTANTS
  File,       \* configuration files: [auths, servers], two sequences of entries
  AuthFold,   \* names of authentications up to letter case
  None,       \* what an entry leaves out
  Pem,        \* the certificate and key files that OpenSSL can load
  Faults,     \* may allocations fail
  Lossy       \* bound: the callbacks whose parameters may fail to be allocated

SHRT_MAX == 32767

HttpPath == {"/queues", "/queue", "/take", "/peek", "/put"}
Path == HttpPath \cup {"/take/ws"}

ASSUME StartupAssumption ==
  /\ None \notin Pem \cup Path
  /\ Faults \in BOOLEAN
  /\ Lossy \subseteq Path
  /\ \A f \in File :
        /\ \A list \in {f.auths, f.servers} : Len(list) \in Nat /\ DOMAIN list = 1..Len(list)
        /\ \A n \in DOMAIN f.servers : f.servers[n].port \in Int

VARIABLES
  file,            \* the file named on the command line, if one is named
  phase,           \* where main() is
  authentications, \* global_config_context_.authentications: entries of file, newest first
  servers,         \* global_config_context_.servers, newest first
  iter,            \* current_iter: the servers still to be created
  ssl,             \* ssl_global_context_
  callbacks        \* callbacks[n][path]: what entry n, once created, runs for a path

lists == << authentications, servers >>
startupVars == << file, phase, authentications, servers, iter, ssl, callbacks >>

NoSsl == [initialised |-> FALSE, keypair_loaded |-> 0, cert |-> None, key |-> None]

StartupInit ==
  /\ file \in { {f} : f \in File } \cup {{}}
  /\ phase = "command_line"
  /\ authentications = << >>
  /\ servers = << >>
  /\ iter = << >>
  /\ ssl = NoSsl
  /\ callbacks = << >>

Ended == {"running", "exited", "crashed"}

-----------------------------------------------------------------------------
(***************************************************************************)
(* The configuration file.                                                 *)
(***************************************************************************)
\* Without -c there is nothing to read, and the loop over the servers is next.
CommandLine ==
  /\ phase = "command_line"
  /\ phase' = IF file = {} THEN "begin" ELSE "authentication"
  /\ UNCHANGED << file, lists, iter, ssl, callbacks >>

\* The file does not exist, is not JSON or has no list of servers; -h is given,
\* or an unknown option.
CommandLineEnds ==
  /\ phase = "command_line"
  /\ phase' = "exited"
  /\ UNCHANGED << file, lists, iter, ssl, callbacks >>

\* Mutant: names are compared as they are.
AuthenticationGetExact(f, name) ==
  LET same == { k \in DOMAIN authentications :
                  f.auths[authentications[k]].name = name }
  IN  { authentications[k] : k \in { k \in same : \A j \in same : k <= j } }

\* The authentication of that name which was defined last.
config_authentication_get_(f, name) ==
  LET same == { k \in DOMAIN authentications :
                  AuthFold[f.auths[authentications[k]].name] = AuthFold[name] }
  IN  { authentications[k] : k \in { k \in same : \A j \in same : k <= j } }

NextAuth == Len(authentications) + 1

ProcessAuthentication ==
  /\ phase = "authentication"
  /\ \E f \in file :
        /\ NextAuth \in DOMAIN f.auths
        /\ f.auths[NextAuth].known
        /\ authentications' = << NextAuth >> \o authentications
  /\ UNCHANGED << file, phase, servers, iter, ssl, callbacks >>

\* A member is missing, the type unknown, or memory runs out; if it runs out at
\* once, the error path looks into the entry that was not allocated.
ProcessAuthenticationFails ==
  /\ phase = "authentication"
  /\ \E f \in file :
        /\ NextAuth \in DOMAIN f.auths
        /\ \/ ~ f.auths[NextAuth].known /\ phase' = "exited"
           \/ Faults /\ phase' \in {"exited", "crashed"}
  /\ UNCHANGED << file, lists, iter, ssl, callbacks >>

AuthenticationsProcessed ==
  /\ phase = "authentication"
  /\ \E f \in file : NextAuth \notin DOMAIN f.auths
  /\ phase' = "servers"
  /\ UNCHANGED << file, lists, iter, ssl, callbacks >>

\* A key without a certificate is not looked at.
Valid(f, s) ==
  /\ s.host # None
  /\ s.port \in 1..SHRT_MAX
  /\ s.cert # None => s.key # None
  /\ s.auth # None => config_authentication_get_(f, s.auth) # {}

NextServer == Len(servers) + 1

Configured(f, n) ==
  LET s == f.servers[n]
  IN  [ entry |-> n,
        auth |-> IF s.auth = None THEN {} ELSE config_authentication_get_(f, s.auth) ]

ProcessServer ==
  /\ phase = "servers"
  /\ \E f \in file :
        /\ NextServer \in DOMAIN f.servers
        /\ Valid(f, f.servers[NextServer])
        /\ servers' = << Configured(f, NextServer) >> \o servers
  /\ UNCHANGED << file, phase, authentications, iter, ssl, callbacks >>

ProcessServerFails ==
  /\ phase = "servers"
  /\ \E f \in file :
        /\ NextServer \in DOMAIN f.servers
        /\ ~ Valid(f, f.servers[NextServer]) \/ Faults
  /\ phase' = "exited"
  /\ UNCHANGED << file, lists, iter, ssl, callbacks >>

ServersProcessed ==
  /\ phase = "servers"
  /\ \E f \in file : NextServer \notin DOMAIN f.servers
  /\ phase' = "begin"
  /\ UNCHANGED << file, lists, iter, ssl, callbacks >>

-----------------------------------------------------------------------------
(***************************************************************************)
(* The SSL context, one for all servers.                                   *)
(***************************************************************************)
ssl_setup(c) ==
  IF c.initialised THEN c ELSE [NoSsl EXCEPT !.initialised = TRUE]

\* Mutant: the certificate is loaded although there is one.
LoadCertificateAgain(c, cert) == [c EXCEPT !.cert = cert, !.keypair_loaded = @ + 1]

ssl_load_certificate(c, cert) ==
  IF c.keypair_loaded # 0 THEN c
  ELSE [c EXCEPT !.cert = cert, !.keypair_loaded = @ + 1]

\* Mutant: skipped as soon as anything is loaded.
LoadPrivatekeySkips(c, key) ==
  IF c.keypair_loaded # 0 THEN c
  ELSE [c EXCEPT !.key = key, !.keypair_loaded = @ + 1]

ssl_load_privatekey(c, key) ==
  IF c.keypair_loaded = 2 THEN c
  ELSE [c EXCEPT !.key = key, !.keypair_loaded = @ + 1]

\* OpenSSL reads the files that it is given, and takes a key that belongs to
\* the certificate it has: here a file of the same name.
Loads(c, s) ==
  LET withCert == ssl_load_certificate(ssl_setup(c), s.cert)
  IN  /\ ssl_setup(c).keypair_loaded = 0 => s.cert \in Pem
      /\ withCert.keypair_loaded # 2 => s.key = withCert.cert

Secured(s) == s.cert # None

SslFor(s) ==
  IF Secured(s)
  THEN ssl_load_privatekey(ssl_load_certificate(ssl_setup(ssl), s.cert), s.key)
  ELSE ssl

-----------------------------------------------------------------------------
(***************************************************************************)
(* manager_add_server: the callbacks of a server with authentication check *)
(* the credentials first, with parameters allocated for each.  If that     *)
(* fails the callback is registered all the same, with none (at most one   *)
(* of them in the model).                                                  *)
(***************************************************************************)
Plain == [checks |-> FALSE, auth |-> {}]
Checked(auth) == [checks |-> TRUE, auth |-> auth]

Complete == \A n \in DOMAIN callbacks : \A p \in Path : callbacks[n][p].auth # {}

CallbacksFor(auth) ==
  IF auth = {} THEN { [p \in Path |-> Plain] }
  ELSE { [p \in Path |-> Checked(auth \ lost[p])] :
           lost \in { [p \in Path |-> IF p = q THEN auth ELSE {}] :
                        q \in IF Faults /\ Complete THEN Lossy \cup {None} ELSE {None} } }

-----------------------------------------------------------------------------
(***************************************************************************)
(* The servers.                                                            *)
(***************************************************************************)
ConfigIterServerBegin ==
  /\ phase = "begin"
  /\ servers # << >>
  /\ iter' = servers
  /\ phase' = "create"
  /\ UNCHANGED << file, lists, ssl, callbacks >>

\* "no servers to run on", or libevent cannot start.
BeginFails ==
  /\ phase = "begin"
  /\ servers = << >> \/ Faults
  /\ phase' = "exited"
  /\ UNCHANGED << file, lists, iter, ssl, callbacks >>

Entry(f) == f.servers[Head(iter).entry]

Address(s) == << s.host, s.port >>

\* The address is free, and the certificate of a secured server can be loaded.
\* Whether two addresses with one port exclude each other is up to the system:
\* CreateServerFails may always be taken.
Starts(f) ==
  /\ \A n \in DOMAIN callbacks : Address(f.servers[n]) # Address(Entry(f))
  /\ Secured(Entry(f)) => Loads(ssl, Entry(f))

CreateServer ==
  /\ phase = "create"
  /\ iter # << >>
  /\ \E f \in file :
        /\ Starts(f)
        /\ Head(iter).auth # {}
        /\ ssl' = SslFor(Entry(f))
  /\ \E registered \in CallbacksFor(Head(iter).auth) :
        callbacks' = [n \in DOMAIN callbacks \cup {Head(iter).entry} |->
                        IF n = Head(iter).entry THEN registered ELSE callbacks[n]]
  /\ iter' = Tail(iter)
  /\ UNCHANGED << file, phase, lists >>

\* Mutant: the failure is reported and the server tried again.
CreateServerRetries ==
  /\ phase = "create"
  /\ iter # << >>
  /\ ssl' = NoSsl
  /\ UNCHANGED << file, phase, lists, iter, callbacks >>

\* The address cannot be bound, the certificate not loaded, or memory runs out.
CreateServerFails ==
  /\ phase = "create"
  /\ iter # << >>
  /\ phase' = "exited"
  /\ ssl' = NoSsl
  /\ UNCHANGED << file, lists, iter, callbacks >>

\* main asks every server for its authentication: there is none to look into.
CreateServerCrashes ==
  /\ phase = "create"
  /\ iter # << >>
  /\ \E f \in file :
        /\ Starts(f)
        /\ ssl' = SslFor(Entry(f))
  /\ Head(iter).auth = {}
  /\ phase' = "crashed"
  /\ UNCHANGED << file, lists, iter, callbacks >>

EventBaseDispatch ==
  /\ phase = "create"
  /\ iter = << >>
  /\ phase' = "running"
  /\ UNCHANGED << file, lists, iter, ssl, callbacks >>

StartupNext ==
  \/ CommandLine \/ CommandLineEnds
  \/ ProcessAuthentication \/ ProcessAuthenticationFails \/ AuthenticationsProcessed
  \/ ProcessServer \/ ProcessServerFails \/ ServersProcessed
  \/ ConfigIterServerBegin \/ BeginFails
  \/ CreateServer \/ CreateServerFails \/ CreateServerCrashes
  \/ EventBaseDispatch

StartupSpec ==
  StartupInit /\ [][StartupNext]_startupVars /\ WF_startupVars(StartupNext)

-----------------------------------------------------------------------------
(***************************************************************************)
(* Properties.                                                             *)
(***************************************************************************)
\* The authentication that an entry of the file names: the last one of that
\* name, whatever the case of its letters.
Named(f, n) ==
  { k \in DOMAIN f.auths :
      /\ f.servers[n].auth # None
      /\ AuthFold[f.auths[k].name] = AuthFold[f.servers[n].auth]
      /\ \A j \in DOMAIN f.auths :
            AuthFold[f.auths[j].name] = AuthFold[f.auths[k].name] => j <= k }

Callback(f) == [checks : BOOLEAN, auth : SUBSET DOMAIN f.auths]

(* Every variable has its type: indices are those of entries of the file,  *)
(* and keypair_loaded counts a certificate and a key.                      *)
StartupTypeOK ==
  /\ phase \in {"command_line", "authentication", "servers", "begin", "create"} \cup Ended
  /\ ssl \in [initialised : BOOLEAN, keypair_loaded : 0..2,
              cert : Pem \cup {None}, key : Pem \cup {None}]
  /\ file = {} => authentications = << >> /\ servers = << >>
  /\ \A f \in file :
        /\ authentications \in Seq(DOMAIN f.auths)
        /\ \A s \in {servers, iter} :
              s \in Seq([entry : DOMAIN f.servers, auth : SUBSET DOMAIN f.auths])
        /\ DOMAIN callbacks \subseteq DOMAIN f.servers
        /\ \A n \in DOMAIN callbacks : callbacks[n] \in [Path -> Callback(f)]

(* Once the loop runs, every entry of the file has its server, and each    *)
(* path of it, the WebSocket one included, asks for the authentication     *)
(* that the entry names (config.c:196, manager.c:59-87).  The only         *)
(* exception is a callback whose parameters could not be allocated.        *)
ServesAsConfigured ==
  phase = "running" =>
    \E f \in file :
      /\ DOMAIN callbacks = DOMAIN f.servers
      /\ \A n \in DOMAIN callbacks : \A p \in Path :
            /\ callbacks[n][p].checks
            /\ callbacks[n][p].auth = Named(f, n) \/ (Faults /\ callbacks[n][p].auth = {})

(* A secured server never serves without a complete pair in the context:   *)
(* between two servers there are no halves, although the two functions     *)
(* that load them skip at different counts (ssl.c:65, :81), and            *)
(* ssl_create_connection finds a certificate with the key that belongs to  *)
(* it (ssl.c:104).  Whose it is, is another question: the first one loaded *)
(* serves all.                                                             *)
ContextReady ==
  /\ phase \in {"create", "running"} => ssl.keypair_loaded \in {0, 2}
  /\ phase = "running" => \A n \in DOMAIN callbacks : \A f \in file :
        Secured(f.servers[n]) =>
          ssl.initialised /\ ssl.keypair_loaded = 2 /\ ssl.key = ssl.cert

(* Startup comes to an end: the loop runs or the process has ended.        *)
StartupEnds == <>(phase \in Ended)
=============================================================================
