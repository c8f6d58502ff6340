---------------------------- MODULE OutboundStartup ----------------------------
(***************************************************************************)
(* Start-up and shut-down of the outbound MHS service (src/mhs/outbound/   *)
(* main.py), with the constructor of OutboundTransmission it calls.  main()*)
(* reads its settings one after the other, builds the route lookup, the    *)
(* certificates, the transmission, the stores and the workflows, starts    *)
(* the Tornado server and runs the IO loop until it is interrupted; the    *)
(* __main__ block logs any exception that escapes as fatal.               *)
(*                                                                         *)
(* A setting is read once, when main() reaches it, so the model chooses    *)
(* its text at that step.  Conversions are modelled                        *)
(* by what they do on the texts in play: IntOf is int() on the texts it   *)
(* accepts, FloatTexts are the texts float() accepts, any other text      *)
(* raises ValueError.  Settings that are plain strings (URLs, table names, *)
(* org codes, secrets) are data and are left out; str2bool is outside the  *)
(* sources and is taken to return a boolean.                               *)
(***************************************************************************)
EXTENDS Integers

CONSTANTS
  Settings,     \* the texts each setting may hold, Absent included
  IntOf,        \* int(): the texts it accepts, with their value
  FloatTexts,   \* the texts float() accepts
  Absent,       \* a setting that is not configured
  None          \* Python's None

ASSUME SettingsAssumption ==
  /\ DOMAIN Settings = {"OUTBOUND_ROUTING_LOOKUP_METHOD",
        "SPINE_ROUTE_LOOKUP_HTTP_PROXY", "SPINE_ROUTE_LOOKUP_HTTP_PROXY_PORT",
        "OUTBOUND_TRANSMISSION_MAX_RETRIES", "OUTBOUND_TRANSMISSION_RETRY_DELAY",
        "OUTBOUND_HTTP_PROXY", "OUTBOUND_HTTP_PROXY_PORT",
        "STATE_STORE_MAX_RETRIES", "STATE_STORE_RETRY_DELAY",
        "SYNC_ASYNC_STORE_MAX_RETRIES", "SYNC_ASYNC_STORE_RETRY_DELAY",
        "SPINE_REQUEST_MAX_SIZE", "RESYNC_RETRIES", "RESYNC_INTERVAL",
        "RESYNC_INITIAL_DELAY", "OUTBOUND_SERVER_PORT"}
  /\ \A k \in DOMAIN Settings : Absent \in Settings[k] /\ None \notin Settings[k]
  /\ \A t \in DOMAIN IntOf : IntOf[t] \in Int

VARIABLES
  pc,             \* the statement of main() reached next
  httpClient,     \* the AsyncHTTPClient implementation configured
  routing,        \* the route lookup client, or None
  certificates,   \* the certificate files written by create_certs_files
  transmission,   \* the OutboundTransmission instance, or None
  loop,           \* the Tornado IO loop: "none", "running" or "closed"
  listening,      \* the HTTP server holds its port
  raised,         \* the exception propagating towards __main__, or "none"
  cause,          \* history: the exception that ended main's work, or "none"
  fatalLogged,    \* logger.critical('Fatal exception in main application')
  shutdownLogged  \* logger.info('Server shut down, exiting...')

vars == <<pc, httpClient, routing, certificates, transmission, loop,
          listening, raised, cause, fatalLogged, shutdownLogged>>

-----------------------------------------------------------------------------
(* Python values.                                                          *)
Ok(v) == [raised |-> "none", value |-> v]
Error(t) == [raised |-> t, value |-> None]
Fails(r) == r.raised # "none"

\* config.get_config(key, default): the configured text, else the default.
GetConfig(text, default) == IF text = Absent THEN default ELSE text

\* Faulty variant: a lenient conversion that gives None for a text int()
\* rejects instead of raising.
PyIntLenient(text) ==
  IF text \in DOMAIN IntOf THEN Ok(IntOf[text]) ELSE Ok(None)

\* int(text) and float(text); int(None) raises TypeError.
PyInt(text) ==
  IF text = None THEN Error("TypeError")
  ELSE IF text \in DOMAIN IntOf THEN Ok(IntOf[text]) ELSE Error("ValueError")
PyFloat(text) ==
  IF text \in FloatTexts THEN Ok(text) ELSE Error("ValueError")

\* The exception classes main() can raise that derive from Exception (the
\* __main__ block catches those), and what ends IOLoop.start(): Ctrl-C,
\* sys.exit, or an error escaping the loop.
Exceptions == {"ValueError", "TypeError", "KeyError", "OSError", "Exception",
               "RuntimeError"}
LoopEnds == {"KeyboardInterrupt", "SystemExit", "RuntimeError"}

\* Two expressions evaluated in order: the first exception, if any, else
\* the second's value.
Then(r1, r2) == IF Fails(r1) THEN r1 ELSE r2

\* The certificate files main() writes, and the PEM texts compiled into
\* OutboundTransmission and CommonHttps.
CertificateFiles == [client_cert |-> "client.pem", client_key |-> "client.key",
                     ca_certs |-> "ca_certs.pem"]
CompiledIn == [client_cert |-> "PEM certificate", client_key |-> "PEM key",
               ca_certs |-> "PEM CA bundle"]

\* The route lookup clients and OutboundTransmission instances main() builds.
RouteLookupClients ==
  [lookup : {"spine", "sds"}, proxy_port : Int \cup {None}]
Transmissions ==
  [identity : {CompiledIn}, max_retries : Int, retry_delay : Int,
   proxy_host : (UNION {Settings[k] : k \in DOMAIN Settings}) \cup {None},
   proxy_port : Int \cup {None}]

\* Python's None is none of the integers and objects main() builds.
ASSUME NoneAssumption ==
  None \notin Int \cup {CertificateFiles} \cup RouteLookupClients \cup Transmissions

-----------------------------------------------------------------------------
(* A statement of main() whose expressions gave r: an exception leaves   *)
(* main() at once, otherwise control moves on to next.  Outcome also      *)
(* assigns v to the variable x the statement binds.                       *)
\* Faulty variant: the exception is swallowed and main() carries on.
ProceedIgnoring(r, next) ==
  /\ pc' = next
  /\ UNCHANGED <<raised, cause>>

Proceed(r, next) ==
  IF Fails(r)
  THEN /\ raised' = r.raised /\ cause' = r.raised
       /\ pc' = "handler"
  ELSE /\ pc' = next
       /\ UNCHANGED <<raised, cause>>

Outcome(r, x, v, next) ==
  /\ Proceed(r, next)
  /\ x' = IF Fails(r) THEN x ELSE v

Init ==
  /\ pc = "configure"
  /\ httpClient = "simple"
  /\ routing = None
  /\ certificates = None
  /\ transmission = None
  /\ loop = "none"
  /\ listening = FALSE
  /\ raised = "none"
  /\ cause = "none"
  /\ fatalLogged = FALSE
  /\ shutdownLogged = FALSE

(* config.setup_config, secrets.setup_secret_config and configure_logging  *)
(* (outside the sources), then configure_http_client: Tornado is told to   *)
(* use CurlAsyncHTTPClient.                                                *)
Configure ==
  /\ pc = "configure"
  /\ httpClient' = "curl"
  /\ pc' = "routing"
  /\ UNCHANGED <<routing, certificates, transmission, loop, listening, raised,
                 cause, fatalLogged, shutdownLogged>>

(* The choice of route lookup: OUTBOUND_ROUTING_LOOKUP_METHOD, by default  *)
(* SPINE_ROUTE_LOOKUP; any other value raises KeyError.                   *)
SelectRouting ==
  /\ pc = "routing"
  /\ \E text \in Settings["OUTBOUND_ROUTING_LOOKUP_METHOD"] :
       LET method == GetConfig(text, "SPINE_ROUTE_LOOKUP")
       IN  Proceed(IF method \in {"SPINE_ROUTE_LOOKUP", "SDS_API"}
                   THEN Ok(method) ELSE Error("KeyError"),
                   IF method = "SDS_API" THEN "sds" ELSE "spine")
  /\ UNCHANGED <<httpClient, routing, certificates, transmission, loop,
                 listening, fatalLogged, shutdownLogged>>

(* initialise_spine_route_lookup: the route certificates are written      *)
(* (which may fail), then the proxy port is read only when a proxy host   *)
(* is configured.                                                          *)
InitialiseSpineRouteLookup ==
  /\ pc = "spine"
  /\ \E written \in BOOLEAN,
        host \in Settings["SPINE_ROUTE_LOOKUP_HTTP_PROXY"],
        port \in Settings["SPINE_ROUTE_LOOKUP_HTTP_PROXY_PORT"] :
       LET proxyPort == IF host = Absent THEN Ok(None)
                        ELSE PyInt(GetConfig(port, "3128"))
       IN  Outcome(IF written THEN proxyPort ELSE Error("OSError"), routing,
                   [lookup |-> "spine", proxy_port |-> proxyPort.value], "certs")
  /\ UNCHANGED <<httpClient, certificates, transmission, loop, listening,
                 fatalLogged, shutdownLogged>>

(* initialise_sds_api_client: raises when OpenSSL has no default CA file. *)
InitialiseSdsApiClient ==
  /\ pc = "sds"
  /\ \E cafile \in BOOLEAN :
       Outcome(IF cafile THEN Ok(TRUE) ELSE Error("Exception"), routing,
               [lookup |-> "sds", proxy_port |-> None], "certs")
  /\ UNCHANGED <<httpClient, certificates, transmission, loop, listening,
                 fatalLogged, shutdownLogged>>

(* Certs.create_certs_files for the outbound identity (writing the files  *)
(* may fail).                                                              *)
CreateCertificates ==
  /\ pc = "certs"
  /\ \E written \in BOOLEAN :
       Outcome(IF written THEN Ok(TRUE) ELSE Error("OSError"), certificates,
               CertificateFiles, "transmission")
  /\ UNCHANGED <<httpClient, routing, transmission, loop, listening,
                 fatalLogged, shutdownLogged>>

(* OutboundTransmission.__init__: the certificate paths it is given are    *)
(* not kept; the instance holds the PEM texts compiled into the class.     *)
OutboundTransmissionInit(cert, key, ca, maxRetries, delay, host, port) ==
  [identity    |-> CompiledIn,
   max_retries |-> maxRetries,
   retry_delay |-> delay,
   proxy_host  |-> host,
   proxy_port  |-> port]

(* The identity CommonHttps.make_request presents on every fetch of the   *)
(* transmission: it too ignores the certificate arguments it receives and  *)
(* passes its own compiled-in PEM texts to AsyncHTTPClient.fetch.          *)
FetchIdentity(t) == CompiledIn

(* The outbound transmission settings are read in order (max retries,      *)
(* retry delay, proxy host, the proxy port only when a host is set), and   *)
(* OutboundTransmission is built from them and the certificate files.     *)
CreateTransmission ==
  /\ pc = "transmission"
  /\ \E mr \in Settings["OUTBOUND_TRANSMISSION_MAX_RETRIES"],
        rd \in Settings["OUTBOUND_TRANSMISSION_RETRY_DELAY"],
        host \in Settings["OUTBOUND_HTTP_PROXY"],
        port \in Settings["OUTBOUND_HTTP_PROXY_PORT"] :
       LET maxRetries == PyInt(GetConfig(mr, "3"))
           retryDelay == PyInt(GetConfig(rd, "100"))
           proxyHost  == GetConfig(host, None)
           proxyPort  == IF proxyHost = None THEN Ok(None)
                         ELSE PyInt(GetConfig(port, "3128"))
       IN  Outcome(Then(maxRetries, Then(retryDelay, proxyPort)), transmission,
                   OutboundTransmissionInit(certificates.client_cert,
                       certificates.client_key, certificates.ca_certs,
                       maxRetries.value, retryDelay.value, proxyHost,
                       proxyPort.value),
                   "stores")
  /\ UNCHANGED <<httpClient, routing, certificates, loop, listening,
                 fatalLogged, shutdownLogged>>

(* The two persistence adaptors: each reads its max retries and retry     *)
(* delay with int().                                                       *)
CreateStores ==
  /\ pc = "stores"
  /\ \E a \in Settings["STATE_STORE_MAX_RETRIES"],
        b \in Settings["STATE_STORE_RETRY_DELAY"],
        c \in Settings["SYNC_ASYNC_STORE_MAX_RETRIES"],
        d \in Settings["SYNC_ASYNC_STORE_RETRY_DELAY"] :
       Proceed(Then(PyInt(GetConfig(a, "3")),
               Then(PyInt(GetConfig(b, "100")),
               Then(PyInt(GetConfig(c, "3")), PyInt(GetConfig(d, "100"))))),
               "workflows")
  /\ UNCHANGED <<httpClient, routing, certificates, transmission, loop,
                 listening, fatalLogged, shutdownLogged>>

(* SPINE_REQUEST_MAX_SIZE has no default (an absent setting is taken to    *)
(* read as None, so int() raises TypeError), then initialise_workflows     *)
(* reads the resynchroniser's retries, interval and initial delay.         *)
InitialiseWorkflows ==
  /\ pc = "workflows"
  /\ \E size \in Settings["SPINE_REQUEST_MAX_SIZE"],
        n \in Settings["RESYNC_RETRIES"],
        interval \in Settings["RESYNC_INTERVAL"],
        delay \in Settings["RESYNC_INITIAL_DELAY"] :
       Proceed(Then(PyInt(GetConfig(size, None)),
               Then(PyInt(GetConfig(n, "20")),
               Then(PyFloat(GetConfig(interval, "1.0")),
                    PyFloat(GetConfig(delay, "0"))))),
               "server")
  /\ UNCHANGED <<httpClient, routing, certificates, transmission, loop,
                 listening, fatalLogged, shutdownLogged>>

(* start_tornado_server up to IOLoop.start(): the interactions file is     *)
(* loaded, the port read and bound (loading and binding may fail); then    *)
(* the loop runs.                                                          *)
StartTornadoServer ==
  /\ pc = "server"
  /\ \E loaded \in BOOLEAN, text \in Settings["OUTBOUND_SERVER_PORT"],
        bound \in BOOLEAN :
       LET r == Then(IF loaded THEN Ok(TRUE) ELSE Error("OSError"),
                Then(PyInt(GetConfig(text, "80")),
                     IF bound THEN Ok(TRUE) ELSE Error("OSError")))
       IN  /\ Proceed(r, "serving")
           /\ listening' = ~Fails(r)
           /\ loop' = IF Fails(r) THEN loop ELSE "running"
  /\ UNCHANGED <<httpClient, routing, certificates, transmission, fatalLogged,
                 shutdownLogged>>

\* Faulty variant: `except KeyboardInterrupt` widened to
\* `except (KeyboardInterrupt, Exception)`.
ServeEndsSwallowing ==
  /\ pc = "serving"
  /\ \E end \in LoopEnds :
       /\ cause' = end
       /\ IF end \in {"KeyboardInterrupt"} \cup Exceptions
          THEN raised' = "none" /\ shutdownLogged' = TRUE
          ELSE raised' = end /\ UNCHANGED shutdownLogged
  /\ loop' = "closed"
  /\ listening' = FALSE
  /\ pc' = "handler"
  /\ UNCHANGED <<httpClient, routing, certificates, transmission, fatalLogged>>

(* IOLoop.start() ends by an exception.  KeyboardInterrupt is caught and   *)
(* start_tornado_server returns after logging the shut-down; anything else *)
(* propagates.  Either way the finally clause stops and closes the loop,   *)
(* with all its file descriptors, the listening socket included.           *)
ServeEnds ==
  /\ pc = "serving"
  /\ \E end \in LoopEnds :
       /\ cause' = end
       /\ IF end = "KeyboardInterrupt"
          THEN raised' = "none" /\ shutdownLogged' = TRUE
          ELSE raised' = end /\ UNCHANGED shutdownLogged
  /\ loop' = "closed"
  /\ listening' = FALSE
  /\ pc' = "handler"
  /\ UNCHANGED <<httpClient, routing, certificates, transmission, fatalLogged>>

(* The __main__ block: an Exception leaving main() is logged as fatal;     *)
(* KeyboardInterrupt and SystemExit pass through `except Exception`.  The *)
(* finally clause logs the exit and the process ends.                     *)
MainHandler ==
  /\ pc = "handler"
  /\ fatalLogged' = (raised \in Exceptions)
  /\ pc' = "exited"
  /\ UNCHANGED <<httpClient, routing, certificates, transmission, loop,
                 listening, raised, cause, shutdownLogged>>

Next ==
  \/ Configure
  \/ SelectRouting
  \/ InitialiseSpineRouteLookup
  \/ InitialiseSdsApiClient
  \/ CreateCertificates
  \/ CreateTransmission
  \/ CreateStores
  \/ InitialiseWorkflows
  \/ StartTornadoServer
  \/ ServeEnds
  \/ MainHandler

Spec == Init /\ [][Next]_vars

-----------------------------------------------------------------------------
(* Properties.                                                             *)

\* Every variable holds a value of its Python type; in particular the
\* numeric settings reach the objects built from them as integers.
TypeOK ==
  /\ pc \in {"configure", "routing", "spine", "sds", "certs", "transmission",
             "stores", "workflows", "server", "serving", "handler", "exited"}
  /\ httpClient \in {"simple", "curl"}
  /\ routing \in {None} \cup RouteLookupClients
  /\ certificates \in {None, CertificateFiles}
  /\ transmission \in {None} \cup Transmissions
  /\ loop \in {"none", "running", "closed"}
  /\ listening \in BOOLEAN
  /\ raised \in Exceptions \cup LoopEnds \cup {"none"}
  /\ cause \in Exceptions \cup LoopEnds \cup {"none"}
  /\ fatalLogged \in BOOLEAN
  /\ shutdownLogged \in BOOLEAN

\* When the process exits, whatever ended main() (a bad setting, a failed
\* write or bind, or the end of the IO loop) has been accounted for: the
\* loop is closed and the port released, the fatal log appears exactly
\* when an Exception ended the work, and the shut-down log exactly when it
\* was Ctrl-C.  This is about start_tornado_server's try/except/finally
\* and the __main__ handler together.
ShutdownAccounted ==
  pc = "exited" =>
    /\ loop # "running"
    /\ ~listening
    /\ fatalLogged <=> cause \in Exceptions
    /\ shutdownLogged <=> cause = "KeyboardInterrupt"

\* The server starts listening only once main() has built everything its
\* handlers use: the route lookup, the certificate files and the
\* transmission.  A failed statement must leave main() before the server
\* is started, never let it carry on with a missing object.
ServesOnlyWhenBuilt ==
  [][~listening /\ listening' =>
       /\ routing # None
       /\ certificates # None
       /\ transmission # None]_vars

\* Spec 4.1 requires a retry budget N >= 1 and a delay D >= 0: the server
\* accepts requests only once OutboundTransmission has a retry policy in
\* that range.  main() takes OUTBOUND_TRANSMISSION_MAX_RETRIES and
\* OUTBOUND_TRANSMISSION_RETRY_DELAY through int() unchecked.
ServesOnlyWithValidRetryPolicy ==
  listening => transmission.max_retries >= 1 /\ transmission.retry_delay >= 0

\* Spec 4.2/4.3: outbound requests present the client certificate, key and
\* CA bundle that main() wrote from its configuration.  The transmission
\* and CommonHttps present compiled-in PEM texts instead.
PresentsConfiguredCertificates ==
  listening => FetchIdentity(transmission) = certificates
=============================================================================
