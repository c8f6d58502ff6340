----------------------- MODULE OutboundStartupProofs -----------------------
(***************************************************************************)
(* Proofs about the start-up and shut-down of the outbound service         *)
(* (module OutboundStartup), for every configuration the constants allow.  *)
(***************************************************************************)
EXTENDS OutboundStartup, TLAPS

-----------------------------------------------------------------------------
(* Lemmas about the operators the model is built from.                    *)

\* An expression result is sound when an exception it raises is one of the
\* Exception classes main() can raise.
Sound(r) == Fails(r) => r.raised \in Exceptions

\* int() either raises an Exception class or yields an integer.
LEMMA PyIntResult ==
  ASSUME NEW t
  PROVE  /\ Sound(PyInt(t))
         /\ ~Fails(PyInt(t)) => PyInt(t).value \in Int
BY SettingsAssumption DEF Sound, PyInt, Fails, Ok, Error, Exceptions

\* float() either raises ValueError or yields a value.
LEMMA PyFloatResult ==
  ASSUME NEW t
  PROVE  Sound(PyFloat(t))
BY DEF Sound, PyFloat, Fails, Ok, Error, Exceptions

\* A raised exception literal of main() is sound.
LEMMA ErrorSound ==
  ASSUME NEW t \in Exceptions
  PROVE  Sound(Error(t))
BY DEF Sound, Fails, Error, Exceptions

\* Two expressions in sequence fail exactly when one of them does, and
\* pass on the exception of the first that fails.
LEMMA ThenResult ==
  ASSUME NEW r1, NEW r2
  PROVE  /\ Fails(Then(r1, r2)) <=> Fails(r1) \/ Fails(r2)
         /\ Sound(r1) /\ Sound(r2) => Sound(Then(r1, r2))
BY DEF Then, Sound

-----------------------------------------------------------------------------
(* Where main() is: the statements after each object is bound, the       *)
(* statements before the server is started, and the two after main()    *)
(* has been left.                                                        *)
AfterRouting == {"certs", "transmission", "stores", "workflows", "server",
                 "serving"}
AfterCertificates == AfterRouting \ {"certs"}
AfterTransmission == AfterCertificates \ {"transmission"}
Starting == {"configure", "routing", "spine", "sds", "certs", "transmission",
             "stores", "workflows", "server"}
Ended == {"handler", "exited"}

(* The inductive invariant.  ShutdownAccounted speaks only of the exited *)
(* process; to carry it from step to step the invariant says, for each   *)
(* stretch of main(), which objects are bound, what the loop, the socket *)
(* and the logs are, and how the propagating exception relates to the   *)
(* cause: the same exception, or none when Ctrl-C was caught.            *)
IInv ==
  /\ TypeOK
  /\ pc \in AfterRouting => routing # None
  /\ pc \in AfterCertificates => certificates # None
  /\ pc \in AfterTransmission => transmission # None
  /\ pc \in Starting =>
       /\ loop = "none" /\ ~listening
       /\ raised = "none" /\ cause = "none" /\ ~shutdownLogged
  /\ pc = "serving" =>
       /\ loop = "running" /\ listening
       /\ raised = "none" /\ cause = "none" /\ ~shutdownLogged
  /\ pc \in Ended =>
       /\ loop # "running" /\ ~listening
       /\ cause # "none"
       /\ raised = IF cause = "KeyboardInterrupt" THEN "none" ELSE cause
       /\ shutdownLogged <=> cause = "KeyboardInterrupt"
  /\ pc # "exited" => ~fatalLogged
  /\ pc = "exited" => (fatalLogged <=> raised \in Exceptions)

-----------------------------------------------------------------------------
(* Each action preserves the invariant.                                   *)

\* The proof context of one step: the invariant holds before it.
USE DEF Ok, Error, Fails

LEMMA InitIInv == Init => IInv
BY DEF Init, IInv, TypeOK, Starting, AfterRouting, AfterCertificates,
       AfterTransmission, Ended, Exceptions, LoopEnds, RouteLookupClients

LEMMA ConfigureIInv == IInv /\ Configure => IInv'
BY DEF IInv, TypeOK, Configure, Starting, AfterRouting, AfterCertificates,
       AfterTransmission, Ended

LEMMA SelectRoutingIInv == IInv /\ SelectRouting => IInv'
<1> SUFFICES ASSUME IInv, SelectRouting PROVE IInv'
  OBVIOUS
<1>1. PICK text \in Settings["OUTBOUND_ROUTING_LOOKUP_METHOD"] :
        LET method == GetConfig(text, "SPINE_ROUTE_LOOKUP")
        IN  Proceed(IF method \in {"SPINE_ROUTE_LOOKUP", "SDS_API"}
                    THEN Ok(method) ELSE Error("KeyError"),
                    IF method = "SDS_API" THEN "sds" ELSE "spine")
  BY DEF SelectRouting
<1>2. QED
  BY <1>1 DEF SelectRouting, Proceed, IInv, TypeOK, Starting, AfterRouting,
              AfterCertificates, AfterTransmission, Ended, Exceptions,
              LoopEnds

LEMMA SpineRouteLookupIInv == IInv /\ InitialiseSpineRouteLookup => IInv'
<1> SUFFICES ASSUME IInv, InitialiseSpineRouteLookup PROVE IInv'
  OBVIOUS
<1>1. PICK written \in BOOLEAN,
           host \in Settings["SPINE_ROUTE_LOOKUP_HTTP_PROXY"],
           port \in Settings["SPINE_ROUTE_LOOKUP_HTTP_PROXY_PORT"] :
        LET proxyPort == IF host = Absent THEN Ok(None)
                         ELSE PyInt(GetConfig(port, "3128"))
        IN  Outcome(IF written THEN proxyPort ELSE Error("OSError"), routing,
                    [lookup |-> "spine", proxy_port |-> proxyPort.value],
                    "certs")
  BY DEF InitialiseSpineRouteLookup
<1> DEFINE proxyPort == IF host = Absent THEN Ok(None)
                        ELSE PyInt(GetConfig(port, "3128"))
           r == IF written THEN proxyPort ELSE Error("OSError")
<1>2. Sound(r) /\ (~Fails(r) => proxyPort.value \in Int \cup {None})
  BY PyIntResult, ErrorSound DEF Sound, Exceptions
<1>3. QED
  BY <1>1, <1>2, NoneAssumption DEF Sound, InitialiseSpineRouteLookup, Outcome, Proceed,
     IInv, TypeOK, Starting, AfterRouting, AfterCertificates,
     AfterTransmission, Ended, Exceptions, LoopEnds, RouteLookupClients

LEMMA SdsApiClientIInv == IInv /\ InitialiseSdsApiClient => IInv'
<1> SUFFICES ASSUME IInv, InitialiseSdsApiClient PROVE IInv'
  OBVIOUS
<1>1. PICK cafile \in BOOLEAN :
        Outcome(IF cafile THEN Ok(TRUE) ELSE Error("Exception"), routing,
                [lookup |-> "sds", proxy_port |-> None], "certs")
  BY DEF InitialiseSdsApiClient
<1>2. QED
  BY <1>1, NoneAssumption DEF InitialiseSdsApiClient, Outcome, Proceed, IInv, TypeOK,
     Starting, AfterRouting, AfterCertificates, AfterTransmission, Ended,
     Exceptions, LoopEnds, RouteLookupClients

LEMMA CreateCertificatesIInv == IInv /\ CreateCertificates => IInv'
<1> SUFFICES ASSUME IInv, CreateCertificates PROVE IInv'
  OBVIOUS
<1>1. PICK written \in BOOLEAN :
        Outcome(IF written THEN Ok(TRUE) ELSE Error("OSError"), certificates,
                CertificateFiles, "transmission")
  BY DEF CreateCertificates
<1>2. QED
  BY <1>1, NoneAssumption DEF CreateCertificates, Outcome, Proceed, IInv, TypeOK,
     Starting, AfterRouting, AfterCertificates, AfterTransmission, Ended,
     Exceptions, LoopEnds, RouteLookupClients

LEMMA CreateTransmissionIInv == IInv /\ CreateTransmission => IInv'
<1> SUFFICES ASSUME IInv, CreateTransmission PROVE IInv'
  OBVIOUS
<1>1. PICK mr \in Settings["OUTBOUND_TRANSMISSION_MAX_RETRIES"],
           rd \in Settings["OUTBOUND_TRANSMISSION_RETRY_DELAY"],
           host \in Settings["OUTBOUND_HTTP_PROXY"],
           port \in Settings["OUTBOUND_HTTP_PROXY_PORT"] :
        LET maxRetries == PyInt(GetConfig(mr, "3"))
            retryDelay == PyInt(GetConfig(rd, "100"))
            proxyHost  == GetConfig(host, None)
            proxyPort  == IF proxyHost = None THEN Ok(None)
                          ELSE PyInt(GetConfig(port, "3128"))
        IN  Outcome(Then(maxRetries, Then(retryDelay, proxyPort)),
                    transmission,
                    OutboundTransmissionInit(certificates.client_cert,
                        certificates.client_key, certificates.ca_certs,
                        maxRetries.value, retryDelay.value, proxyHost,
                        proxyPort.value),
                    "stores")
  BY DEF CreateTransmission
<1> DEFINE maxRetries == PyInt(GetConfig(mr, "3"))
           retryDelay == PyInt(GetConfig(rd, "100"))
           proxyHost  == GetConfig(host, None)
           proxyPort  == IF proxyHost = None THEN Ok(None)
                         ELSE PyInt(GetConfig(port, "3128"))
           r == Then(maxRetries, Then(retryDelay, proxyPort))
           t == OutboundTransmissionInit(certificates.client_cert,
                   certificates.client_key, certificates.ca_certs,
                   maxRetries.value, retryDelay.value, proxyHost,
                   proxyPort.value)
<1>2. Sound(r)
  BY PyIntResult, ThenResult DEF Sound
<1>3. ~Fails(r) => t \in Transmissions
  <2> SUFFICES ASSUME ~Fails(r) PROVE t \in Transmissions
    OBVIOUS
  <2>1. ~Fails(maxRetries) /\ ~Fails(retryDelay) /\ ~Fails(proxyPort)
    BY ThenResult
  <2>2. /\ maxRetries.value \in Int
        /\ retryDelay.value \in Int
        /\ proxyPort.value \in Int \cup {None}
    BY <2>1, PyIntResult
  <2>3. proxyHost \in (UNION {Settings[k] : k \in DOMAIN Settings}) \cup {None}
    BY SettingsAssumption DEF GetConfig
  <2>4. QED
    BY <2>2, <2>3 DEF OutboundTransmissionInit, Transmissions
<1>4. QED
  BY <1>1, <1>2, <1>3, NoneAssumption DEF Sound, CreateTransmission, Outcome,
     Proceed, IInv, TypeOK, Starting, AfterRouting, AfterCertificates,
     AfterTransmission, Ended, Exceptions, LoopEnds

LEMMA CreateStoresIInv == IInv /\ CreateStores => IInv'
<1> SUFFICES ASSUME IInv, CreateStores PROVE IInv'
  OBVIOUS
<1>1. PICK a \in Settings["STATE_STORE_MAX_RETRIES"],
           b \in Settings["STATE_STORE_RETRY_DELAY"],
           c \in Settings["SYNC_ASYNC_STORE_MAX_RETRIES"],
           d \in Settings["SYNC_ASYNC_STORE_RETRY_DELAY"] :
        Proceed(Then(PyInt(GetConfig(a, "3")),
                Then(PyInt(GetConfig(b, "100")),
                Then(PyInt(GetConfig(c, "3")), PyInt(GetConfig(d, "100"))))),
                "workflows")
  BY DEF CreateStores
<1>2. Sound(Then(PyInt(GetConfig(a, "3")),
            Then(PyInt(GetConfig(b, "100")),
            Then(PyInt(GetConfig(c, "3")), PyInt(GetConfig(d, "100"))))))
  BY PyIntResult, ThenResult
<1>3. QED
  BY <1>1, <1>2 DEF Sound, CreateStores, Proceed, IInv, TypeOK, Starting,
     AfterRouting, AfterCertificates, AfterTransmission, Ended, Exceptions,
     LoopEnds

LEMMA InitialiseWorkflowsIInv == IInv /\ InitialiseWorkflows => IInv'
<1> SUFFICES ASSUME IInv, InitialiseWorkflows PROVE IInv'
  OBVIOUS
<1>1. PICK size \in Settings["SPINE_REQUEST_MAX_SIZE"],
           n \in Settings["RESYNC_RETRIES"],
           interval \in Settings["RESYNC_INTERVAL"],
           delay \in Settings["RESYNC_INITIAL_DELAY"] :
        Proceed(Then(PyInt(GetConfig(size, None)),
                Then(PyInt(GetConfig(n, "20")),
                Then(PyFloat(GetConfig(interval, "1.0")),
                     PyFloat(GetConfig(delay, "0"))))),
                "server")
  BY DEF InitialiseWorkflows
<1>2. Sound(Then(PyInt(GetConfig(size, None)),
            Then(PyInt(GetConfig(n, "20")),
            Then(PyFloat(GetConfig(interval, "1.0")),
                 PyFloat(GetConfig(delay, "0"))))))
  BY PyIntResult, PyFloatResult, ThenResult
<1>3. QED
  BY <1>1, <1>2 DEF Sound, InitialiseWorkflows, Proceed, IInv, TypeOK,
     Starting, AfterRouting, AfterCertificates, AfterTransmission, Ended,
     Exceptions, LoopEnds

LEMMA StartTornadoServerIInv == IInv /\ StartTornadoServer => IInv'
<1> SUFFICES ASSUME IInv, StartTornadoServer PROVE IInv'
  OBVIOUS
<1>1. PICK loaded \in BOOLEAN, text \in Settings["OUTBOUND_SERVER_PORT"],
           bound \in BOOLEAN :
        LET r == Then(IF loaded THEN Ok(TRUE) ELSE Error("OSError"),
                 Then(PyInt(GetConfig(text, "80")),
                      IF bound THEN Ok(TRUE) ELSE Error("OSError")))
        IN  /\ Proceed(r, "serving")
            /\ listening' = ~Fails(r)
            /\ loop' = IF Fails(r) THEN loop ELSE "running"
  BY DEF StartTornadoServer
<1> DEFINE r == Then(IF loaded THEN Ok(TRUE) ELSE Error("OSError"),
                Then(PyInt(GetConfig(text, "80")),
                     IF bound THEN Ok(TRUE) ELSE Error("OSError")))
<1>2. Sound(r)
  BY PyIntResult, ErrorSound, ThenResult DEF Sound, Exceptions
<1>3. /\ pc = "server"
      /\ UNCHANGED <<httpClient, routing, certificates, transmission,
                     fatalLogged, shutdownLogged>>
  BY DEF StartTornadoServer
<1>4. CASE Fails(r)
  <2>1. /\ raised' = r.raised /\ cause' = r.raised /\ pc' = "handler"
        /\ listening' = FALSE /\ loop' = loop
    BY <1>1, <1>4 DEF Proceed
  <2>2. r.raised \in Exceptions /\ r.raised # "KeyboardInterrupt"
    BY <1>2, <1>4 DEF Sound, Exceptions
  <2>3. ~fatalLogged /\ ~shutdownLogged /\ loop = "none"
    BY <1>3 DEF IInv, Starting
  <2>4. TypeOK'
    BY <1>3, <2>1, <2>2 DEF IInv, TypeOK
  <2>5. QED
    BY <1>3, <2>1, <2>2, <2>3, <2>4 DEF IInv, Starting, AfterRouting,
       AfterCertificates, AfterTransmission, Ended, Exceptions
<1>5. CASE ~Fails(r)
  <2>1. /\ raised' = raised /\ cause' = cause /\ pc' = "serving"
        /\ listening' = TRUE /\ loop' = "running"
    BY <1>1, <1>5 DEF Proceed
  <2>2. QED
    BY <1>3, <2>1 DEF IInv, TypeOK, Starting, AfterRouting,
       AfterCertificates, AfterTransmission, Ended
<1>6. QED
  BY <1>4, <1>5

LEMMA ServeEndsIInv == IInv /\ ServeEnds => IInv'
<1> SUFFICES ASSUME IInv, ServeEnds PROVE IInv'
  OBVIOUS
<1>1. PICK end \in LoopEnds :
        /\ cause' = end
        /\ IF end = "KeyboardInterrupt"
           THEN raised' = "none" /\ shutdownLogged' = TRUE
           ELSE raised' = end /\ UNCHANGED shutdownLogged
  BY DEF ServeEnds
<1>2. /\ pc = "serving" /\ pc' = "handler"
      /\ loop' = "closed" /\ listening' = FALSE
      /\ UNCHANGED <<httpClient, routing, certificates, transmission,
                     fatalLogged>>
  BY DEF ServeEnds
<1>3. ~shutdownLogged /\ ~fatalLogged
  BY <1>2 DEF IInv, Starting
<1>4. TypeOK'
  BY <1>1, <1>2, <1>3 DEF IInv, TypeOK, LoopEnds
<1>5. QED
  BY <1>1, <1>2, <1>3, <1>4 DEF IInv, Starting, AfterRouting,
     AfterCertificates, AfterTransmission, Ended, LoopEnds

LEMMA MainHandlerIInv == IInv /\ MainHandler => IInv'
<1> SUFFICES ASSUME IInv, MainHandler PROVE IInv'
  OBVIOUS
<1>1. /\ pc = "handler" /\ pc' = "exited"
      /\ fatalLogged' = (raised \in Exceptions)
      /\ UNCHANGED <<httpClient, routing, certificates, transmission, loop,
                     listening, raised, cause, shutdownLogged>>
  BY DEF MainHandler
<1>2. TypeOK'
  BY <1>1 DEF IInv, TypeOK
<1>3. QED
  BY <1>1, <1>2 DEF IInv, Starting, AfterRouting, AfterCertificates,
     AfterTransmission, Ended

-----------------------------------------------------------------------------
(* Main results.                                                          *)

\* The invariant holds in every state of every run of main().
THEOREM IInvHolds == Spec => []IInv
<1>1. Init => IInv
  BY InitIInv
<1>2. IInv /\ [Next]_vars => IInv'
  <2> SUFFICES ASSUME IInv, [Next]_vars PROVE IInv'
    OBVIOUS
  <2>1. CASE UNCHANGED vars
    BY <2>1 DEF vars, IInv, TypeOK, Starting, AfterRouting,
       AfterCertificates, AfterTransmission, Ended
  <2>2. QED
    BY <2>1, ConfigureIInv, SelectRoutingIInv, SpineRouteLookupIInv,
       SdsApiClientIInv, CreateCertificatesIInv, CreateTransmissionIInv,
       CreateStoresIInv, InitialiseWorkflowsIInv, StartTornadoServerIInv,
       ServeEndsIInv, MainHandlerIInv DEF Next
<1>3. QED
  BY <1>1, <1>2, PTL DEF Spec

\* Every variable keeps its Python type: in particular every numeric
\* setting reaches the route lookup and the transmission as an integer,
\* whatever text it holds, because a text int() rejects ends main().
THEOREM TypeCorrect == Spec => []TypeOK
<1>1. IInv => TypeOK
  BY DEF IInv
<1>2. QED
  BY <1>1, IInvHolds, PTL

\* Whatever ended main() (a setting, a failed write, load or bind, or the
\* end of the IO loop), the exited process has closed the loop, released
\* the port, and written the fatal and the shut-down logs exactly for the
\* cause: start_tornado_server's try/except/finally and the __main__
\* handler together account for every exit.
THEOREM ShutdownAccountedHolds == Spec => []ShutdownAccounted
<1>1. IInv => ShutdownAccounted
  BY DEF IInv, ShutdownAccounted, Ended, Exceptions
<1>2. QED
  BY <1>1, IInvHolds, PTL

\* The server starts listening only after main() has bound the route
\* lookup, the certificate files and the transmission: no failed
\* statement lets startup carry on with a missing object.
THEOREM ServesOnlyWhenBuiltHolds == Spec => ServesOnlyWhenBuilt
<1>1. IInv /\ [Next]_vars => [~listening /\ listening' =>
                                /\ routing # None
                                /\ certificates # None
                                /\ transmission # None]_vars
  <2> SUFFICES ASSUME IInv, [Next]_vars, ~listening, listening'
               PROVE  routing # None /\ certificates # None
                      /\ transmission # None
    BY DEF vars
  <2>1. pc = "server"
    <3>1. ~(UNCHANGED vars)
      BY DEF vars
    <3>2. QED
      BY <3>1 DEF Next, Configure, SelectRouting, InitialiseSpineRouteLookup,
         InitialiseSdsApiClient, CreateCertificates, CreateTransmission,
         CreateStores, InitialiseWorkflows, StartTornadoServer, ServeEnds,
         MainHandler
  <2>2. QED
    BY <2>1 DEF IInv, AfterRouting, AfterCertificates, AfterTransmission
<1>2. QED
  BY <1>1, IInvHolds, PTL DEF Spec, ServesOnlyWhenBuilt

=============================================================================
