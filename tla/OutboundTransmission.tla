------------------------- MODULE OutboundTransmission -------------------------
(***************************************************************************)
(* One call of OutboundTransmission.make_request (outbound_transmission.py)*)
(* sending a message to a remote MHS.  The call runs the RetriableAction   *)
(* executor around make_http_request, which awaits CommonHttps.make_request*)
(* (common_https.py), i.e. one AsyncHTTPClient.fetch.                      *)
(*                                                                         *)
(* Data is abstracted to what the retry decisions tell apart: what         *)
(* happened on the wire (a response with a status code, a refused          *)
(* connection, a timeout, a failed TLS handshake, a connection reset or    *)
(* closed after the POST was sent) and what the code saw                   *)
(* of it (a Response or an exception of some class with a code).  Headers, *)
(* body, URL, certificates and logging are left out.                       *)
(*                                                                         *)
(* The retry executor (package retry) is not part of the sources; it is    *)
(* modelled from its contract (section 4.1 of the specification).          *)
(***************************************************************************)
EXTENDS Integers, Sequences, SequencesExt

CONSTANTS
  MaxRetries,   \* max_retries: OUTBOUND_TRANSMISSION_MAX_RETRIES (main.py)
  Codes,        \* the status codes the remote MHS may answer with
  HttpClient    \* the AsyncHTTPClient implementation configured at startup

ASSUME MaxRetriesAssumption == MaxRetries \in Nat \ {0}
ASSUME CodesAssumption == Codes \subseteq 100..598
ASSUME HttpClientAssumption == HttpClient \in {"curl", "simple"}

VARIABLES
  pc,           \* where the call is: "fetch", "sleep" or "done"
  attempt,      \* attempt_number of the retry executor
  retryResult,  \* the RetriableActionResult of the latest attempt
  history,      \* history: <<[wire, seen]>> per attempt, in order
  raiseError,   \* the raise_error_response argument of make_request
  reply         \* what make_request returned or raised; NoReply before

vars == <<pc, attempt, retryResult, history, raiseError, reply>>

-----------------------------------------------------------------------------
(* Values.  A value the code sees is a record [type, code]: a Response    *)
(* with its status code, or an exception of a class with its code (0 for *)
(* exception classes that carry none).                                    *)

NoCode == 0
Nothing == [type |-> "None", code |-> NoCode]
NoReply == [type |-> "Pending", code |-> NoCode]
Response(c) == [type |-> "Response", code |-> c]
Raised(t, c) == [type |-> t, code |-> c]

\* tornado's code for "no HTTP response at all" (HTTPClientError.code)
TornadoNetworkErrorCode == 599

\* What can happen to one request on the wire.
Wire == [kind : {"http"}, code : Codes]
          \cup [kind : {"connFail", "timeout", "tlsFail", "reset"}, code : {NoCode}]

Seen == {Response(c) : c \in Codes \cup {TornadoNetworkErrorCode}}
          \cup {Raised("HTTPClientError", c) : c \in Codes \cup {TornadoNetworkErrorCode}}
          \cup {Raised(t, NoCode) : t \in {"SSLError", "OSError"}}

ResultRec == [is_successful : BOOLEAN, result : Seen \cup {Nothing},
              exception : Seen \cup {Nothing}]

Replies == Seen \cup {Raised("OutboundTransmissionError", NoCode), NoReply}

-----------------------------------------------------------------------------
(* CommonHttps.make_request: the outcomes the awaited fetch can produce   *)
(* for what happened on the wire.  A status outside 2xx is raised as      *)
(* HTTPClientError when raise_error is set.  A failure without a response *)
(* is CurlError (an HTTPClientError with code 599) under the curl client; *)
(* the simple client raises HTTPTimeoutError (code 599) on a timeout,     *)
(* HTTPStreamClosedError (code 599) when the connection is reset or       *)
(* closed before the answer, and the underlying SSLError or OSError when  *)
(* the handshake or the connection fails.  With raise_error unset         *)
(* tornado before 6.0 returns a Response with code 599 instead, later     *)
(* versions still raise: the version is not pinned, so both are possible. *)
IsOkStatus(c) == c \in 200..299

NoResponseError(w) ==
  CASE HttpClient = "curl" \/ w.kind \in {"timeout", "reset"} ->
         Raised("HTTPClientError", TornadoNetworkErrorCode)
    [] w.kind = "tlsFail"  -> Raised("SSLError", NoCode)
    [] w.kind = "connFail" -> Raised("OSError", NoCode)

Fetched(w, raise) ==
  IF w.kind = "http"
  THEN IF IsOkStatus(w.code) \/ ~raise
       THEN {Response(w.code)}
       ELSE {Raised("HTTPClientError", w.code)}
  ELSE {NoResponseError(w)}
         \cup (IF raise THEN {} ELSE {Response(TornadoNetworkErrorCode)})

(* OutboundTransmission._is_tornado_network_error / _is_exception_retriable*)
ErrorsNotToRetry == {"HTTPClientError", "SSLError"}

IsTornadoNetworkError(e) ==
  e.type = "HTTPClientError" /\ e.code = TornadoNetworkErrorCode

\* Faulty variants: the errors_not_to_retry test dropped, and the 599
\* override of _is_tornado_network_error dropped.
IsExceptionRetriableNoExclusions(e) == TRUE
IsExceptionRetriableNoOverride(e) == e.type \notin ErrorsNotToRetry

IsExceptionRetriable(e) ==
  e.type \notin ErrorsNotToRetry \/ IsTornadoNetworkError(e)

(* The success check make_request installs: lambda r: r.code != 599       *)
\* Faulty variant: no success check installed (the default accepts all).
SuccessCheckAlways(r) == TRUE

SuccessCheck(r) == r.code # TornadoNetworkErrorCode

(* RetriableAction: the result of one attempt that saw s.                 *)
AttemptResult(s) ==
  IF s.type = "Response"
  THEN [is_successful |-> SuccessCheck(s), result |-> s, exception |-> Nothing]
  ELSE [is_successful |-> FALSE, result |-> Nothing, exception |-> s]

(* RetriableAction: the attempt with result r ends the execution.         *)
StopsAfter(r) ==
  \/ r.is_successful
  \/ r.exception # Nothing /\ ~IsExceptionRetriable(r.exception)
  \/ attempt >= MaxRetries

(* make_request after the executor returned r: the response, or the      *)
(* exception raised to the caller.                                        *)
\* Faulty variant: the "if exception_raised: raise" branch dropped.
MakeRequestOutcomeNoReraise(r) ==
  IF r.is_successful THEN r.result
  ELSE Raised("OutboundTransmissionError", NoCode)

\* Faulty variant: "return retry_result" instead of retry_result.result.
MakeRequestOutcomeWholeResult(r) ==
  CASE r.is_successful         -> r
    [] r.exception # Nothing   -> r.exception
    [] OTHER                   -> Raised("OutboundTransmissionError", NoCode)

MakeRequestOutcome(r) ==
  CASE r.is_successful         -> r.result
    [] r.exception # Nothing   -> r.exception
    [] OTHER                   -> Raised("OutboundTransmissionError", NoCode)

-----------------------------------------------------------------------------
Init ==
  /\ pc = "fetch"
  /\ attempt = 1
  /\ retryResult = [is_successful |-> FALSE, result |-> Nothing,
                    exception |-> Nothing]
  /\ history = <<>>
  /\ raiseError \in BOOLEAN
  /\ reply = NoReply

(* One attempt: the awaited fetch completes with w on the wire, seen by   *)
(* the code as s; the executor classifies the result and either returns   *)
(* it (and make_request raises or returns) or sleeps before the next one. *)
AttemptCompletes(w, s) ==
  LET r == AttemptResult(s) IN
  /\ history' = Append(history, [wire |-> w, seen |-> s])
  /\ retryResult' = r
  /\ \/ /\ StopsAfter(r)
        /\ pc' = "done"
        /\ reply' = MakeRequestOutcome(r)
        /\ UNCHANGED attempt
     \/ /\ ~StopsAfter(r)
        /\ pc' = "sleep"
        /\ attempt' = attempt + 1
        /\ UNCHANGED reply
  /\ UNCHANGED raiseError

Attempt ==
  /\ pc = "fetch"
  /\ \E w \in Wire : \E s \in Fetched(w, raiseError) : AttemptCompletes(w, s)

(* The awaited asyncio.sleep(retry_delay / 1000) ends.                    *)
Sleep ==
  /\ pc = "sleep"
  /\ pc' = "fetch"
  /\ UNCHANGED <<attempt, retryResult, history, raiseError, reply>>

Next == Attempt \/ Sleep

Spec == Init /\ [][Next]_vars

-----------------------------------------------------------------------------
(* Refinement mapping onto DeliveryContract: the requests sent are the     *)
(* wire column of history, and the outcome class is read off the reply.   *)
OutcomeClass(r) ==
  CASE r = NoReply -> "pending"
    [] r.type = "Response" /\ r.code # TornadoNetworkErrorCode -> "delivered"
    [] r.type = "HTTPClientError" /\ r.code # TornadoNetworkErrorCode -> "rejected"
    [] OTHER -> "failed"

Contract == INSTANCE DeliveryContract
              WITH sent <- [i \in 1..Len(history) |-> history[i].wire],
                   outcome <- OutcomeClass(reply)

\* make_request keeps the promise of DeliveryContract: every attempt it
\* makes and the class of what it returns or raises are allowed there.
ContractSpec == Contract!Spec

-----------------------------------------------------------------------------
(* Properties.  They are stated from the contract of section 4.3 in terms *)
(* of what happened on the wire, not from the classification operators.   *)

\* Every variable ranges over its type.
TypeOK ==
  /\ pc \in {"fetch", "sleep", "done"}
  /\ attempt \in 1..MaxRetries
  /\ retryResult \in ResultRec
  /\ history \in Seq([wire : Wire, seen : Seen])
  /\ raiseError \in BOOLEAN
  /\ reply \in Replies

\* The call retries only when the peer gave no HTTP response: after an
\* attempt that reached the remote MHS and got a status back (any status,
\* under either raise_error_response) make_request never sends again.
NoRetryAfterPeerResponse ==
  \A i \in 1..Len(history) - 1 : history[i].wire.kind # "http"

\* A transient failure (refused connection, timeout, connection reset or
\* closed before the answer) reaches the caller
\* only after the whole retry budget was spent: make_request never gives
\* up on a network error while attempts remain (the 599 override of
\* _is_exception_retriable).
TransientFailureOnlyAfterBudget ==
  (pc = "done" /\ Last(history).wire.kind \in {"connFail", "timeout", "reset"})
    => Len(history) = MaxRetries

\* What make_request hands back is decided by the last attempt alone: it
\* returns that attempt's response only if it is a real one (not 599, and
\* 2xx when raise_error_response is set), raises that attempt's exception,
\* and raises OutboundTransmissionError exactly when the last attempt
\* produced the 599 pseudo-response.
OutcomeReflectsLastAttempt ==
  pc = "done" =>
    LET last == Last(history).seen IN
    /\ reply.type = "Response" =>
         /\ reply = last
         /\ reply.code # TornadoNetworkErrorCode
         /\ raiseError => IsOkStatus(reply.code)
    /\ (reply.type = "OutboundTransmissionError"
          <=> last = Response(TornadoNetworkErrorCode))
    /\ reply.type \notin {"Response", "OutboundTransmissionError"}
         => reply = last

\* The contract of section 4.3 and 7: only network-level failures are
\* retried; a TLS/certificate failure, like an HTTP error response, is
\* surfaced at once.
OnlyTransientFailuresRetried ==
  \A i \in 1..Len(history) - 1 :
    history[i].wire.kind \in {"connFail", "timeout", "reset"}

=============================================================================
