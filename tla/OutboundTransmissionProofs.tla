--------------------- MODULE OutboundTransmissionProofs ---------------------
(***************************************************************************)
(* Proofs about one make_request call (module OutboundTransmission), for   *)
(* every retry budget, every set of status codes and either HTTP client.   *)
(***************************************************************************)
EXTENDS OutboundTransmission, SequenceTheorems, TLAPS

-----------------------------------------------------------------------------
(* Lemmas about the operators the model is built from.                    *)

\* Whatever happens on the wire, the fetch yields a value of Seen.
LEMMA FetchedType ==
  ASSUME NEW w \in Wire, NEW raise \in BOOLEAN
  PROVE  Fetched(w, raise) \subseteq Seen
BY HttpClientAssumption
   DEF Fetched, NoResponseError, Wire, Seen, Response, Raised

\* The executor's result for a seen value is a RetriableActionResult.
LEMMA AttemptResultType ==
  ASSUME NEW s \in Seen
  PROVE  AttemptResult(s) \in ResultRec
BY DEF AttemptResult, SuccessCheck, ResultRec, Nothing

\* make_request turns an attempt's result into a reply.
LEMMA OutcomeType ==
  ASSUME NEW s \in Seen
  PROVE  MakeRequestOutcome(AttemptResult(s)) \in Replies
BY DEF MakeRequestOutcome, AttemptResult, SuccessCheck, Replies, Seen,
       Nothing, Raised, Response

-----------------------------------------------------------------------------
(* The inductive invariant.  The properties speak of the last attempt     *)
(* only; to carry them from step to step the invariant also records that *)
(* every attempt saw what the fetch can yield for its wire event, that    *)
(* every attempt but a final one was one the executor retries, that the   *)
(* attempt counter counts the attempts, that there is no reply before the *)
(* call finishes, and how the reply of a finished call was computed from  *)
(* the last attempt.                                                      *)

\* The executor goes on after an attempt that saw s (budget aside).
Continues(s) ==
  /\ ~AttemptResult(s).is_successful
  /\ s.type # "Response" => IsExceptionRetriable(s)

IInv ==
  /\ TypeOK
  /\ Len(history) = IF pc = "done" THEN attempt ELSE attempt - 1
  /\ \A i \in 1..Len(history) :
       history[i].seen \in Fetched(history[i].wire, raiseError)
  /\ \A i \in 1..Len(history) :
       (pc # "done" \/ i < Len(history)) => Continues(history[i].seen)
  /\ pc # "done" => reply = NoReply
  /\ pc = "done" =>
       /\ retryResult = AttemptResult(Last(history).seen)
       /\ StopsAfter(retryResult)
       /\ reply = MakeRequestOutcome(retryResult)

-----------------------------------------------------------------------------
(* Type correctness.                                                      *)

\* A step of make_request keeps every variable in its type.
LEMMA TypeStep == TypeOK /\ [Next]_vars => TypeOK'
<1> SUFFICES ASSUME TypeOK, [Next]_vars PROVE TypeOK'
  OBVIOUS
<1>1. CASE Attempt
  <2>1. PICK w \in Wire : \E s \in Fetched(w, raiseError) : AttemptCompletes(w, s)
    BY <1>1 DEF Attempt
  <2>2. PICK s \in Fetched(w, raiseError) : AttemptCompletes(w, s)
    BY <2>1
  <2>3. s \in Seen
    BY FetchedType DEF TypeOK
  <2>4. history' \in Seq([wire : Wire, seen : Seen])
    BY <2>2, <2>3 DEF TypeOK, AttemptCompletes
  <2>5. retryResult' \in ResultRec
    BY <2>2, <2>3, AttemptResultType DEF AttemptCompletes
  <2>6. reply' \in Replies
    BY <2>2, <2>3, OutcomeType DEF TypeOK, AttemptCompletes
  <2>7. attempt' \in 1..MaxRetries
    <3>1. CASE StopsAfter(AttemptResult(s))
      BY <2>2, <3>1 DEF TypeOK, AttemptCompletes
    <3>2. CASE ~StopsAfter(AttemptResult(s))
      <4>1. attempt < MaxRetries
        BY <3>2, MaxRetriesAssumption DEF TypeOK, StopsAfter
      <4>2. QED
        BY <2>2, <3>2, <4>1, MaxRetriesAssumption DEF TypeOK, AttemptCompletes
    <3>3. QED
      BY <3>1, <3>2
  <2>8. QED
    BY <1>1, <2>2, <2>4, <2>5, <2>6, <2>7 DEF Attempt, AttemptCompletes, TypeOK
<1>2. CASE Sleep
  BY <1>2 DEF Sleep, TypeOK
<1>3. CASE UNCHANGED vars
  BY <1>3 DEF vars, TypeOK
<1>4. QED
  BY <1>1, <1>2, <1>3 DEF Next

\* TypeOK holds in every state of every behaviour of make_request.
THEOREM TypeCorrect == Spec => []TypeOK
<1>1. Init => TypeOK
  BY MaxRetriesAssumption
     DEF Init, TypeOK, ResultRec, Nothing, Replies, NoReply
<1>2. QED
  BY <1>1, TypeStep, PTL DEF Spec

-----------------------------------------------------------------------------
(* The inductive invariant holds.                                         *)

\* IInv holds initially and is kept by every step of make_request.
THEOREM IInvHolds == Spec => []IInv
<1>1. Init => IInv
  BY MaxRetriesAssumption
     DEF Init, IInv, TypeOK, ResultRec, Nothing, Replies, NoReply
<1>2. IInv /\ [Next]_vars => IInv'
  <2> SUFFICES ASSUME IInv, [Next]_vars PROVE IInv'
    OBVIOUS
  <2>1. TypeOK'
    BY TypeStep DEF IInv
  <2>2. CASE Attempt
    <3>1. PICK w \in Wire : \E s \in Fetched(w, raiseError) : AttemptCompletes(w, s)
      BY <2>2 DEF Attempt
    <3>2. PICK s \in Fetched(w, raiseError) : AttemptCompletes(w, s)
      BY <3>1
    <3> DEFINE e == [wire |-> w, seen |-> s]
               r == AttemptResult(s)
    <3>3. /\ pc = "fetch"
          /\ history \in Seq([wire : Wire, seen : Seen])
          /\ Len(history) = attempt - 1
          /\ history' = Append(history, e)
          /\ Len(history') = Len(history) + 1
          /\ \A i \in 1..Len(history) : history'[i] = history[i]
          /\ history'[Len(history')] = e
          /\ retryResult' = r
          /\ raiseError' = raiseError
      BY <2>2, <3>2 DEF Attempt, AttemptCompletes, IInv, TypeOK
    <3>0. s \in Seen
      BY FetchedType DEF IInv, TypeOK
    <3>4. (\A i \in 1..Len(history) :
             history[i].seen \in Fetched(history[i].wire, raiseError))'

      BY <3>2, <3>3 DEF IInv
    <3>5. CASE StopsAfter(r)
      <4>1. /\ pc' = "done" /\ attempt' = attempt
            /\ reply' = MakeRequestOutcome(r)
        BY <3>2, <3>5 DEF AttemptCompletes
      <4>2. Len(history') = attempt'
        BY <3>3, <4>1 DEF IInv, TypeOK
      <4>3. (\A i \in 1..Len(history) :
               (pc # "done" \/ i < Len(history)) => Continues(history[i].seen))'

        BY <3>3, <4>1 DEF IInv
      <4>4. retryResult' = AttemptResult(Last(history').seen)
        BY <3>3 DEF Last
      <4>5. StopsAfter(retryResult)'
        BY <3>3, <3>5, <4>1 DEF StopsAfter
      <4>6. QED
        BY <2>1, <3>3, <3>4, <4>1, <4>2, <4>3, <4>4, <4>5 DEF IInv
    <3>6. CASE ~StopsAfter(r)
      <4>1. /\ pc' = "sleep" /\ attempt' = attempt + 1
            /\ reply' = reply /\ reply = NoReply
        BY <3>2, <3>3, <3>6 DEF AttemptCompletes, IInv
      <4>2. Len(history') = attempt' - 1
        BY <3>3, <4>1 DEF IInv, TypeOK
      <4>3. Continues(s)
        BY <3>0, <3>6 DEF StopsAfter, Continues, AttemptResult, Nothing, Seen,
                          Response, Raised
      <4>4. (\A i \in 1..Len(history) :
               (pc # "done" \/ i < Len(history)) => Continues(history[i].seen))'

        BY <3>3, <4>3 DEF IInv
      <4>5. QED
        BY <2>1, <3>4, <4>1, <4>2, <4>4 DEF IInv
    <3>7. QED
      BY <3>5, <3>6
  <2>3. CASE Sleep
    BY <2>1, <2>3 DEF Sleep, IInv
  <2>4. CASE UNCHANGED vars
    BY <2>1, <2>4 DEF vars, IInv, StopsAfter
  <2>5. QED
    BY <2>2, <2>3, <2>4 DEF Next
<1>3. QED
  BY <1>1, <1>2, PTL DEF Spec

-----------------------------------------------------------------------------
(* Lemmas on the classification of one attempt.                          *)

\* An attempt that got an HTTP status back is never one the executor
\* retries: a 2xx (or any status with raise_error unset) passes the
\* success check, any other status is an HTTPClientError that is not 599.
LEMMA PeerResponseStops ==
  ASSUME NEW w \in Wire, w.kind = "http", NEW raise \in BOOLEAN,
         NEW s \in Fetched(w, raise)
  PROVE  ~Continues(s)
<1>1. w.code \in Codes /\ w.code # TornadoNetworkErrorCode
  BY CodesAssumption DEF Wire, TornadoNetworkErrorCode
<1>2. CASE IsOkStatus(w.code) \/ ~raise
  <2>1. s = Response(w.code)
    BY <1>2 DEF Fetched
  <2>2. AttemptResult(s).is_successful
    BY <1>1, <2>1 DEF AttemptResult, SuccessCheck, Response
  <2>3. QED
    BY <2>2 DEF Continues
<1>3. CASE ~(IsOkStatus(w.code) \/ ~raise)
  <2>1. s = Raised("HTTPClientError", w.code)
    BY <1>3 DEF Fetched
  <2>2. s.type # "Response" /\ ~IsExceptionRetriable(s)
    BY <1>1, <2>1 DEF Raised, IsExceptionRetriable, IsTornadoNetworkError,
       ErrorsNotToRetry
  <2>3. QED
    BY <2>2 DEF Continues
<1>4. QED
  BY <1>2, <1>3

\* A refused connection, a timeout or a reset connection is always seen as something the
\* executor retries: an exception that _is_exception_retriable accepts,
\* or the 599 pseudo-response that fails the success check.
LEMMA TransientFailureContinues ==
  ASSUME NEW w \in Wire, w.kind \in {"connFail", "timeout", "reset"},
         NEW raise \in BOOLEAN, NEW s \in Fetched(w, raise)
  PROVE  Continues(s)
<1>1. s = NoResponseError(w) \/ s = Response(TornadoNetworkErrorCode)
  BY DEF Fetched
<1>2. CASE s = NoResponseError(w)
  <2>1. s = Raised("HTTPClientError", TornadoNetworkErrorCode)
          \/ s = Raised("OSError", NoCode)
    BY <1>2, HttpClientAssumption DEF NoResponseError
  <2>2. QED
    BY <2>1 DEF Continues, AttemptResult, IsExceptionRetriable,
       IsTornadoNetworkError, ErrorsNotToRetry, Raised
<1>3. CASE s = Response(TornadoNetworkErrorCode)
  BY <1>3 DEF Continues, AttemptResult, SuccessCheck, Response
<1>4. QED
  BY <1>1, <1>2, <1>3

\* What IInv says of the last attempt of a finished call.
LEMMA LastAttempt ==
  ASSUME IInv, pc = "done"
  PROVE  /\ Len(history) = attempt
         /\ Last(history) \in [wire : Wire, seen : Seen]
         /\ Last(history).seen \in Fetched(Last(history).wire, raiseError)
         /\ retryResult = AttemptResult(Last(history).seen)
         /\ StopsAfter(retryResult)
         /\ reply = MakeRequestOutcome(retryResult)
<1>1. Len(history) = attempt /\ attempt \in 1..MaxRetries
  BY DEF IInv, TypeOK
<1>2. Len(history) \in 1..Len(history) /\ Last(history) = history[Len(history)]
  BY <1>1 DEF Last
<1>3. Last(history) \in [wire : Wire, seen : Seen]
  <2>1. history \in Seq([wire : Wire, seen : Seen])
    BY DEF IInv, TypeOK
  <2>2. history[Len(history)] \in [wire : Wire, seen : Seen]
    BY <1>2, <2>1, ElementOfSeq
  <2>3. QED
    BY <1>2, <2>2
<1>4. Last(history).seen \in Fetched(Last(history).wire, raiseError)
  BY <1>2 DEF IInv
<1>5. QED
  BY <1>1, <1>3, <1>4 DEF IInv

-----------------------------------------------------------------------------
(* The safety properties, for every retry budget and either client.       *)

\* After an attempt that got an HTTP status back make_request never sends
\* again: such an attempt ends the executor.
THEOREM NoRetryAfterPeerResponseHolds == Spec => []NoRetryAfterPeerResponse
<1>1. IInv => NoRetryAfterPeerResponse
  <2> SUFFICES ASSUME IInv, NEW i \in 1..Len(history) - 1,
                      history[i].wire.kind = "http"
               PROVE  FALSE
    BY DEF NoRetryAfterPeerResponse
  <2>1. i \in 1..Len(history) /\ i < Len(history)
    BY DEF IInv, TypeOK
  <2>2. history[i] \in [wire : Wire, seen : Seen] /\ raiseError \in BOOLEAN
    BY <2>1, ElementOfSeq DEF IInv, TypeOK
  <2>3. history[i].seen \in Fetched(history[i].wire, raiseError)
    BY <2>1 DEF IInv
  <2>4. Continues(history[i].seen)
    BY <2>1 DEF IInv
  <2>5. QED
    BY <2>2, <2>3, <2>4, PeerResponseStops
<1>2. QED
  BY <1>1, IInvHolds, PTL

\* make_request gives up on a refused connection, a timeout or a reset
\* connection only once it has made MaxRetries attempts.
THEOREM TransientFailureOnlyAfterBudgetHolds ==
  Spec => []TransientFailureOnlyAfterBudget
<1>1. IInv => TransientFailureOnlyAfterBudget
  <2> SUFFICES ASSUME IInv, pc = "done",
                      Last(history).wire.kind \in {"connFail", "timeout", "reset"}
               PROVE  Len(history) = MaxRetries
    BY DEF TransientFailureOnlyAfterBudget
  <2>1. raiseError \in BOOLEAN /\ attempt \in 1..MaxRetries
    BY DEF IInv, TypeOK
  <2>2. Continues(Last(history).seen)
    BY <2>1, LastAttempt, TransientFailureContinues
  <2>3. ~retryResult.is_successful
        /\ ~(retryResult.exception # Nothing
               /\ ~IsExceptionRetriable(retryResult.exception))
    BY <2>2, LastAttempt DEF Continues, AttemptResult, Nothing
  <2>4. attempt >= MaxRetries
    BY <2>3, LastAttempt DEF StopsAfter
  <2>5. QED
    BY <2>1, <2>4, LastAttempt, MaxRetriesAssumption
<1>2. QED
  BY <1>1, IInvHolds, PTL

\* The reply of a finished call is computed from its last attempt alone.
THEOREM OutcomeReflectsLastAttemptHolds == Spec => []OutcomeReflectsLastAttempt
<1>1. IInv => OutcomeReflectsLastAttempt
  <2> SUFFICES ASSUME IInv, pc = "done"
               PROVE  OutcomeReflectsLastAttempt
    BY DEF OutcomeReflectsLastAttempt
  <2> DEFINE last == Last(history)
             w == last.wire
             sn == last.seen
  <2>1. /\ w \in Wire /\ sn \in Seen
        /\ sn \in Fetched(w, raiseError)
        /\ raiseError \in BOOLEAN
        /\ reply = MakeRequestOutcome(AttemptResult(sn))
    BY LastAttempt DEF IInv, TypeOK
  <2>2. raiseError /\ sn.type = "Response" => IsOkStatus(sn.code)
    <3>1. CASE w.kind = "http"
      BY <2>1, <3>1 DEF Fetched, Response, Raised
    <3>2. CASE w.kind # "http"
      <4>1. w.kind \in {"connFail", "timeout", "tlsFail", "reset"}
        BY <2>1, <3>2 DEF Wire
      <4>2. NoResponseError(w).type # "Response"
        BY <4>1, HttpClientAssumption DEF NoResponseError, Raised
      <4>3. raiseError => sn = NoResponseError(w)
        BY <2>1, <3>2 DEF Fetched
      <4>4. QED
        BY <4>2, <4>3
    <3>3. QED
      BY <3>1, <3>2
  <2>3. sn.type = "Response" => sn.code \in Codes \cup {TornadoNetworkErrorCode}
    BY <2>1 DEF Seen, Response, Raised
  <2>4. reply.type = "Response" =>
          /\ reply = sn
          /\ reply.code # TornadoNetworkErrorCode
          /\ raiseError => IsOkStatus(reply.code)
    BY <2>1, <2>2 DEF MakeRequestOutcome, AttemptResult, SuccessCheck, Seen,
       Response, Raised, Nothing
  <2>5. reply.type = "OutboundTransmissionError"
          <=> sn = Response(TornadoNetworkErrorCode)
    <3>1. CASE sn.type = "Response"
      <4>1. sn = Response(sn.code)
        BY <2>1, <3>1 DEF Seen, Response, Raised
      <4>2. CASE sn.code = TornadoNetworkErrorCode
        BY <2>1, <3>1, <4>1, <4>2 DEF MakeRequestOutcome, AttemptResult,
           SuccessCheck, Raised, Nothing
      <4>3. CASE sn.code # TornadoNetworkErrorCode
        <5>1. reply = sn
          BY <2>1, <3>1, <4>3 DEF MakeRequestOutcome, AttemptResult,
             SuccessCheck
        <5>2. sn # Response(TornadoNetworkErrorCode)
          BY <4>3 DEF Response
        <5>3. QED
          BY <3>1, <5>1, <5>2
      <4>4. QED
        BY <4>2, <4>3
    <3>2. CASE sn.type # "Response"
      <4>1. sn.type \in {"HTTPClientError", "SSLError", "OSError"}
        BY <2>1, <3>2 DEF Seen, Response, Raised
      <4>2. reply = sn
        BY <2>1, <4>1 DEF MakeRequestOutcome, AttemptResult, Nothing
      <4>3. QED
        BY <4>1, <4>2 DEF Response
    <3>3. QED
      BY <3>1, <3>2
  <2>6. reply.type \notin {"Response", "OutboundTransmissionError"}
          => reply = sn
    BY <2>1 DEF MakeRequestOutcome, AttemptResult, SuccessCheck, Seen,
       Response, Raised, Nothing
  <2>7. QED
    BY <2>4, <2>5, <2>6 DEF OutcomeReflectsLastAttempt
<1>2. QED
  BY <1>1, IInvHolds, PTL


-----------------------------------------------------------------------------
(* Refinement: make_request implements DeliveryContract.                   *)

\* Whatever a single attempt saw, the reply make_request derives from it
\* has an outcome class the contract allows for that attempt's wire event.
LEMMA OutcomeSettles ==
  ASSUME NEW w \in Wire, NEW raise \in BOOLEAN, NEW s \in Fetched(w, raise)
  PROVE  OutcomeClass(MakeRequestOutcome(AttemptResult(s))) \in Contract!Settles(w)
<1>1. CASE w.kind = "http"
  <2>1. w.code \in Codes /\ w.code # TornadoNetworkErrorCode
    BY <1>1, CodesAssumption DEF Wire, TornadoNetworkErrorCode
  <2>2. CASE IsOkStatus(w.code) \/ ~raise
    <3>1. s = Response(w.code)
      BY <1>1, <2>2 DEF Fetched
    <3>2. MakeRequestOutcome(AttemptResult(s)) = Response(w.code)
      BY <2>1, <3>1 DEF MakeRequestOutcome, AttemptResult, SuccessCheck, Response
    <3>3. OutcomeClass(Response(w.code)) = "delivered"
      BY <2>1 DEF OutcomeClass, Response, NoReply
    <3>4. QED
      BY <1>1, <3>2, <3>3 DEF Contract!Settles, Contract!GotResponse
  <2>3. CASE ~(IsOkStatus(w.code) \/ ~raise)
    <3>1. s = Raised("HTTPClientError", w.code)
      BY <1>1, <2>3 DEF Fetched
    <3>2. MakeRequestOutcome(AttemptResult(s)) = s
      BY <3>1 DEF MakeRequestOutcome, AttemptResult, Raised, Nothing
    <3>3. OutcomeClass(s) = "rejected"
      BY <2>1, <3>1 DEF OutcomeClass, Raised, NoReply
    <3>4. QED
      BY <1>1, <2>3, <3>2, <3>3 DEF Contract!Settles, Contract!GotResponse,
         IsOkStatus
  <2>4. QED
    BY <2>2, <2>3
<1>2. CASE w.kind # "http"
  <2>1. Contract!Settles(w) = {"failed"}
    BY <1>2 DEF Contract!Settles, Contract!GotResponse
  <2>2. CASE s = Response(TornadoNetworkErrorCode)
    <3>1. MakeRequestOutcome(AttemptResult(s)) = Raised("OutboundTransmissionError", NoCode)
      BY <2>2 DEF MakeRequestOutcome, AttemptResult, SuccessCheck, Response, Nothing
    <3>2. QED
      BY <2>1, <3>1 DEF OutcomeClass, Raised, NoReply
  <2>3. CASE s # Response(TornadoNetworkErrorCode)
    <3>1. s = NoResponseError(w)
      BY <1>2, <2>3 DEF Fetched
    <3>2. s \in {Raised("HTTPClientError", TornadoNetworkErrorCode),
                 Raised("SSLError", NoCode), Raised("OSError", NoCode)}
      BY <1>2, <3>1, HttpClientAssumption DEF NoResponseError, Wire
    <3>3. MakeRequestOutcome(AttemptResult(s)) = s
      BY <3>2 DEF MakeRequestOutcome, AttemptResult, Raised, Nothing
    <3>4. OutcomeClass(s) = "failed"
      BY <3>2 DEF OutcomeClass, Raised, NoReply
    <3>5. QED
      BY <2>1, <3>3, <3>4
  <2>4. QED
    BY <2>2, <2>3
<1>3. QED
  BY <1>1, <1>2


\* Each attempt of make_request is a Send of DeliveryContract and a sleep
\* between attempts changes nothing the contract sees, so every behaviour
\* of make_request, mapped to its wire history and outcome class, is a
\* behaviour of DeliveryContract.
THEOREM ImplementsDeliveryContract == Spec => ContractSpec
<1> DEFINE sentMap == [i \in 1..Len(history) |-> history[i].wire]
<1>1. Init => Contract!Init
  BY DEF Init, Contract!Init, OutcomeClass, NoReply
<1>2. IInv /\ [Next]_vars => [Contract!Next]_Contract!cvars
  <2> SUFFICES ASSUME IInv, [Next]_vars PROVE [Contract!Next]_Contract!cvars
    OBVIOUS
  <2>1. CASE Attempt
    <3>1. PICK w \in Wire : \E s \in Fetched(w, raiseError) : AttemptCompletes(w, s)
      BY <2>1 DEF Attempt
    <3>2. PICK s \in Fetched(w, raiseError) : AttemptCompletes(w, s)
      BY <3>1
    <3> DEFINE r == AttemptResult(s)
    <3>3. /\ pc = "fetch" /\ reply = NoReply
          /\ raiseError \in BOOLEAN
          /\ attempt \in 1..MaxRetries
          /\ Len(history) = attempt - 1
          /\ history \in Seq([wire : Wire, seen : Seen])
          /\ history' = Append(history, [wire |-> w, seen |-> s])
      BY <2>1, <3>2 DEF Attempt, AttemptCompletes, IInv, TypeOK
    <3>0. s \in Seen
      BY <3>3, FetchedType
    <3>4. sentMap' = Append(sentMap, w)
      BY <3>3
    <3>5. Len(sentMap) < MaxRetries /\ Len(sentMap') = attempt
      BY <3>3, <3>4, MaxRetriesAssumption
    <3>6. OutcomeClass(reply) = "pending"
      BY <3>3 DEF OutcomeClass, NoReply
    <3>7. CASE ~StopsAfter(r)
      <4>1. reply' = NoReply /\ attempt < MaxRetries
        <5>1. reply' = reply
          BY <3>2, <3>7 DEF AttemptCompletes
        <5>2. attempt < MaxRetries
          BY <3>3, <3>7, MaxRetriesAssumption DEF StopsAfter
        <5>3. QED
          BY <3>3, <5>1, <5>2
      <4>2. Continues(s)
        BY <3>0, <3>7 DEF StopsAfter, Continues, AttemptResult, Nothing, Seen,
                          Response, Raised
      <4>3. ~Contract!GotResponse(w)
        BY <3>3, <4>2, PeerResponseStops DEF Contract!GotResponse
      <4>4. OutcomeClass(reply') = "pending"
        BY <4>1 DEF OutcomeClass, NoReply
      <4>5. Contract!Send(w)
        BY <3>4, <3>5, <3>6, <4>1, <4>3, <4>4 DEF Contract!Send,
           Contract!GotResponse
      <4>6. QED
        BY <4>5 DEF Contract!Next, Contract!Wire, Wire, Contract!NoCode, NoCode
    <3>8. CASE StopsAfter(r)
      <4>1. reply' = MakeRequestOutcome(r)
        BY <3>2, <3>8 DEF AttemptCompletes
      <4>2. ~(Contract!Transient(w) /\ attempt < MaxRetries)
        <5> SUFFICES ASSUME Contract!Transient(w), attempt < MaxRetries
                     PROVE  FALSE
          OBVIOUS
        <5>1. Continues(s)
          BY <3>3, TransientFailureContinues DEF Contract!Transient
        <5>2. QED
          BY <3>0, <3>3, <3>8, <5>1, MaxRetriesAssumption
             DEF StopsAfter, Continues, AttemptResult, Nothing, Seen,
                 Response, Raised
      <4>3. OutcomeClass(reply') \in Contract!Settles(w)
        BY <3>3, <4>1, OutcomeSettles
      <4>4. Contract!Send(w)
        BY <3>4, <3>5, <3>6, <4>2, <4>3 DEF Contract!Send
      <4>5. QED
        BY <4>4 DEF Contract!Next, Contract!Wire, Wire, Contract!NoCode, NoCode
    <3>9. QED
      BY <3>7, <3>8
  <2>2. CASE Sleep
    BY <2>2 DEF Sleep, Contract!cvars
  <2>3. CASE UNCHANGED vars
    BY <2>3 DEF vars, Contract!cvars
  <2>4. QED
    BY <2>1, <2>2, <2>3 DEF Next
<1>3. QED
  BY <1>1, <1>2, IInvHolds, PTL DEF Spec, ContractSpec, Contract!Spec

=============================================================================
