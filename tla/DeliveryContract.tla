--------------------------- MODULE DeliveryContract ---------------------------
(***************************************************************************)
(* What one OutboundTransmission.make_request promises its caller, stated  *)
(* at the level of the wire (sections 4.1 and 4.3 of the specification): *)
(* the requests sent, in order, and the class of the outcome.  Attempts   *)
(* are strictly sequential and at most max_retries; another is sent only  *)
(* when the previous one got no HTTP response; a refused connection, a    *)
(* timeout or a connection reset before the answer is never final while   *)
(* attempts remain; the outcome is decided by the last request: a        *)
(* response is "delivered" (or "rejected" when its status is an error),   *)
(* no response at all is "failed".                                        *)
(*                                                                         *)
(* Whether a TLS failure is retried is left open here.  The code retries  *)
(* it under the curl client (CurlError 599), and under either client when *)
(* raise_error is unset and tornado returns the 599 pseudo-response; only *)
(* the simple client with raise_error set gives up (SSLError).            *)
(***************************************************************************)
EXTENDS Integers, Sequences

CONSTANTS MaxRetries, Codes

VARIABLES
  sent,         \* the requests put on the wire so far, with their fate
  outcome       \* "pending" until make_request returns or raises

cvars == <<sent, outcome>>

NoCode == 0

Wire == [kind : {"http"}, code : Codes]
          \cup [kind : {"connFail", "timeout", "tlsFail", "reset"}, code : {NoCode}]

GotResponse(w) == w.kind = "http"
Transient(w) == w.kind \in {"connFail", "timeout", "reset"}

\* The outcome classes a final request w allows.
Settles(w) ==
  IF GotResponse(w)
  THEN IF w.code \in 200..299 THEN {"delivered"} ELSE {"delivered", "rejected"}
  ELSE {"failed"}

Init ==
  /\ sent = <<>>
  /\ outcome = "pending"

\* One request, after which the call either goes on or settles.
Send(w) ==
  /\ outcome = "pending"
  /\ Len(sent) < MaxRetries
  /\ sent' = Append(sent, w)
  /\ \/ /\ ~GotResponse(w)
        /\ Len(sent') < MaxRetries
        /\ outcome' = "pending"
     \/ /\ ~(Transient(w) /\ Len(sent') < MaxRetries)
        /\ outcome' \in Settles(w)

Next == \E w \in Wire : Send(w)

Spec == Init /\ [][Next]_cvars

=============================================================================
