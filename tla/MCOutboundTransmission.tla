----------------------- MODULE MCOutboundTransmission -----------------------
(***************************************************************************)
(* Model-checking instance of OutboundTransmission: the default retry      *)
(* budget of main.py (OUTBOUND_TRANSMISSION_MAX_RETRIES = 3), and one      *)
(* status of each class the remote MHS may answer with.                    *)
(***************************************************************************)
EXTENDS OutboundTransmission

MCMaxRetries == 3
MCCodes == {200, 404, 500}

\* make_request called with its default raise_error_response = True, so
\* that a failure without a response is raised, never the 599 Response.
MCInitRaising == Init /\ raiseError = TRUE
=============================================================================
