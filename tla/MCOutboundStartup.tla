--------------------------- MODULE MCOutboundStartup ---------------------------
(* Settings for checking OutboundStartup: every setting may be absent;     *)
(* the numeric ones may also hold a valid text or one int() rejects, and  *)
(* the retry settings the boundary values 0 and -1.                       *)
EXTENDS OutboundStartup

CONSTANT NoSetting

\* The texts int() accepts in this model, with their values: those the
\* settings below may hold and the defaults main() passes to get_config
\* ("3", "100", "20", "3128", "80").
MCIntOf == [t \in {"-1", "0", "3", "20", "80", "100", "3128"} |->
              CASE t = "-1" -> -1 [] t = "0" -> 0 [] t = "3" -> 3
                [] t = "20" -> 20 [] t = "80" -> 80 [] t = "100" -> 100
                [] OTHER -> 3128]

MCFloatTexts == {"1.0", "0"}

\* The retry settings: the boundary values 0 and -1, a valid and a
\* rejected text.
MCMaxRetriesTexts == {"-1", "0", "3", "x"}
MCRetryDelayTexts == {"-1", "0", "3", "x"}

MCSettings ==
  LET one(S) == S \cup {NoSetting}
  IN [k \in {"OUTBOUND_ROUTING_LOOKUP_METHOD",
             "SPINE_ROUTE_LOOKUP_HTTP_PROXY", "SPINE_ROUTE_LOOKUP_HTTP_PROXY_PORT",
             "OUTBOUND_TRANSMISSION_MAX_RETRIES", "OUTBOUND_TRANSMISSION_RETRY_DELAY",
             "OUTBOUND_HTTP_PROXY", "OUTBOUND_HTTP_PROXY_PORT",
             "STATE_STORE_MAX_RETRIES", "STATE_STORE_RETRY_DELAY",
             "SYNC_ASYNC_STORE_MAX_RETRIES", "SYNC_ASYNC_STORE_RETRY_DELAY",
             "SPINE_REQUEST_MAX_SIZE", "RESYNC_RETRIES", "RESYNC_INTERVAL",
             "RESYNC_INITIAL_DELAY", "OUTBOUND_SERVER_PORT"} |->
       CASE k = "OUTBOUND_ROUTING_LOOKUP_METHOD" ->
              one({"SPINE_ROUTE_LOOKUP", "SDS_API", "LDAP"})
         [] k \in {"SPINE_ROUTE_LOOKUP_HTTP_PROXY", "OUTBOUND_HTTP_PROXY"} ->
              one({"proxy.local"})
         [] k = "OUTBOUND_TRANSMISSION_MAX_RETRIES" -> one(MCMaxRetriesTexts)
         [] k = "OUTBOUND_TRANSMISSION_RETRY_DELAY" -> one(MCRetryDelayTexts)
         [] k \in {"RESYNC_INTERVAL", "RESYNC_INITIAL_DELAY"} ->
              one({"1.0", "x"})
         [] k = "OUTBOUND_SERVER_PORT" -> one({"80", "x"})
         [] OTHER -> one({"3128", "x"})]
=============================================================================
