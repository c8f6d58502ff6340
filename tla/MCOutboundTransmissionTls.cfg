\* make_request under the curl client with raise_error_response left at
\* its default (True): a failed TLS handshake is raised as CurlError 599.
CONSTANTS
  MaxRetries <- MCMaxRetries
  Codes <- MCCodes
  HttpClient = "curl"
INIT MCInitRaising
NEXT Next
CHECK_DEADLOCK FALSE
INVARIANT
  OnlyTransientFailuresRetried
