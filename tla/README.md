# TLA+ models of the MHS outbound transmission, its startup and the NHAIS message adaptor

This directory holds TLA+ specifications of the parts of this repository
whose behaviour depends on control flow that tests rarely reach. It also
holds TLC configurations that model-check them on small instances, and
TLAPS proofs of their main properties for every value of the constants.

## 1. The system and its parts

The sources under `src/` are four files:

| Part | Source | What it does |
|---|---|---|
| OutboundTransmission | `src/mhs/outbound/outbound/transmission/outbound_transmission.py` | `make_request` sends one message to a remote MHS. It runs `make_http_request` under a `RetriableAction` with `max_retries` attempts, a success check (`r.code != 599`) and a retriable-exception check (`_is_exception_retriable`). Afterwards it returns the response, re-raises the last exception, or raises `OutboundTransmissionError`. |
| SecureTransport | `src/common/comms/common_https.py` | `CommonHttps.make_request` awaits a single `AsyncHTTPClient().fetch` with client certificate, CA bundle, proxy and `raise_error`. |
| Outbound startup | `src/mhs/outbound/main.py` | Configures tornado to use the **curl** client (`configure_http_client`). Reads its settings one by one, writes certificate files, builds the route lookup, the `OutboundTransmission`, the stores and the workflows, starts the server and runs the IO loop; `__main__` logs an escaping exception as fatal. |
| NHAIS MessageAdaptor | `src/nhais-adaptor/adaptor/outgoing/message.py` | Turns a FHIR Patient into the EDIFACT patient-details segment. It fills three name slots and three address slots in loops. |

How they interact: a workflow (not in the sources) calls
`OutboundTransmission.make_request`. Each attempt awaits
`CommonHttps.make_request`, which awaits tornado's fetch. The HTTP client
class that `main.py` configures decides which exception reaches the retry
classification when no response came back. The retry executor
(`retry.retriable_action`, not in the sources) is specified in section 4.1
of `spec.md`.

Hard behaviours in this code:
- The 599 override. Tornado reports "no response at all" as
  `HTTPClientError` with code 599 (curl's `CurlError`, the simple client's
  `HTTPTimeoutError` and, for a connection reset or closed before the
  answer, `HTTPStreamClosedError`). It also returns a `Response` with code 599 when
  `raise_error` is False, on tornado versions before 6. The version is not
  pinned, so the model allows both. `errors_not_to_retry` would stop all of
  these, and only `_is_tornado_network_error` turns them back into retries.
- Two raise modes. Two HTTP clients.
- The executor's budget.
- The three ways `make_request` ends.
- The adaptor's slot loops. They depend on Python's 0-based indexing, on
  `None` lists and on dict lookups.

## 2. Modules

| Module | Models | Kind |
|---|---|---|
| `OutboundTransmission.tla` | one `make_request` call: the fetch outcomes (`Fetched`, `NoResponseError`), the classification (`IsTornadoNetworkError`, `IsExceptionRetriable`, `SuccessCheck`), the executor (`AttemptResult`, `StopsAfter`, `Sleep`, from spec 4.1) and the final raise/return (`MakeRequestOutcome`) | detailed spec |
| `DeliveryContract.tla` | what `make_request` promises at the wire level: sequential sends, at most `MaxRetries`, another send only after no HTTP response, transient failures never final while attempts remain, outcome class fixed by the last send | abstract spec |
| `OutboundTransmissionProofs.tla` | TLAPS proofs about `OutboundTransmission`, including the refinement | proofs |
| `OutboundStartupProofs.tla` | TLAPS proofs about `OutboundStartup` | proofs |
| `MessageAdaptor.tla` | one call of `create_message_segment_patient_detail` with the two methods it calls, one step per loop iteration, plus a declarative reference | detailed spec |
| `MessageAdaptorProofs.tla` | TLAPS proofs about `MessageAdaptor` | proofs |
| `OutboundStartup.tla` | `main()` of the outbound service with `OutboundTransmission.__init__` and the identity `CommonHttps.make_request` presents | detailed spec |
| `MCOutboundTransmission.tla`, `MCMessageAdaptor.tla`, `MCOutboundStartup.tla` | constants for TLC | model |

### OutboundTransmission: state and actions

| Variable | Code |
|---|---|
| `pc` | where the coroutine is: awaiting the fetch, sleeping between attempts, or returned |
| `attempt` | the executor's attempt number |
| `retryResult` | the `RetriableActionResult` of the latest attempt |
| `history` | per attempt, what happened on the wire (`http` with a status, `connFail`, `timeout`, `tlsFail`, and `reset`: the connection reset or closed after the POST was sent, before the answer, curl errors 52/56) and what the code saw (a `Response` or an exception class with its code). It is a history variable, kept for the properties. |
| `raiseError` | the `raise_error_response` argument (both values are initial states) |
| `reply` | what `make_request` returned or raised |

Actions:
- `Attempt`. One awaited fetch and everything up to the next suspension
  point: classify the result, then either stop (`make_request` returns or
  raises in the same step) or decide to retry.
- `Sleep`. The awaited `asyncio.sleep` between attempts ends.

The data is abstracted to what the decisions tell apart. A status code is
drawn from a small set. Headers, body, certificates, proxy and logging are
left out.

### OutboundStartup: state and actions

`pc` is the statement of `main()` reached next; `routing`, `certificates`
and `transmission` are the objects bound so far; `loop` and `listening`
are the IO loop and the server socket; `raised` is the exception
propagating to `__main__`, `cause` (a history variable) the one that ended
the work, `fatalLogged` and `shutdownLogged` the two log lines.

One action per function or statement group, in the code's order:
`Configure` (`configure_http_client`), `SelectRouting`,
`InitialiseSpineRouteLookup` or `InitialiseSdsApiClient`,
`CreateCertificates`, `CreateTransmission` (with
`OutboundTransmissionInit`), `CreateStores`, `InitialiseWorkflows`,
`StartTornadoServer`, `ServeEnds` (the `try/except KeyboardInterrupt/finally`
around `IOLoop.start()`) and `MainHandler` (`__main__`). A setting's text
is chosen when `main()` reads it. `PyInt`/`PyFloat` are `int()`/`float()`:
`TypeError` on `None`, `ValueError` on a rejected text. `Then` evaluates a
statement's expressions in order and keeps the first exception; `Proceed`
leaves `main()` on an exception. File writes, loading the interactions
file and binding the port may fail with `OSError`. String settings and
`str2bool` are data and left out.

### MessageAdaptor

One call of `create_message_segment_patient_detail` is a run of the
model. `pc` says where the call is, `slots` is the 3-element list the
running method fills (`given_names`, then `address_lines`), `index` counts
the items the running `for` loop has consumed, `counter` is
`create_patient_address`'s counter, `ediName` is `edi_name`, and
`outcome` is what the call returned or raised (`Pending` before).
The actions, in the code's order:
- `EnterName`: `name[0]`, `given_names = [None]*3`, the start of the loop
  (iterating `None` raises `TypeError`);
- `GivenStep`: one iteration, `given_names[index] = given_name`, raising
  `IndexError` at index 3;
- `BuildName`: `Name(...)` with `prefix[0]` and `given[0]`;
- `EnterAddress`: `address[0]`, `len(line)` and the counter's start (0
  for exactly three lines, else 1);
- `LineStep`: one iteration, `address_lines[counter] = line;
  counter += 1`;
- `BuildSegment`: `Address(...)`, then `identifier[0]`,
  `birthDate.as_json()`, `gender_map[gender]`, left to right.

`PyIndex` is Python's `list[i]` (`IndexError` past the end, `TypeError`
on `None`). `Exit` ends the call with a value or an exception. Keyword
arguments are evaluated left to right, so the first failing expression
decides the exception. `EmptyString` is Python's `''`. It is named so
that the proofs can treat it as an opaque constant: tlapm's SMT back-end
fails on the empty string literal.

`Init` enumerates every patient built from the pools. The call ends in
`pc = "done"`, where nothing is enabled, so the run does not check
deadlock.

## 3. Runs

| Run | Config | Checks | Shows |
|---|---|---|---|
| outbound_curl | `MCOutboundTransmission.cfg` | `TypeOK`, `NoRetryAfterPeerResponse`, `TransientFailureOnlyAfterBudget`, `OutcomeReflectsLastAttempt` | under the curl client of `main.py`, retries happen only after failures without a response; refused connections, timeouts and resets use the whole budget; the reply is the last attempt's (1044 states) |
| outbound_simple | `MCOutboundTransmissionSimple.cfg` | same | the same under tornado's simple client (788 states) |
| outbound_contract | `MCOutboundTransmissionContract.cfg` | `ContractSpec` | `make_request` refines `DeliveryContract` |
| outbound_tls_retry | `MCOutboundTransmissionTls.cfg` | `OnlyTransientFailuresRetried` (expected **violation**) | with `raise_error_response` pinned to its default True (`MCInitRaising`), a TLS handshake failure is raised as `CurlError` 599 under curl and retried; see the finding below |
| startup | `MCOutboundStartup.cfg` | `TypeOK`, `ShutdownAccounted`, `ServesOnlyWhenBuilt` (action property) | whatever ends `main()` (a bad setting, a failed write, load or bind, or the end of the IO loop), the process exits with the loop closed and the port released, the fatal log written exactly for an `Exception` and the shut-down log exactly for Ctrl-C; the server starts listening only once the route lookup, certificates and transmission exist (894 states) |
| startup_retry_policy | `MCOutboundStartupRetry.cfg` | `ServesOnlyWithValidRetryPolicy` (expected **violation**) | the server starts with `max_retries = 0` or a negative delay |
| startup_identity | `MCOutboundStartupIdentity.cfg` | `PresentsConfiguredCertificates` (expected **violation**) | outbound requests present compiled-in certificates, not the configured ones |
| message_adaptor | `MCMessageAdaptor.cfg` | `AcceptsExactlyAdaptable`, `AdaptedAsReference` | the adaptor raises exactly for the patients outside its 3-slot layouts and otherwise builds the reference segment (38,040 states) |

### Bounds

- `MaxRetries = 3` lets a failure be followed by a retry that is itself
  retried, and lets the budget run out. Spec scenario B (two timeouts,
  then 200) fits in it.
- Codes `{200, 404, 500}`: one success, one client error and one server
  error.
- Both values of `raise_error_response`. Every wire event.
- For the adaptor, pools of four given names and four address lines: one
  more than the three slots, so the `IndexError` boundary and the
  exactly-three-lines case are both reached. Name, address and identifier
  lists are `None`, empty or one entry, because only `[0]` is read.

- For startup, every setting may be absent. `MCIntOf`, the texts `int()`
  accepts, holds the defaults `main()` passes to `get_config` (`"3"`,
  `"100"`, `"20"`, `"3128"`, `"80"`), so an absent setting converts as it
  does in Python. The numeric ones also hold a
  valid text and `"x"`, which `int()` rejects; the transmission's retry
  settings also hold `"0"` and `"-1"`, the boundary values. The routing
  method is one of the two known ones or an unknown one. Every I/O step
  may fail, and the loop may end in each of its three ways.

`CHECK_DEADLOCK FALSE` in every config: a finished `make_request`, a
finished adaptor call and an exited process have no further step.

### Findings

`src/mhs/outbound/outbound/transmission/outbound_transmission.py:225`.
`main.py:32` selects `CurlAsyncHTTPClient`. Under it, with
`raise_error_response` at its default True, a failed TLS handshake (an
untrusted or expired certificate) is raised as `CurlError`, an
`HTTPClientError` with code 599. `_is_tornado_network_error` therefore
classifies it as retriable, and the request is sent up to `max_retries`
times. Section 4.3 of the spec says a TLS/certificate failure is
non-retriable, and `errors_not_to_retry` lists `SSLError` for this
purpose. The run pins `raiseError` to TRUE, so its trace goes through this
route. There is a second one under either client: with
`raise_error_response` False, tornado before 6.0 returns the failure as a
`Response` with code 599, which the success check at line 198 rejects, so
it is retried as well. Only the simple client with `raise_error_response`
True surfaces the `SSLError` at once.

`src/mhs/outbound/main.py:283`. `int()` accepts
`OUTBOUND_TRANSMISSION_MAX_RETRIES=0` and a negative
`OUTBOUND_TRANSMISSION_RETRY_DELAY`, and nothing checks the range, so
the server starts serving with a retry policy outside the `N >= 1`,
`D >= 0` that section 4.1 specifies.

`src/mhs/outbound/outbound/transmission/outbound_transmission.py:39` and
`src/common/comms/common_https.py:55`. `OutboundTransmission.__init__`
ignores its `client_cert`, `client_key` and `ca_certs` arguments and keeps
PEM texts compiled into the class; `CommonHttps.make_request` passes its own
compiled-in PEM texts to `fetch`. The certificate files `main()` writes are
never presented, contrary to section 4.2 ("presenting the given client
certificate/key").

### Mutants

Every property of a passing run is shown to catch a plausible bug. Each
bug is an operator defined just before the one it replaces:

| Mutant | What it breaks |
|---|---|
| `MakeRequestOutcomeWholeResult` (`return retry_result` for `retry_result.result`) | `TypeOK` |
| `IsExceptionRetriableNoExclusions` | `NoRetryAfterPeerResponse` |
| `IsExceptionRetriableNoOverride` | `TransientFailureOnlyAfterBudget` |
| `MakeRequestOutcomeNoReraise` | `OutcomeReflectsLastAttempt` |
| `SuccessCheckAlways` | `ContractSpec` |
| `EnterAddressCounterOne` (the counter always starts at 1) | `AcceptsExactlyAdaptable` |
| `LineStepNoIncrement` (`counter += 1` dropped) | `AdaptedAsReference` |
| `PyIntLenient` (a rejected text gives `None` instead of raising) | `TypeOK` of startup |
| `ServeEndsSwallowing` (`except KeyboardInterrupt` widened to `Exception`) | `ShutdownAccounted` |
| `ProceedIgnoring` (a failing statement's exception swallowed, `main()` carries on) | `ServesOnlyWhenBuilt` |

## 4. Proofs

`OutboundTransmissionProofs.tla` proves the following for every
`MaxRetries \in Nat \ {0}`, every set of codes in `100..598` and either
client. These are the named assumptions of `OutboundTransmission`.
`max_retries >= 1` is the spec's `N >= 1`; 599 is tornado's reserved code.

- `TypeCorrect`: `Spec => []TypeOK`.
- `IInvHolds`: `Spec => []IInv`. `TypeOK` alone is not inductive. The
  properties speak only of the last attempt, so `IInv` also records:
  - `Len(history)` counts the attempts;
  - every attempt saw a possible fetch outcome for its wire event;
  - every non-final attempt was one the executor continues after
    (`Continues`);
  - there is no reply before the call finishes;
  - a finished call's `retryResult` and `reply` are computed from the last
    attempt.

  `IInv` was checked with TLC under both clients before it was proved.
- `NoRetryAfterPeerResponseHolds`, `TransientFailureOnlyAfterBudgetHolds`,
  `OutcomeReflectsLastAttemptHolds`: each follows from `IInv` and three
  lemmas about the classification of one attempt:
  - `PeerResponseStops`: an HTTP status never continues.
  - `TransientFailureContinues`: a refused connection, a timeout or a
    reset always continues.
  - `LastAttempt`.
- `ImplementsDeliveryContract`: `Spec => ContractSpec`. The mapping:
  - the sent requests are the wire column of `history`;
  - the outcome class is read off `reply` (`OutcomeClass`).

  `Init` maps to the contract's `Init`. `Attempt` maps to `Send(w)`:
  - if the call goes on, `PeerResponseStops` shows no response came back;
  - if it stops, `TransientFailureContinues` shows a transient failure
    stops only at the budget, and `OutcomeSettles` shows the outcome class
    is allowed.

  `Sleep` is a stutter.

`OutboundStartupProofs.tla` proves, for every set of setting texts, every
`int()` table and every outcome of the I/O steps, under the assumptions
`SettingsAssumption` (the settings `main()` reads, each possibly absent)
and `NoneAssumption` (Python's `None` is no integer and none of the
objects `main()` builds):

- `IInvHolds`: `Spec => []IInv`. `ShutdownAccounted` speaks only of the
  exited process, so `IInv` describes each stretch of `main()`: which of
  `routing`, `certificates`, `transmission` are bound after their
  statement; before the server starts, no loop, socket, exception or log;
  while serving, a running loop and a bound port; once `main()` is left,
  a closed loop, a free port, a cause, `raised` equal to the cause or
  `"none"` after a caught Ctrl-C, and the shut-down log exactly for
  Ctrl-C; the fatal log only at exit. It was checked with TLC before it
  was proved. There is one lemma per action; the ones with failing
  expressions rest on operator lemmas: `PyIntResult` (`int()` raises an
  `Exception` class or yields an integer), `PyFloatResult`, `ErrorSound`
  and `ThenResult` (a sequence fails exactly when one part does, with a
  sound exception).
- `TypeCorrect`, `ShutdownAccountedHolds`: from `IInv`.
- `ServesOnlyWhenBuiltHolds`: the action property. A step that starts
  listening is `StartTornadoServer` from `"server"`, where `IInv` has the
  three objects bound.

`MessageAdaptorProofs.tla` proves, for all pools of given names and
address lines and all field values, under `PoolsAssumption` (the fields
are strings and the district is non-empty) and `NoneAssumption` (`None`
is no string, gender key, list or record):

- `IInvHolds`: `Spec => []IInv`. The properties speak only of the
  finished call, so `IInv` carries the two loop invariants:
  - in the given-name loop, `index <= 3`, at most `Len(given)`, with the
    first `index` names in their slots and `None` in the rest
    (`GivenSlots`);
  - in the address loop, `counter = LineStart + index <= 3`, with line
    `k` in slot `LineStart + k` for `k <= index` and `''` elsewhere
    (`LineSlots`).

  Between the loops, `IInv` records that the name part of `Adaptable`
  holds and that `ediName` is the reference name. Once the call has
  ended, it records the two properties. There is one lemma per action.
  `IndexError` in a loop means more than three items: for addresses, a
  counter at 3 with items left means a start of 1, so not exactly three
  lines. `SlotsAsReference` turns `LineSlots` into the reference layout
  (`<<''>> \o line` unless there are three lines). `IInv` was checked
  with TLC before it was proved.
- `AcceptsExactlyAdaptableHolds`, `AdaptedAsReferenceHolds`: from `IInv`.

The loops being steps of the model is what makes this provable. A loop
written as a fold over the list would need induction over the list, and
the installed provers cannot instantiate the library's induction
theorems.

Only model-checked:
- The violation runs (a TLAPS theorem states what holds in every
  behaviour, not that some behaviour breaks a property).

Termination of `make_request` needs no fairness argument. `TypeOK` bounds
`attempt` by `MaxRetries`, and `IInv` ties `Len(history)` to `attempt`, so
a call makes at most `MaxRetries` attempts and no liveness property is
stated. Proving that the awaited fetch itself completes is beyond TLA+'s
reach here: it rests on tornado's default request timeout.

## 5. Not modelled

- **RouteResolver, SyncAsyncResynchroniser, WorkflowDispatcher,
  persistence**: not in the sources. The resynchroniser and the workflows
  are planned next, modelled from sections 4.5 and 4.6: concurrent
  workflows, a shared store, an external reply writer, and polling with an
  initial delay and `maxRetries + 1` reads.
- **The shared AsyncHTTPClient queue under load**: inside tornado.
- **Duplicate delivery at the remote MHS**: a timeout, or a reset after
  the POST arrived, is retried (the `timeout` and `reset` wire events), so
  the peer may get the message twice. Neither the code nor the spec
  promises at-most-once delivery, so no property is stated about it and
  the model does not count the copies the peer receives.
- **What `max_retries` counts**: the docstring of
  `OutboundTransmission.__init__` (`outbound_transmission.py:34`) calls it
  "the max number times to retry", which would mean `max_retries + 1`
  attempts. The executor is not in the sources; the model follows spec
  4.1, where `N` is the number of attempts (`N = 1` is a single attempt).
  `StopsAfter`, `TransientFailureOnlyAfterBudget` and the contract's
  `MaxRetries` bound all depend on this reading; under the docstring's
  reading each would be off by one.
- **`max_retries = 0` inside `make_request`**: excluded by
  `MaxRetriesAssumption`; what the executor does for 0 is not in the
  sources. That `main()` lets 0 through is shown by `startup_retry_policy`.
- **Plain string settings and secrets** in `main.py` (URLs, table names,
  party key): data that no decision depends on. The request handlers the
  server runs are outside the sources.
