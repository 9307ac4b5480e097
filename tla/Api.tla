-------------------------------- MODULE Api --------------------------------
(***************************************************************************)
(* The HTTP service around the pipeline (api.py, observability.py): body   *)
(* limit, parsing, authentication and the /run and /health handlers.       *)
(* Requests are served concurrently, one per worker; a /run request that   *)
(* gets through begins a turn of Pipeline on its worker and answers when   *)
(* that turn is over.                                                      *)
(*                                                                         *)
(* The audit file holds the pipeline's lines (audit) and the operational   *)
(* ones (ops); their order among each other is not kept.  exchange is      *)
(* history: what every client sent and was told.                           *)
(***************************************************************************)
EXTENDS Pipeline, AppConfig

CONSTANTS
    Apps,          \* [config, key] pairs create_app was called with
    Messages,      \* HTTP requests clients may send
    IdTexts,       \* texts of the identifiers in them
    MaxExchanges   \* bound on the number of HTTP requests

ASSUME ApiBounds == MaxExchanges \in Nat

\* create_app validates before it builds the application.
ASSUME AppsValidated == \A a \in Apps : SettingsOk(a.config)

\* A Content-Length is missing, no number, or a number.
ASSUME LengthsAssumption ==
    \A m \in Messages :
        m.content_length \in {None, Garbled} \/ m.content_length \in Int

\* An identifier: its text, its length, and its length once stripped.
Ids == {id \in [text : IdTexts, length : Nat, stripped : Nat] : id.stripped <= id.length}

\* Header and body may bring a correlation id; a body always has a request id.
ASSUME IdsAssumption ==
    /\ None \notin Ids
    /\ \A m \in Messages :
          /\ m.header_id \in Ids \cup {None}
          /\ m.body \notin {None, Garbled} =>
                /\ m.body.correlation_id \in Ids \cup {None}
                /\ m.body.request_id \in Ids

VARIABLES
    cfg,        \* app.state.config
    http,       \* what each worker is doing
    exchange,   \* one record per HTTP request (history)
    ops         \* operational audit events

apiVars == <<cfg, http, exchange, ops>>

allVars == <<vars, apiVars>>

-----------------------------------------------------------------------------
(* observability.py *)

MAX_CORRELATION_ID_LEN == 128

\* MUTANT of NormalizeCorrelationId: the identifier is only stripped.
StripOnly(value, fallback) ==
    IF value = None \/ value.stripped = 0 THEN fallback
    ELSE [value EXCEPT !.length = value.stripped]

\* The fallback is returned as it is.
NormalizeCorrelationId(value, fallback) ==
    LET n == IF value.stripped > MAX_CORRELATION_ID_LEN
             THEN MAX_CORRELATION_ID_LEN ELSE value.stripped
    IN  IF value = None \/ value.stripped = 0 THEN fallback
        ELSE [value EXCEPT !.length = n, !.stripped = n]

\* The id of every audit event of a turn.
ResolveCorrelationId(correlationId, requestId) ==
    NormalizeCorrelationId(correlationId, requestId)

Literal(text, length) == [text |-> text, length |-> length, stripped |-> length]

\* write_operational_audit, with the header's id or the given fallback.
OperationalEvent(x, eventType, fallback) ==
    [exchange       |-> x,
     event_type     |-> eventType,
     correlation_id |-> NormalizeCorrelationId(exchange[x].message.header_id, fallback)]

-----------------------------------------------------------------------------
(* The state of a request *)

IdleHttp == [pc |-> "idle", x |-> 0]

Exchange(message, token) ==
    [message |-> message, token |-> token, status |-> "pending",
     detail |-> None, turn |-> 0, correlation_id |-> None]

\* What create_app passes to ControlPlanePipeline.
PipelineArguments(app) ==
    [llm_adapter_mode             |-> app.config.llm_adapter_mode,
     require_provenance_signature |-> app.config.enable_strict_provenance,
     provenance_hmac_key          |-> app.key,
     require_approval_token       |-> app.config.require_approval_token]

ApiInit ==
    /\ Init
    /\ \E app \in Apps : cfg = app.config /\ config = PipelineArguments(app)
    /\ http = [w \in Workers |-> IdleHttp]
    /\ exchange = << >>
    /\ ops = << >>

Doing(w, pc) == http[w].pc = pc

Message(w) == exchange[http[w].x].message

Proceed(w, pc) == http' = [http EXCEPT ![w].pc = pc]

\* The response is sent and the worker is free.
Reply(w, status, detail) ==
    /\ exchange' = [exchange EXCEPT ![http[w].x].status = status,
                                    ![http[w].x].detail = detail]
    /\ http' = [http EXCEPT ![w] = IdleHttp]

\* unhandled_exception_handler
ReplyError(w) == Reply(w, "500", ProductionErrorDetail(cfg))

\* MUTANT of ReplyInvalid: the validation errors are always spelt out.
ReplyInvalidVerbosely(w) == Reply(w, "422", "errors")

\* validation_exception_handler
ReplyInvalid(w) ==
    Reply(w, "422", IF cfg.enable_debug_errors THEN "errors" ELSE "validation_error")

\* Operational events that could not be written.
LostEvents == Cardinality({x \in DOMAIN exchange :
                  exchange[x].status = "500" /\ exchange[x].turn = 0})

\* A client sends a request; its JSON body may hold a token.
Receive(w) ==
    /\ Doing(w, "idle")
    /\ Len(exchange) < MaxExchanges
    /\ \E message \in Messages, token \in TokensHeld \cup {None} :
          /\ message.body \in {None, Garbled} => token = None
          /\ exchange' = Append(exchange, Exchange(message, token))
    /\ http' = [http EXCEPT ![w] = [pc |-> "middleware", x |-> Len(exchange) + 1]]
    /\ UNCHANGED <<vars, cfg, ops>>

-----------------------------------------------------------------------------
(* MaxBodySizeMiddleware *)

Limited(message) == message.method = "POST" /\ message.content_length # None

\* MUTANT of TooLarge: nothing is too large.
NeverTooLarge(message) == FALSE

TooLarge(message) ==
    /\ Limited(message) /\ message.content_length # Garbled
    /\ message.content_length > cfg.max_request_body_bytes

RejectLength(w) ==
    /\ Doing(w, "middleware")
    /\ Limited(Message(w)) /\ Message(w).content_length = Garbled
    /\ Reply(w, "400", "invalid_content_length")
    /\ UNCHANGED <<vars, cfg, ops>>

LimitBody(w) ==
    /\ Doing(w, "middleware")
    /\ TooLarge(Message(w))
    /\ ops' = Append(ops, OperationalEvent(http[w].x, "request_body_limit_blocked",
                                           Literal("api-body-limit", 14)))
    /\ Proceed(w, "413")
    /\ UNCHANGED <<vars, cfg, exchange>>

\* The audit file cannot be written: the exception replaces the refusal.
LimitBodyFails(w) ==
    /\ Doing(w, "middleware")
    /\ TooLarge(Message(w))
    /\ LostEvents < MaxAuditFaults
    /\ ReplyError(w)
    /\ UNCHANGED <<vars, cfg, ops>>

PassMiddleware(w) ==
    /\ Doing(w, "middleware")
    /\ ~TooLarge(Message(w))
    /\ Limited(Message(w)) => Message(w).content_length # Garbled
    /\ Proceed(w, "handler")
    /\ UNCHANGED <<vars, cfg, exchange, ops>>

-----------------------------------------------------------------------------
(* The handlers *)

Health(w) ==
    /\ Doing(w, "handler")
    /\ Message(w).method = "GET"
    /\ Reply(w, "200", None)
    /\ UNCHANGED <<vars, cfg, ops>>

\* FastAPI parses the body before it resolves the dependencies.  What is no
\* JSON is a validation error; on any other failure to read the body, such as
\* bytes that are no text, FastAPI words a 400 of its own.
RejectJson(w) ==
    /\ Doing(w, "handler")
    /\ Message(w).method = "POST" /\ Message(w).body = Garbled
    /\ ReplyInvalid(w) \/ Reply(w, "400", "error_parsing_body")
    /\ UNCHANGED <<vars, cfg, ops>>

\* X-API-Key first; only without one, a bearer token.
ExtractApiKey(message) ==
    IF message.x_api_key \notin {None, Blank} THEN message.x_api_key
    ELSE IF message.authorization # None
            /\ message.authorization.scheme = "bearer"
            /\ message.authorization.token # Blank
    THEN message.authorization.token
    ELSE None

Authorized(message) ==
    cfg.require_api_auth =>
        LET presented == ExtractApiKey(message)
        IN  presented # None /\ presented \in cfg.api_keys

Unauthorized(w) ==
    /\ Doing(w, "handler")
    /\ Message(w).method = "POST" /\ Message(w).body # Garbled
    /\ ~Authorized(Message(w))

\* MUTANT of Refuse: the refusal is not audited.
RefuseSilently(w) ==
    /\ Unauthorized(w)
    /\ Proceed(w, "401")
    /\ UNCHANGED <<vars, cfg, exchange, ops>>

\* require_api_key
Refuse(w) ==
    /\ Unauthorized(w)
    /\ ops' = Append(ops, OperationalEvent(http[w].x, "api_auth_failure",
                                           Literal("api-unauthenticated", 19)))
    /\ Proceed(w, "401")
    /\ UNCHANGED <<vars, cfg, exchange>>

RefuseFails(w) ==
    /\ Unauthorized(w)
    /\ LostEvents < MaxAuditFaults
    /\ ReplyError(w)
    /\ UNCHANGED <<vars, cfg, ops>>

\* The refusal, once it has been audited.
SendRefusal(w) ==
    /\ \/ Doing(w, "401") /\ Reply(w, "401", "unauthorized")
       \/ Doing(w, "413") /\ Reply(w, "413", "request_entity_too_large")
    /\ UNCHANGED <<vars, cfg, ops>>

\* The body's fields are checked after the dependencies.
RejectBody(w) ==
    /\ Doing(w, "handler")
    /\ Message(w).method = "POST" /\ Message(w).body = None
    /\ Authorized(Message(w))
    /\ ReplyInvalid(w)
    /\ UNCHANGED <<vars, cfg, ops>>

\* `body.correlation_id or x_correlation_id`: an empty id counts as none.
CallerId(message) ==
    IF message.body.correlation_id # None /\ message.body.correlation_id.length > 0
    THEN message.body.correlation_id
    ELSE message.header_id

Runnable(w) ==
    /\ Doing(w, "handler")
    /\ Message(w).method = "POST" /\ Message(w).body \notin {Garbled, None}
    /\ Authorized(Message(w))

\* The turn this worker's exchange is about to become.
StartExchange(w) ==
    /\ exchange' = [exchange EXCEPT
          ![http[w].x].turn = Len(outcome) + 1,
          ![http[w].x].correlation_id =
              NormalizeCorrelationId(CallerId(Message(w)), Message(w).body.request_id)]
    /\ Proceed(w, "turn")

\* MUTANT of RunTurn: the policy the service started with is kept.
RunTurnWithFirstPolicy(w) ==
    /\ Runnable(w) /\ At(w, "idle") /\ Len(outcome) < MaxTurns
    /\ LET body == Message(w).body
       IN  /\ outcome' = Append(outcome,
                 Outcome("running", body.path, body.request.tenant_id, None, None))
           /\ Goto(w, [IdleFrame EXCEPT
                 !.pc = "generate", !.turn = Len(outcome) + 1, !.version = 1,
                 !.path = body.path, !.request = body.request,
                 !.begun = [version |-> Len(policy_log),
                            ended   |-> {t \in Turns : Ended(t)}]])
    /\ StartExchange(w)
    /\ UNCHANGED <<config, policy_log, now, approvals, used, audit, executed,
                   epoch, cfg, ops>>

\* run_turn up to the call: RunRequestBody has no token, so a token in the
\* body is dropped.
RunTurn(w) ==
    /\ Runnable(w)
    /\ BeginTurn(w)
    /\ worker'[w].request = Message(w).body.request
    /\ worker'[w].path = Message(w).body.path
    /\ worker'[w].token = None
    /\ StartExchange(w)
    /\ UNCHANGED <<cfg, ops>>

\* MUTANT of Respond: an exception is answered like a result.
RespondAlways(w) ==
    /\ Doing(w, "turn") /\ At(w, "idle")
    /\ Reply(w, "200", outcome[exchange[http[w].x].turn].result)
    /\ UNCHANGED <<vars, cfg, ops>>

\* MUTANT of Respond: the handler does not wait for the turn.
RespondEarly(w) ==
    /\ Doing(w, "turn")
    /\ Reply(w, "200", None)
    /\ UNCHANGED <<vars, cfg, ops>>

\* The pipeline returned or raised.
Respond(w) ==
    /\ Doing(w, "turn") /\ At(w, "idle")
    /\ LET o == outcome[exchange[http[w].x].turn]
       IN  IF o.status = "answered" THEN Reply(w, "200", o.result)
           ELSE ReplyError(w)
    /\ UNCHANGED <<vars, cfg, ops>>

-----------------------------------------------------------------------------

\* The process dies: requests in flight are never answered.
ApiRestart ==
    /\ Restart
    /\ http' = [w \in Workers |-> IdleHttp]
    /\ exchange' = [x \in DOMAIN exchange |->
                       IF exchange[x].status = "pending"
                       THEN [exchange[x] EXCEPT !.status = "lost"] ELSE exchange[x]]
    /\ UNCHANGED <<cfg, ops>>

ServeStep(w) ==
    \/ RejectLength(w)
    \/ LimitBody(w)
    \/ LimitBodyFails(w)
    \/ PassMiddleware(w)
    \/ Health(w)
    \/ RejectJson(w)
    \/ Refuse(w)
    \/ RefuseFails(w)
    \/ SendRefusal(w)
    \/ RejectBody(w)
    \/ RunTurn(w)
    \/ Respond(w)
    \/ TurnStep(w) /\ UNCHANGED apiVars

ApiQuiet == (\A w \in Workers : Doing(w, "idle")) /\ UNCHANGED allVars

ApiNext ==
    \/ (Tick \/ EditPolicy \/ MintToken) /\ UNCHANGED apiVars
    \/ ApiRestart
    \/ \E w \in Workers : Receive(w) \/ ServeStep(w)
    \/ ApiQuiet

ApiSpec == ApiInit /\ [][ApiNext]_allVars

=============================================================================
