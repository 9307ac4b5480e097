---------------------------- MODULE ApiProperties ----------------------------
(***************************************************************************)
(* What the HTTP service promises its clients and its operators.           *)
(***************************************************************************)
EXTENDS Api, PipelineProperties

Exchanges == DOMAIN exchange

HttpStatuses == {"200", "400", "401", "413", "422", "500"}

\* Every worker serves at most one exchange, which is pending, and runs a turn
\* only as that exchange's turn; an exchange off the workers is over.
ApiTypeOK ==
    /\ TypeOK
    /\ IsSeq(exchange)
    /\ \A x \in Exchanges :
          /\ exchange[x].status \in HttpStatuses \cup {"pending", "lost"}
          /\ exchange[x].turn \in Turns \cup {0}
          /\ exchange[x].status = "pending" <=> \E w \in Workers : http[w].x = x
    /\ \A w \in Workers :
          /\ http[w].pc \in {"idle", "middleware", "handler", "401", "413", "turn"}
          /\ http[w].pc = "idle" <=> http[w].x = 0
          /\ http[w].pc # "idle" => http[w].x \in Exchanges
          /\ ~At(w, "idle") => /\ http[w].pc = "turn"
                               /\ worker[w].turn = exchange[http[w].x].turn

Declared(message) == message.content_length \notin {None, Garbled}

\* Every turn belongs to exactly one exchange, whose client presented an
\* accepted key where keys are required (require_api_key) and declared no more
\* than the body limit (MaxBodySizeMiddleware): no retry, restart or failing
\* audit write runs a request twice or lets a refused one through.
TurnsAreAdmitted ==
    \A t \in Turns :
        \E x \in Exchanges :
            LET message == exchange[x].message IN
            /\ \A y \in Exchanges : exchange[y].turn = t <=> y = x
            /\ cfg.require_api_auth =>
                  \/ message.x_api_key \in cfg.api_keys
                  \/ /\ message.x_api_key \in {None, Blank}
                     /\ message.authorization.scheme = "bearer"
                     /\ message.authorization.token \in cfg.api_keys
            /\ Declared(message) =>
                  message.content_length <= cfg.max_request_body_bytes

OpsOf(x) == {i \in DOMAIN ops : ops[i].exchange = x}

RefusalEvent(status) ==
    CASE status = "401" -> "api_auth_failure"
      [] status = "413" -> "request_body_limit_blocked"

\* Every 401 and 413 a client was told of is in the audit log, once and as what
\* it was; an event stands for one of them, unless the process died before it
\* could be sent.  The other exchanges, refusals with 400 and 422 among them,
\* leave no operational event.
RefusalsAudited ==
    \A x \in Exchanges :
        LET status == exchange[x].status IN
        IF status \in {"401", "413"}
        THEN \E i \in DOMAIN ops : /\ OpsOf(x) = {i}
                                   /\ ops[i].event_type = RefusalEvent(status)
        ELSE IF status \in {"pending", "lost"}
        THEN /\ \A i, j \in OpsOf(x) : i = j
             /\ OpsOf(x) # {} => exchange[x].turn = 0
        ELSE OpsOf(x) = {}

\* The status tells the client what happened: 200 carries the turn's result, a
\* refusal (400, 401, 413, 422) means that no turn began and nothing was
\* executed, and only 500 leaves that open.
StatusTellsTheTruth ==
    \A x \in Exchanges :
        LET ex == exchange[x] IN
        /\ ex.status = "200" /\ ex.message.method = "POST" =>
              /\ ex.turn \in Turns
              /\ outcome[ex.turn].status = "answered"
              /\ ex.detail = outcome[ex.turn].result
        /\ ex.status \in {"400", "401", "413", "422"} =>
              ex.turn = 0
        /\ ex.status = "500" /\ ex.turn # 0 => outcome[ex.turn].status = "raised"

OpaqueDetails ==
    {"invalid_content_length", "request_entity_too_large", "unauthorized",
     "error_parsing_body", "validation_error", "internal_error"}

\* No error response of a production service carries internals, whichever
\* layer it comes from (production_error_detail, validation_exception_handler
\* and what AppConfig.validate lets start).
ProductionErrorsAreOpaque ==
    cfg.environment_mode = "production" =>
        \A x \in Exchanges :
            exchange[x].status \in HttpStatuses \ {"200"} =>
                exchange[x].detail \in OpaqueDetails

Usable(id) == id.stripped > 0 /\ id.length <= MAX_CORRELATION_ID_LEN

\* The id under which a turn's audit event is written.
TurnEventId(x) ==
    ResolveCorrelationId(exchange[x].correlation_id,
                         exchange[x].message.body.request_id)

HasText(id) == id # None /\ id.stripped > 0

\* An operational event always has an id of 1 to 128 characters that is not
\* blank.  A turn's event has one exactly when the client sent text to make it
\* from, in the id that counts as the caller's or in the request id; with
\* nothing but blanks the event gets a blank id (normalize_correlation_id
\* returns its fallback as it is, and promises never to return an empty one).
\* The body's id comes first, then the header's, then the request's own.
EventIdsUsable ==
    /\ \A i \in DOMAIN ops : Usable(ops[i].correlation_id)
    /\ \A i \in DOMAIN audit, x \in Exchanges : exchange[x].turn = audit[i].turn =>
          LET message == exchange[x].message
              inBody  == message.body.correlation_id
              own     == message.body.request_id
              eventId == TurnEventId(x)
          IN  /\ Usable(eventId) <=> HasText(CallerId(message)) \/ HasText(own)
              /\ HasText(inBody) => eventId.text = inBody.text
              /\ inBody = None /\ HasText(message.header_id) =>
                    eventId.text = message.header_id.text
              /\ ~HasText(CallerId(message)) => eventId.text = own.text

\* The service only ever drives the pipeline through its own steps, so every
\* property of the pipeline holds behind the API.
ImplementsPipeline == Spec

-----------------------------------------------------------------------------
(* A statement of the documentation that the code does not keep. *)

\* docs/approval-workflow.md: "tokens are passed in API requests for
\* demonstration": a client that sent one is not told that it is missing.
SentTokensArrive ==
    \A x \in Exchanges :
        /\ exchange[x].token # None
        /\ exchange[x].status = "200"
        => exchange[x].detail.reason # "approval_token_missing"

=============================================================================
