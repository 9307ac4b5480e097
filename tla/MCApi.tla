------------------------------- MODULE MCApi -------------------------------
(***************************************************************************)
(* An instance of the HTTP service for TLC.                                *)
(***************************************************************************)
EXTENDS ApiProperties, MCPipeline

LOCAL Core == INSTANCE AgentCore

LabConfig ==
    [environment_mode |-> "local", require_api_auth |-> FALSE,
     allowed_origins |-> {"http://127.0.0.1:8080"},
     max_request_body_bytes |-> 1024, audit_retention_days |-> 90,
     enable_strict_provenance |-> FALSE, provenance_hmac_key_file |-> None,
     require_approval_token |-> FALSE, enable_debug_errors |-> TRUE,
     allow_live_external_tools |-> FALSE, allow_shell_tools |-> FALSE,
     allow_live_llm_calls |-> FALSE, llm_adapter_mode |-> "simulated",
     api_keys |-> {}]

ProductionConfig ==
    [LabConfig EXCEPT !.environment_mode = "production",
                      !.require_api_auth = TRUE,
                      !.enable_debug_errors = FALSE,
                      !.require_approval_token = TRUE,
                      !.api_keys = {"k1"}]

ApiApps == {[config |-> c, key |-> None] : c \in {LabConfig, ProductionConfig}}

ApiConfigs == {PipelineArguments(app) : app \in ApiApps}

Id(text, length, stripped) ==
    [text |-> text, length |-> length, stripped |-> stripped]

\* Alice asks for her mail to be sent, the second time with the flag set.
FlaggedAlice == [Alice EXCEPT !.human_approval = TRUE]

ApiRequests == {Alice, FlaggedAlice}

Body(request, path, correlationId) ==
    [request |-> request, path |-> path, correlation_id |-> correlationId,
     request_id |-> Id("req-1", 200, 199)]

Valid ==
    [method |-> "POST", content_length |-> 1024, x_api_key |-> "k1",
     authorization |-> None, header_id |-> Id("trace-1", 300, 300),
     body |-> Body(FlaggedAlice, "protected", None)]

\* Nothing in this request can serve as an id.
Nameless ==
    [Valid EXCEPT !.header_id = None,
                  !.body = [Body(FlaggedAlice, "protected", None) EXCEPT
                               !.request_id = Id("", 2, 0)]]

Bearer(token) == [scheme |-> "bearer", token |-> token]

ApiMessages ==
    {Valid, Nameless,
     [Valid EXCEPT !.method = "GET", !.x_api_key = None, !.body = None],
     [Valid EXCEPT !.content_length = None, !.x_api_key = Blank,
                   !.authorization = Bearer("k1"),
                   !.body = Body(Alice, "vulnerable", Id("", 5, 0))],
     [Valid EXCEPT !.x_api_key = "k0", !.authorization = Bearer("k1"),
                   !.body = None],
     [Valid EXCEPT !.x_api_key = None, !.body = Garbled],
     [Valid EXCEPT !.body = None],
     [Valid EXCEPT !.content_length = Garbled],
     [Valid EXCEPT !.content_length = 1025, !.header_id = None]}

ApiCandidates(mode, request) ==
    {Core!ModelTurn({}, Email("approved-mail")),
     IF request.human_approval THEN Core!ModelTurn({}, Read) ELSE LLMAdapterError}

ApiFiles == {ServingFile, RaisedRiskFile}

=============================================================================
