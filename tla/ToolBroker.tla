----------------------------- MODULE ToolBroker -----------------------------
(***************************************************************************)
(* The authority boundary between model output and execution               *)
(* (tool_broker.py) and the argument schemas it checks first (schemas.py). *)
(* A call's arguments are the sets of well-typed and of ill-typed keys it  *)
(* carries and one value that stands for their contents.                   *)
(***************************************************************************)
EXTENDS ApprovalTokens, PolicyEngine

\* _TOOL_SCHEMAS: the keys each schema requires and the ones it defaults.
ToolSchemas ==
    [read_records   |-> [required |-> {}, optional |-> {"record_ids"}],
     send_email     |-> [required |-> {"to", "subject", "body"}, optional |-> {}],
     export_records |-> [required |-> {}, optional |-> {"format", "filter"}],
     delete_records |-> [required |-> {"record_ids"}, optional |-> {}],
     run_shell      |-> [required |-> {"command"}, optional |-> {}]]

\* pydantic ignores keys the schema does not declare.
ArgumentsValid(schema, arguments) ==
    /\ schema.required \subseteq arguments.typed
    /\ arguments.untyped \cap (schema.required \cup schema.optional) = {}

\* The reason validate_tool_call_payload returns.
ValidateToolCallPayload(call) ==
    IF call.tool_name = ""
    THEN "missing_tool_name"
    ELSE IF call.tool_name \notin DOMAIN ToolSchemas
    THEN "unknown_tool_schema"
    ELSE IF ~ArgumentsValid(ToolSchemas[call.tool_name], call.arguments)
    THEN "schema_validation_failed"
    ELSE "schema_valid"

\* The configured key, or the lab key the broker falls back to.
HmacKey(config) ==
    IF config.provenance_hmac_key # None
    THEN config.provenance_hmac_key
    ELSE LAB_DEMO_HMAC_KEY

\* policy_decision is None when the policy engine was not reached.
BrokerDecision(allowed, reason, valid, policyDecision, approvalId, approval) ==
    [allowed           |-> allowed,
     reason            |-> reason,
     schema_valid      |-> valid,
     policy_decision   |-> policyDecision,
     approval_id       |-> approvalId,
     approval_decision |-> approval]

BrokerToolRequest(request, token, policy, call, config, used, now) ==
    LET schemaReason    == ValidateToolCallPayload(call)
        integrityReason == VerifyProvenanceIntegrity(call.provenance,
                              HmacKey(config),
                              config.require_provenance_signature)
        policyDecision  == EvaluatePolicy(policy, request, call)
        approval        == EvaluateApprovalGate(request, token,
                              policy.tools[call.tool_name], call,
                              config.require_approval_token, used, now)
    IN  IF schemaReason # "schema_valid"
        THEN BrokerDecision(FALSE, schemaReason, FALSE, None, None, None)
        ELSE IF integrityReason \notin IntegrityOkReasons
        THEN BrokerDecision(FALSE, integrityReason, TRUE, None, None, None)
        ELSE IF ~policyDecision.allowed
        THEN BrokerDecision(FALSE, policyDecision.reason, TRUE,
                            policyDecision, None, None)
        ELSE IF ~approval.allowed
        THEN BrokerDecision(FALSE, approval.reason, TRUE, policyDecision,
                            approval.approval_id, approval.approval_decision)
        ELSE BrokerDecision(TRUE, policyDecision.reason, TRUE, policyDecision,
                            approval.approval_id, approval.approval_decision)

=============================================================================
