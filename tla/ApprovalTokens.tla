--------------------------- MODULE ApprovalTokens ---------------------------
(***************************************************************************)
(* Lab approval tokens and the gate that checks them (approval_tokens.py,  *)
(* approval_gate.py).  The registry of used approval ids and the clock are *)
(* state of the process and come in as arguments.  Time is in ticks.       *)
(***************************************************************************)
EXTENDS ProvenanceIntegrity

ComputeProvenanceFingerprint(provenance) ==
    IF provenance = None
    THEN Sha256([provenance |-> None])
    ELSE Sha256(CanonicalizeProvenance(provenance))

SourceContextIds(provenance) ==
    IF provenance = None THEN Sorted(<< >>) ELSE Sorted(provenance.context_ids)

\* MUTANT of ActionLabel: the arguments are left out of the binding.
ActionLabelWithoutArguments(call) == [tool_name |-> call.tool_name]

ActionLabel(call) ==
    [tool_name |-> call.tool_name, arguments |-> call.arguments]

CanonicalActionPayload(request, call, riskLevel) ==
    [user_id                |-> request.user_id,
     tenant_id              |-> request.tenant_id,
     tool_name              |-> call.tool_name,
     target                 |-> call.target,
     action                 |-> ActionLabel(call),
     risk_level             |-> riskLevel,
     source_context_ids     |-> SourceContextIds(call.provenance),
     provenance_fingerprint |-> ComputeProvenanceFingerprint(call.provenance)]

ComputeActionFingerprint(request, call, riskLevel) ==
    Sha256(CanonicalActionPayload(request, call, riskLevel))

\* create_approval_token, through build_approval_fingerprint.  `used` is set
\* once, to False: no code updates the token object itself.
CreateApprovalToken(approvalId, request, call, toolPolicy, ttl, now) ==
    LET payload == CanonicalActionPayload(request, call, toolPolicy.risk_level)
    IN  [approval_id            |-> approvalId,
         expires_at             |-> now + ttl,
         used                   |-> FALSE,
         user_id                |-> payload.user_id,
         tenant_id              |-> payload.tenant_id,
         tool_name              |-> payload.tool_name,
         target                 |-> payload.target,
         risk_level             |-> payload.risk_level,
         source_context_ids     |-> payload.source_context_ids,
         provenance_fingerprint |-> payload.provenance_fingerprint,
         action_fingerprint     |-> Sha256(payload)]

IsApprovalTokenExpired(token, now) == now > token.expires_at

\* MUTANT of IsApprovalTokenUsed: only the token's own flag is consulted.
RegistryIgnored(approvalId, used) == FALSE

IsApprovalTokenUsed(approvalId, used) == approvalId \in used

\* The reason verify_approval_token returns: the first check that fails.
VerifyApprovalToken(token, request, call, riskLevel, used, now) ==
    IF token.used \/ IsApprovalTokenUsed(token.approval_id, used)
    THEN "approval_token_reused"
    ELSE IF IsApprovalTokenExpired(token, now)
    THEN "approval_token_expired"
    ELSE IF token.user_id # request.user_id
    THEN "approval_token_user_mismatch"
    ELSE IF token.tenant_id # request.tenant_id
    THEN "approval_token_tenant_mismatch"
    ELSE IF token.tool_name # call.tool_name
    THEN "approval_token_tool_mismatch"
    ELSE IF token.target # call.target
    THEN "approval_token_target_mismatch"
    ELSE IF token.risk_level # riskLevel
    THEN "approval_token_risk_mismatch"
    ELSE IF token.source_context_ids # SourceContextIds(call.provenance)
    THEN "approval_token_context_mismatch"
    ELSE IF token.provenance_fingerprint
              # ComputeProvenanceFingerprint(call.provenance)
    THEN "approval_token_provenance_mismatch"
    ELSE IF token.action_fingerprint
              # ComputeActionFingerprint(request, call, riskLevel)
    THEN "approval_token_action_mismatch"
    ELSE "approval_token_valid"

-----------------------------------------------------------------------------
(* approval_gate.py *)

ApprovalRequired(toolPolicy) ==
    \/ toolPolicy.requires_human_approval
    \/ toolPolicy.external_effect
    \/ toolPolicy.destructive

ApprovalGateResult(allowed, reason, approvalId, decision) ==
    [allowed           |-> allowed,
     reason            |-> reason,
     approval_id       |-> approvalId,
     approval_decision |-> decision]

GateOnToken(token, request, call, riskLevel, used, now) ==
    LET reason == VerifyApprovalToken(token, request, call, riskLevel, used, now)
    IN  IF reason = "approval_token_valid"
        THEN ApprovalGateResult(TRUE, "approval_token_granted",
                                token.approval_id, "granted")
        ELSE ApprovalGateResult(FALSE, reason, token.approval_id, "denied")

\* MUTANT of EvaluateApprovalGate: the boolean flag takes precedence.
FlagBeforeToken(request, token, toolPolicy, call, requireToken, used, now) ==
    IF ~ApprovalRequired(toolPolicy)
    THEN ApprovalGateResult(TRUE, "approval_not_required", None, "not_required")
    ELSE IF request.human_approval
    THEN ApprovalGateResult(TRUE, "human_approval_granted", None, "granted")
    ELSE IF token # None
    THEN GateOnToken(token, request, call, toolPolicy.risk_level, used, now)
    ELSE ApprovalGateResult(FALSE, "approval_token_missing", None, "denied")

\* A token, or the demand for one, takes precedence over the boolean flag.
EvaluateApprovalGate(request, token, toolPolicy, call, requireToken, used, now) ==
    IF ~ApprovalRequired(toolPolicy)
    THEN ApprovalGateResult(TRUE, "approval_not_required", None, "not_required")
    ELSE IF token # None
    THEN GateOnToken(token, request, call, toolPolicy.risk_level, used, now)
    ELSE IF requireToken
    THEN ApprovalGateResult(FALSE, "approval_token_missing", None, "denied")
    ELSE IF request.human_approval
    THEN ApprovalGateResult(TRUE, "human_approval_granted", None, "granted")
    ELSE IF toolPolicy.external_effect \/ toolPolicy.destructive
    THEN ApprovalGateResult(FALSE,
            "human_approval_required_for_high_impact_action", None, "denied")
    ELSE ApprovalGateResult(FALSE,
            "human_approval_required_by_policy", None, "denied")

=============================================================================
