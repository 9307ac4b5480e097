-------------------------- MODULE AuthorityProofs --------------------------
(***************************************************************************)
(* Only permitted and approved actions are executed, on a policy no older  *)
(* than the turn, for any policy, request, model output and schedule.      *)
(*                                                                         *)
(* What is executed was up for execution when the broker had let it        *)
(* through, so the invariant says of both that they are Authorised.  That  *)
(* follows from what the broker checked (BrokerMediates, expanded in       *)
(* BrokerSound), from what the turn did before it reached the broker       *)
(* (Prepared) and from what approvers minted (Minted).                     *)
(***************************************************************************)
EXTENDS PipelineProofs

-----------------------------------------------------------------------------
(* What an allowed broker decision guarantees, for every request, token,   *)
(* policy, tool call, configuration, registry and clock.                   *)

\* A token verifies only if it is fresh, unexpired and bound to this action.
LEMMA VerifiedToken ==
    ASSUME NEW token, NEW request, NEW call, NEW riskLevel, NEW registry,
           NEW clock,
           VerifyApprovalToken(token, request, call, riskLevel, registry, clock)
              = "approval_token_valid"
    PROVE  /\ ~token.used /\ token.approval_id \notin registry
           /\ ~(clock > token.expires_at)
           /\ token.user_id = request.user_id
           /\ token.tenant_id = request.tenant_id
           /\ token.tool_name = call.tool_name /\ token.target = call.target
           /\ token.risk_level = riskLevel
           /\ token.action_fingerprint =
                 ComputeActionFingerprint(request, call, riskLevel)
BY DEF VerifyApprovalToken, IsApprovalTokenUsed, IsApprovalTokenExpired

\* The approval gate lets a call through for one of three reasons.
LEMMA GateSound ==
    ASSUME NEW request, NEW token, NEW toolPolicy, NEW call, NEW requireToken,
           NEW registry, NEW clock,
           EvaluateApprovalGate(request, token, toolPolicy, call, requireToken,
                                registry, clock).allowed
    PROVE  LET gate == EvaluateApprovalGate(request, token, toolPolicy, call,
                                            requireToken, registry, clock)
           IN  \/ ~ApprovalRequired(toolPolicy) /\ gate.approval_id = None
               \/ /\ token # None
                  /\ gate.approval_id = token.approval_id
                  /\ VerifyApprovalToken(token, request, call,
                        toolPolicy.risk_level, registry, clock) = "approval_token_valid"
               \/ /\ token = None /\ gate.approval_id = None
                  /\ ~requireToken /\ request.human_approval
<1> DEFINE gate == EvaluateApprovalGate(request, token, toolPolicy, call,
                                        requireToken, registry, clock)
           reason == VerifyApprovalToken(token, request, call,
                                         toolPolicy.risk_level, registry, clock)
<1>1. CASE ~ApprovalRequired(toolPolicy)
  BY <1>1 DEF EvaluateApprovalGate, ApprovalGateResult
<1>2. CASE ApprovalRequired(toolPolicy) /\ token # None
  <2>1. gate = GateOnToken(token, request, call, toolPolicy.risk_level,
                           registry, clock)
    BY <1>2 DEF EvaluateApprovalGate
  <2>2. reason = "approval_token_valid" /\ gate.approval_id = token.approval_id
    <3> HIDE DEF gate, reason
    <3>1. gate = IF reason = "approval_token_valid"
                 THEN ApprovalGateResult(TRUE, "approval_token_granted",
                                         token.approval_id, "granted")
                 ELSE ApprovalGateResult(FALSE, reason, token.approval_id, "denied")
      BY <2>1 DEF GateOnToken, reason
    <3>2. gate.allowed
      BY DEF gate
    <3>3. QED
      BY <3>1, <3>2 DEF ApprovalGateResult
  <2>3. QED
    BY <1>2, <2>2
<1>3. CASE ApprovalRequired(toolPolicy) /\ token = None
  BY <1>3 DEF EvaluateApprovalGate, ApprovalGateResult
<1>4. QED
  BY <1>1, <1>2, <1>3

\* The policy engine allows a call only if every check of evaluate_policy
\* passed.
LEMMA PolicySound ==
    ASSUME NEW policy, NEW request, NEW call,
           EvaluatePolicy(policy, request, call).allowed
    PROVE  LET tool == policy.tools[call.tool_name]
           IN  /\ call.tool_name \in DOMAIN policy.tools
               /\ tool.enabled
               /\ request.role \in tool.allowed_roles
               /\ ~CrossTenant(policy, request, call)
               /\ policy.default_decision # "allow"
               /\ ValidateProvenanceForTool(tool, call.provenance)
                     \in ProvenanceOkReasons
<1> DEFINE tool == policy.tools[call.tool_name]
<1>1. call.tool_name \in DOMAIN policy.tools
  BY DEF EvaluatePolicy, PolicyDecision
<1>2. EvaluateToolPolicy(policy, tool, request, call).allowed
  BY <1>1 DEF EvaluatePolicy
<1>3. QED
  <2> HIDE DEF tool
  <2>1. /\ tool.enabled
        /\ request.role \in tool.allowed_roles
        /\ ~CrossTenant(policy, request, call)
        /\ policy.default_decision # "allow"
        /\ ValidateProvenanceForTool(tool, call.provenance) \in ProvenanceOkReasons
    BY <1>2 DEF EvaluateToolPolicy, PolicyDecision
  <2>2. QED
    BY <1>1, <2>1 DEF tool

\* Accepted provenance exists, is not untrusted, and comes from the model or
\* the system, or from a reviewer for a call without high impact.
LEMMA ProvenanceSound ==
    ASSUME NEW tool, NEW prov,
           ValidateProvenanceForTool(tool, prov) \in ProvenanceOkReasons
    PROVE  /\ prov # None
           /\ prov.trust # "untrusted"
           /\ \/ prov.source \in {"model", "system"}
              \/ /\ prov.source = "internal_reviewed"
                 /\ ~tool.external_effect /\ ~tool.destructive
BY DEF ValidateProvenanceForTool, ProvenanceOkReasons

\* Provenance that passes the integrity check is signed with the key where
\* signatures are required.
LEMMA IntegritySound ==
    ASSUME NEW prov, NEW key, NEW required,
           VerifyProvenanceIntegrity(prov, key, required) \in IntegrityOkReasons
    PROVE  required => /\ prov.signature # None
                       /\ prov.signature = ComputeProvenanceHmac(prov, key)
BY DEF VerifyProvenanceIntegrity, VerifyProvenanceSignature, IntegrityOkReasons

\* Complete mediation: the broker allows a call only if the schema check, the
\* provenance integrity check, the policy engine and the approval gate each
\* allow it, and its decision names the approval the gate granted.
LEMMA BrokerMediates ==
    ASSUME NEW request, NEW token, NEW policy, NEW call, NEW cfg, NEW registry,
           NEW clock,
           BrokerToolRequest(request, token, policy, call, cfg, registry, clock).allowed
    PROVE  LET decision == BrokerToolRequest(request, token, policy, call, cfg,
                                             registry, clock)
               gate == EvaluateApprovalGate(request, token,
                          policy.tools[call.tool_name], call,
                          cfg.require_approval_token, registry, clock)
           IN  /\ call.tool_name \in DOMAIN ToolSchemas
               /\ ArgumentsValid(ToolSchemas[call.tool_name], call.arguments)
               /\ VerifyProvenanceIntegrity(call.provenance, HmacKey(cfg),
                     cfg.require_provenance_signature) \in IntegrityOkReasons
               /\ EvaluatePolicy(policy, request, call).allowed
               /\ gate.allowed
               /\ decision.approval_id = gate.approval_id
<1> DEFINE decision == BrokerToolRequest(request, token, policy, call, cfg,
                                         registry, clock)
           schema == ValidateToolCallPayload(call)
           integrity == VerifyProvenanceIntegrity(call.provenance, HmacKey(cfg),
                           cfg.require_provenance_signature)
           verdict == EvaluatePolicy(policy, request, call)
           gate == EvaluateApprovalGate(request, token,
                      policy.tools[call.tool_name], call,
                      cfg.require_approval_token, registry, clock)
<1>1. decision =
        IF schema # "schema_valid"
        THEN BrokerDecision(FALSE, schema, FALSE, None, None, None)
        ELSE IF integrity \notin IntegrityOkReasons
        THEN BrokerDecision(FALSE, integrity, TRUE, None, None, None)
        ELSE IF ~verdict.allowed
        THEN BrokerDecision(FALSE, verdict.reason, TRUE, verdict, None, None)
        ELSE IF ~gate.allowed
        THEN BrokerDecision(FALSE, gate.reason, TRUE, verdict,
                            gate.approval_id, gate.approval_decision)
        ELSE BrokerDecision(TRUE, verdict.reason, TRUE, verdict,
                            gate.approval_id, gate.approval_decision)
  BY DEF BrokerToolRequest
<1>2. decision.allowed
  OBVIOUS
<1> HIDE DEF decision, schema, integrity, verdict, gate
<1>3. /\ schema = "schema_valid" /\ integrity \in IntegrityOkReasons
      /\ verdict.allowed /\ gate.allowed
      /\ decision.approval_id = gate.approval_id
  BY <1>1, <1>2 DEF BrokerDecision
<1>4. /\ call.tool_name \in DOMAIN ToolSchemas
      /\ ArgumentsValid(ToolSchemas[call.tool_name], call.arguments)
  BY <1>3 DEF schema, ValidateToolCallPayload
<1>5. QED
  BY <1>3, <1>4 DEF decision, integrity, verdict, gate

-----------------------------------------------------------------------------
(* The invariant *)

\* Permitted, approved, with a held token, on a policy the file has held
\* since the turn began.
Authorised(e) ==
    /\ Permitted(e) /\ Covered(e)
    /\ e.token \in TokensHeld \cup {None}
    /\ e.version \in 1 .. Len(policy_log)
    /\ e.begun.version \in Nat /\ e.version >= e.begun.version

\* A token is bound to the action its approver saw.
Minted ==
    \A i \in DOMAIN approvals :
        LET a == approvals[i]
        IN  /\ a.token.approval_id = i
            /\ a.token.expires_at \in Nat
            /\ a.token.action_fingerprint =
                  ComputeActionFingerprint(a.request, a.call, a.token.risk_level)

\* A turn reads the policy after it began and reaches the broker only with
\* text the filter passed.
PreparedFrame(f) ==
    /\ f.pc # "idle" => /\ f.begun.version \in Nat
                        /\ f.begun.version <= Len(policy_log)
    /\ f.path = "protected" /\ f.pc \notin {"idle", "load"} =>
          f.version >= f.begun.version
    /\ f.pc = "broker" => Filtered(f).allowed

Prepared == \A w \in Workers : PreparedFrame(worker[w])

\* What workers are about to execute.
Upcoming == {Execution(w) : w \in {v \in Workers : worker[v].pc = "simulate"}}

AuthorityInv ==
    /\ TypeOK /\ Minted /\ Prepared
    /\ \A e \in executed \cup Upcoming : Authorised(e)

-----------------------------------------------------------------------------
(* What a token binds *)

\* Equal action fingerprints are fingerprints of one action: same user,
\* tenant, tool, arguments, target, provenance and risk level.
LEMMA FingerprintBinds ==
    ASSUME NEW r1, NEW c1, NEW k1, NEW r2, NEW c2, NEW k2,
           ComputeActionFingerprint(r1, c1, k1)
              = ComputeActionFingerprint(r2, c2, k2)
    PROVE  /\ r1.user_id = r2.user_id /\ r1.tenant_id = r2.tenant_id
           /\ c1.tool_name = c2.tool_name /\ c1.arguments = c2.arguments
           /\ c1.target = c2.target /\ k1 = k2
           /\ ComputeProvenanceFingerprint(c1.provenance)
                 = ComputeProvenanceFingerprint(c2.provenance)
<1> DEFINE p1 == CanonicalActionPayload(r1, c1, k1)
           p2 == CanonicalActionPayload(r2, c2, k2)
<1>1. p1 = p2
  <2>1. Sha256(p1) = Sha256(p2)
    BY DEF ComputeActionFingerprint
  <2> HIDE DEF p1, p2
  <2>2. Sha256(p1).sha256 = Sha256(p2).sha256
    BY <2>1
  <2>3. QED
    BY <2>2 DEF Sha256
<1>2. /\ p1.user_id = p2.user_id /\ p1.tenant_id = p2.tenant_id
      /\ p1.tool_name = p2.tool_name /\ p1.target = p2.target
      /\ p1.risk_level = p2.risk_level /\ p1.action = p2.action
      /\ p1.provenance_fingerprint = p2.provenance_fingerprint
  <2> HIDE DEF p1, p2
  <2>1. QED
    BY <1>1
<1>3. ActionLabel(c1).arguments = ActionLabel(c2).arguments
  BY <1>2 DEF CanonicalActionPayload
<1>4. QED
  BY <1>2, <1>3 DEF CanonicalActionPayload, ActionLabel

\* What broker_tool_request guarantees of a call it allows, for any request,
\* token, policy, configuration, registry and clock: its arguments fit the
\* tool's schema; the policy lists and enables the tool for the caller's role
\* and, where tenants are isolated, for its tenant only; its provenance may
\* authorise it and is signed where signatures are demanded; and where the tool
\* needs approval, the token is unspent, unexpired and made for exactly this
\* action, or there is none, none is demanded and the flag is set.
THEOREM BrokerSound ==
    ASSUME NEW request, NEW token, NEW policy, NEW call, NEW cfg, NEW registry,
           NEW clock,
           BrokerToolRequest(request, token, policy, call, cfg, registry, clock).allowed
    PROVE  LET schema == ToolSchemas[call.tool_name]
               tool == policy.tools[call.tool_name]
               prov == call.provenance
           IN  /\ call.tool_name \in DOMAIN ToolSchemas
               /\ schema.required \subseteq call.arguments.typed
               /\ call.arguments.untyped \cap (schema.required \cup schema.optional) = {}
               /\ call.tool_name \in DOMAIN policy.tools
               /\ policy.default_decision # "allow"
               /\ tool.enabled /\ request.role \in tool.allowed_roles
               /\ policy.tenant_isolation = "strict" => call.target = request.tenant_id
               /\ prov # None /\ prov.trust # "untrusted"
               /\ \/ prov.source \in {"model", "system"}
                  \/ /\ prov.source = "internal_reviewed"
                     /\ ~tool.external_effect /\ ~tool.destructive
               /\ cfg.require_provenance_signature =>
                     /\ prov.signature # None
                     /\ prov.signature = ComputeProvenanceHmac(prov, HmacKey(cfg))
               /\ /\ \/ tool.requires_human_approval
                     \/ tool.external_effect \/ tool.destructive
                  /\ token = None
                  => request.human_approval /\ ~cfg.require_approval_token
               /\ /\ \/ tool.requires_human_approval
                     \/ tool.external_effect \/ tool.destructive
                  /\ token # None
                  => /\ ~token.used /\ token.approval_id \notin registry
                     /\ ~(clock > token.expires_at)
                     /\ \A seen, shown, risk :
                           token.action_fingerprint
                              = ComputeActionFingerprint(seen, shown, risk) =>
                           /\ seen.user_id = request.user_id
                           /\ seen.tenant_id = request.tenant_id
                           /\ shown.tool_name = call.tool_name
                           /\ shown.arguments = call.arguments
                           /\ shown.target = call.target
                           /\ ComputeProvenanceFingerprint(shown.provenance)
                                 = ComputeProvenanceFingerprint(prov)
                           /\ risk = tool.risk_level
<1> DEFINE schema == ToolSchemas[call.tool_name]
           tool == policy.tools[call.tool_name]
           prov == call.provenance
           gate == EvaluateApprovalGate(request, token, tool, call,
                      cfg.require_approval_token, registry, clock)
<1>1. /\ call.tool_name \in DOMAIN ToolSchemas
      /\ ArgumentsValid(schema, call.arguments)
      /\ VerifyProvenanceIntegrity(prov, HmacKey(cfg),
            cfg.require_provenance_signature) \in IntegrityOkReasons
      /\ EvaluatePolicy(policy, request, call).allowed
      /\ gate.allowed
  BY BrokerMediates
<1>2. /\ schema.required \subseteq call.arguments.typed
      /\ call.arguments.untyped \cap (schema.required \cup schema.optional) = {}
  BY <1>1 DEF ArgumentsValid
<1>3. /\ call.tool_name \in DOMAIN policy.tools
      /\ policy.default_decision # "allow"
      /\ tool.enabled /\ request.role \in tool.allowed_roles
      /\ ~CrossTenant(policy, request, call)
      /\ ValidateProvenanceForTool(tool, prov) \in ProvenanceOkReasons
  BY <1>1, PolicySound
<1> HIDE DEF schema, tool, prov
<1>4. policy.tenant_isolation = "strict" => call.target = request.tenant_id
  BY <1>3 DEF CrossTenant
<1>5. /\ prov # None /\ prov.trust # "untrusted"
      /\ \/ prov.source \in {"model", "system"}
         \/ /\ prov.source = "internal_reviewed"
            /\ ~tool.external_effect /\ ~tool.destructive
  BY <1>3, ProvenanceSound
<1>6. cfg.require_provenance_signature =>
         /\ prov.signature # None
         /\ prov.signature = ComputeProvenanceHmac(prov, HmacKey(cfg))
  BY <1>1, IntegritySound
<1>7. \/ ~ApprovalRequired(tool)
      \/ /\ token # None
         /\ VerifyApprovalToken(token, request, call, tool.risk_level, registry,
                                clock) = "approval_token_valid"
      \/ /\ token = None
         /\ ~cfg.require_approval_token /\ request.human_approval
  BY <1>1, GateSound
<1>8. ASSUME ApprovalRequired(tool), token # None
      PROVE  /\ ~token.used /\ token.approval_id \notin registry
             /\ ~(clock > token.expires_at)
             /\ token.action_fingerprint =
                   ComputeActionFingerprint(request, call, tool.risk_level)
  BY <1>7, <1>8, VerifiedToken
<1>9. ASSUME ApprovalRequired(tool), token # None, NEW seen, NEW shown, NEW risk,
             token.action_fingerprint = ComputeActionFingerprint(seen, shown, risk)
      PROVE  /\ seen.user_id = request.user_id
             /\ seen.tenant_id = request.tenant_id
             /\ shown.tool_name = call.tool_name
             /\ shown.arguments = call.arguments
             /\ shown.target = call.target
             /\ ComputeProvenanceFingerprint(shown.provenance)
                   = ComputeProvenanceFingerprint(call.provenance)
             /\ risk = tool.risk_level
  BY <1>8, <1>9, FingerprintBinds
<1>10. ApprovalRequired(tool) <=>
          \/ tool.requires_human_approval
          \/ tool.external_effect \/ tool.destructive
  BY DEF ApprovalRequired
<1>11. /\ ApprovalRequired(tool) /\ token = None
          => request.human_approval /\ ~cfg.require_approval_token
       /\ ApprovalRequired(tool) /\ token # None
          => /\ ~token.used /\ token.approval_id \notin registry
             /\ ~(clock > token.expires_at)
  BY <1>7, <1>8
<1> HIDE DEF gate
<1>12. QED
  BY <1>1, <1>2, <1>3, <1>4, <1>5, <1>6, <1>9, <1>10, <1>11, Zenon
     DEF schema, tool, prov

\* A frame's token is the one of the approval whose id it carries.
LEMMA HeldToken ==
    ASSUME TypeOK, NEW token \in TokensHeld
    PROVE  /\ token.approval_id \in DOMAIN approvals
           /\ approvals[token.approval_id].token = token
BY DEF TypeOK, StoreOK, TokensHeld

-----------------------------------------------------------------------------
(* The broker authorises *)

\* A policy isolates tenants unless its file sets the key to something else.
LEMMA IsolatedByDefault ==
    ASSUME NEW file
    PROVE  \/ LoadPolicy(file).tenant_isolation = "strict"
           \/ /\ "tenant_isolation" \in DOMAIN file.keys
              /\ file.keys.tenant_isolation # "strict"
BY DEF LoadPolicy, DenyAllPolicy, PolicyDocument, Get

\* What the broker lets through is permitted.
LEMMA BrokerPermits ==
    ASSUME AuthorityInv, NEW w \in Workers, worker[w].pc = "broker",
           Decide(worker[w]).allowed,
           NEW x, x.request = worker[w].request, x.version = worker[w].version,
           x.model_turn = worker[w].model_turn
    PROVE  Permitted(x)
<1> DEFINE f == worker[w]
           policy == PolicyOf(x)
           call == ToolOf(x)
           tool == policy.tools[call.tool_name]
<1>1. BrokerToolRequest(f.request, f.token, policy, call, config, used, now).allowed
  BY DEF Decide, PolicyOf, ToolOf
<1>2. Filtered([request |-> x.request, model_turn |-> x.model_turn]).allowed
  BY DEF AuthorityInv, Prepared, PreparedFrame, Filtered, FilterContext
<1> HIDE DEF policy, call
<1>3. /\ call.tool_name \in DOMAIN ToolSchemas
      /\ VerifyProvenanceIntegrity(call.provenance, HmacKey(config),
            config.require_provenance_signature) \in IntegrityOkReasons
      /\ EvaluatePolicy(policy, f.request, call).allowed
  BY <1>1, BrokerMediates
<1>4. /\ call.tool_name \in DOMAIN policy.tools
      /\ tool.enabled
      /\ f.request.role \in tool.allowed_roles
      /\ ~CrossTenant(policy, f.request, call)
      /\ ValidateProvenanceForTool(tool, call.provenance) \in ProvenanceOkReasons
  BY <1>3, PolicySound
<1>5. \/ call.target = f.request.tenant_id
      \/ /\ "tenant_isolation" \in DOMAIN policy_log[x.version].keys
         /\ policy_log[x.version].keys.tenant_isolation # "strict"
  BY <1>4, IsolatedByDefault DEF CrossTenant, policy, PolicyOf
<1>6. config.require_provenance_signature =>
         call.provenance.signature
            = ComputeProvenanceHmac(call.provenance, HmacKey(config))
  BY <1>3, IntegritySound
<1> HIDE DEF tool
<1>7. /\ call.provenance # None
      /\ call.provenance.trust # "untrusted"
      /\ \/ call.provenance.source \in {"model", "system"}
         \/ /\ call.provenance.source = "internal_reviewed"
            /\ ~tool.external_effect /\ ~tool.destructive
  BY <1>4, ProvenanceSound
<1>8. QED
  BY <1>2, <1>3, <1>4, <1>5, <1>6, <1>7 DEF Permitted, policy, call, tool

\* What the broker lets through is covered by an approval where one is needed.
LEMMA BrokerCovers ==
    ASSUME AuthorityInv, NEW w \in Workers, worker[w].pc = "broker",
           Decide(worker[w]).allowed,
           NEW x, x.request = worker[w].request, x.version = worker[w].version,
           x.model_turn = worker[w].model_turn, x.token = worker[w].token,
           x.checked_at = now, x.approval_id = Decide(worker[w]).approval_id
    PROVE  Covered(x)
<1> DEFINE f == worker[w]
           policy == PolicyOf(x)
           call == ToolOf(x)
           tool == policy.tools[call.tool_name]
           gate == EvaluateApprovalGate(f.request, f.token, tool, call,
                      config.require_approval_token, used, now)
<1>1. /\ BrokerToolRequest(f.request, f.token, policy, call, config, used, now).allowed
      /\ x.approval_id = BrokerToolRequest(f.request, f.token, policy, call,
                                           config, used, now).approval_id
  BY DEF Decide, PolicyOf, ToolOf
<1> HIDE DEF policy, call
<1>2. gate.allowed /\ x.approval_id = gate.approval_id
  BY <1>1, BrokerMediates
<1> HIDE DEF tool
<1>3. \/ ~ApprovalRequired(tool)
      \/ /\ f.token # None
         /\ gate.approval_id = f.token.approval_id
         /\ VerifyApprovalToken(f.token, f.request, call, tool.risk_level, used,
                                now) = "approval_token_valid"
      \/ /\ f.token = None
         /\ ~config.require_approval_token /\ f.request.human_approval
  BY <1>2, GateSound
<1> HIDE DEF gate
<1>4. CASE ~ApprovalRequired(tool)
  BY <1>4 DEF Covered, policy, call, tool
<1>5. CASE f.token = None /\ ~config.require_approval_token /\ f.request.human_approval
  BY <1>5 DEF Covered
<1>6. CASE /\ f.token # None
           /\ gate.approval_id = f.token.approval_id
           /\ VerifyApprovalToken(f.token, f.request, call, tool.risk_level, used,
                                  now) = "approval_token_valid"
  <2> DEFINE approval == approvals[f.token.approval_id]
  <2>1. /\ ~(now > f.token.expires_at)
        /\ f.token.risk_level = tool.risk_level
        /\ f.token.action_fingerprint =
              ComputeActionFingerprint(f.request, call, tool.risk_level)
    BY <1>6, VerifiedToken
  <2>2. f.token \in TokensHeld /\ TypeOK /\ now \in Nat
    BY <1>6 DEF AuthorityInv, TypeOK, StoreOK, WorkersOK, FrameOK
  <2>3. f.token.approval_id \in DOMAIN approvals /\ approval.token = f.token
    BY <2>2, HeldToken
  <2>4. /\ f.token.expires_at \in Nat
        /\ f.token.action_fingerprint =
              ComputeActionFingerprint(approval.request, approval.call,
                                       f.token.risk_level)
    BY <2>3 DEF AuthorityInv, Minted
  <2>5. now <= f.token.expires_at
    BY <2>1, <2>2, <2>4
  <2>6. ComputeActionFingerprint(approval.request, approval.call, f.token.risk_level)
           = ComputeActionFingerprint(f.request, call, tool.risk_level)
    BY <2>1, <2>4
  <2> HIDE DEF approval
  <2>7. /\ approval.request.user_id = f.request.user_id
        /\ approval.request.tenant_id = f.request.tenant_id
        /\ approval.call.tool_name = call.tool_name
        /\ approval.call.arguments = call.arguments
        /\ approval.call.target = call.target
        /\ ComputeProvenanceFingerprint(approval.call.provenance)
              = ComputeProvenanceFingerprint(call.provenance)
    BY ONLY <2>6, FingerprintBinds
  <2>8. SameAction(approval, x)
    BY <2>1, <2>3, <2>7 DEF SameAction, policy, call, tool
  <2>9. QED
    BY <1>2, <1>6, <2>3, <2>5, <2>8 DEF Covered, approval
<1>7. QED
  BY <1>3, <1>4, <1>5, <1>6

-----------------------------------------------------------------------------
(* The steps *)

\* The policy file's past and the approvals granted are never rewritten.
StoresGrow ==
    /\ config' = config
    /\ Len(policy_log') \in Nat /\ Len(policy_log) <= Len(policy_log')
    /\ \A i \in 1 .. Len(policy_log) : policy_log'[i] = policy_log[i]
    /\ DOMAIN approvals \subseteq DOMAIN approvals'
    /\ \A i \in DOMAIN approvals : approvals'[i] = approvals[i]

\* What was authorised stays authorised.
LEMMA AuthorisedStable ==
    ASSUME TypeOK, StoresGrow, NEW e, Authorised(e) PROVE Authorised(e)'
<1>1. e.version \in 1 .. Len(policy_log) /\ Len(policy_log) \in Nat
  BY DEF Authorised, TypeOK, StoreOK
<1>2. PolicyOf(e)' = PolicyOf(e) /\ ToolOf(e)' = ToolOf(e)
  BY <1>1 DEF StoresGrow, PolicyOf, ToolOf
<1>3. Permitted(e)'
  BY <1>2 DEF Authorised, Permitted, StoresGrow
<1>4. e.token # None => /\ e.token.approval_id \in DOMAIN approvals
                        /\ e.token \in TokensHeld
  BY HeldToken DEF Authorised
<1>5. e.token # None => approvals'[e.token.approval_id] = approvals[e.token.approval_id]
  BY <1>4 DEF StoresGrow
<1>6. Covered(e)'
  BY <1>2, <1>5 DEF Authorised, Covered, SameAction, StoresGrow
<1>7. TokensHeld \subseteq TokensHeld'
  BY DEF TokensHeld, StoresGrow
<1>8. QED
  BY <1>1, <1>3, <1>6, <1>7 DEF Authorised, StoresGrow

\* The stores only grow, whatever the step.
LEMMA NextGrows == ASSUME TypeOK, [Next]_vars PROVE StoresGrow
<1>1. /\ policy_log \in Seq(PolicyFiles) /\ Len(policy_log) \in Nat
      /\ IsSeq(approvals)
  BY DEF TypeOK, StoreOK
<1>2. CASE EditPolicy
  <2>1. PICK file \in PolicyFiles : policy_log' = Append(policy_log, file)
    BY <1>2 DEF EditPolicy
  <2>2. /\ Len(policy_log') = Len(policy_log) + 1
        /\ \A i \in 1 .. Len(policy_log) : policy_log'[i] = policy_log[i]
    BY <1>1, <2>1
  <2>3. QED
    BY <1>1, <1>2, <2>2 DEF EditPolicy, StoresGrow
<1>3. CASE MintToken
  <2>1. PICK a : approvals' = Append(approvals, a)
    BY <1>3 DEF MintToken
  <2>2. QED
    BY <1>1, <1>3, <2>1, AppendSeq DEF MintToken, StoresGrow
<1>4. CASE UNCHANGED <<config, policy_log, approvals>>
  BY <1>1, <1>4 DEF StoresGrow
<1>5. EditPolicy \/ MintToken \/ UNCHANGED <<config, policy_log, approvals>>
  BY DEF Next, vars, Tick, Restart, Quiet, TurnStep, BeginTurn, LoadPolicyStep,
     LoadPolicyFails, GenerateProtected, GenerateVulnerable, BrokerStep,
     Simulate, MarkUsed, WriteAudit, WriteAuditFails, Return
<1>6. QED
  BY <1>2, <1>3, <1>4, <1>5

\* Tokens are minted bound to the action shown.
LEMMA NextMinted == ASSUME AuthorityInv, [Next]_vars PROVE Minted'
<1>1. TypeOK' /\ TypeOK
  BY NextTyped DEF AuthorityInv
<1>2. CASE MintToken
  <2> DEFINE tools == LoadPolicy(CurrentPolicyFile).tools
  <2>1. PICK a \in Approvable :
           approvals' = Append(approvals,
              [token |-> CreateApprovalToken(Len(approvals) + 1, a.request,
                            a.call, tools[a.call.tool_name], TTL, now),
               request |-> a.request, call |-> a.call])
    BY <1>2 DEF MintToken
  <2>2. PICK risk : risk = tools[a.call.tool_name].risk_level
    OBVIOUS
  <2> HIDE DEF tools
  <2>3. /\ DOMAIN approvals' = DOMAIN approvals \cup {Len(approvals) + 1}
        /\ \A i \in DOMAIN approvals : approvals'[i] = approvals[i]
        /\ approvals'[Len(approvals) + 1] =
              [token |-> CreateApprovalToken(Len(approvals) + 1, a.request,
                            a.call, tools[a.call.tool_name], TTL, now),
               request |-> a.request, call |-> a.call]
    BY <1>1, <2>1, AppendSeq DEF TypeOK, StoreOK
  <2>4. LET n == approvals'[Len(approvals) + 1]
        IN  /\ n.request = a.request /\ n.call = a.call
            /\ n.token.risk_level = risk
            /\ n.token.action_fingerprint =
                  ComputeActionFingerprint(a.request, a.call, risk)
    BY <2>2, <2>3 DEF CreateApprovalToken, ComputeActionFingerprint,
       CanonicalActionPayload
  <2>5. QED
    BY <1>1, <2>3, <2>4 DEF AuthorityInv, Minted, TypeOK, StoreOK
<1>3. CASE UNCHANGED approvals
  BY <1>3 DEF AuthorityInv, Minted
<1>4. MintToken \/ UNCHANGED approvals
  BY DEF Next, vars, Tick, EditPolicy, Restart, Quiet, TurnStep, BeginTurn,
     LoadPolicyStep, LoadPolicyFails, GenerateProtected, GenerateVulnerable,
     BrokerStep, Simulate, MarkUsed, WriteAudit, WriteAuditFails, Return
<1>5. QED
  BY <1>2, <1>3, <1>4

\* Only worker w moves.
Moves(w) == \A v \in Workers : v # w => worker'[v] = worker[v]

\* A turn that moves on keeps what was prepared, unless it enters the broker.
LEMMA AdvancePrepared ==
    ASSUME AuthorityInv, StoresGrow, NEW w \in Workers, Moves(w),
           worker[w].pc \notin {"idle", "load"},
           SameTurn(worker[w], worker'[w]),
           worker'[w].pc \in {"simulate", "mark", "audit", "return"}
    PROVE  Prepared'
<1>1. Len(policy_log) \in Nat
  BY DEF AuthorityInv, TypeOK, StoreOK
<1>2. QED
  BY <1>1 DEF AuthorityInv, Prepared, PreparedFrame, Moves, SameTurn, StoresGrow,
     Filtered, FilterContext

\* A worker that becomes idle needs nothing prepared.
LEMMA IdlePrepared ==
    ASSUME AuthorityInv, StoresGrow, NEW w \in Workers, Moves(w),
           worker'[w].pc = "idle"
    PROVE  Prepared'
<1>1. Len(policy_log) \in Nat
  BY DEF AuthorityInv, TypeOK, StoreOK
<1>2. QED
  BY <1>1 DEF AuthorityInv, Prepared, PreparedFrame, Moves, StoresGrow,
     Filtered, FilterContext

\* A worker that does not arrive at the execution adds nothing to execute.
LEMMA UpcomingShrinks ==
    ASSUME NEW w \in Workers, Moves(w), worker'[w].pc # "simulate",
           UNCHANGED <<executed, epoch>>
    PROVE  executed' \cup Upcoming' \subseteq executed \cup Upcoming
BY DEF Moves, Upcoming, Execution

\* Nothing new to execute: what is known is still authorised.
LEMMA StillAuthorised ==
    ASSUME AuthorityInv, StoresGrow,
           executed' \cup Upcoming' \subseteq executed \cup Upcoming
    PROVE  \A e \in executed' \cup Upcoming' : Authorised(e)'
BY AuthorisedStable DEF AuthorityInv

\* Initially nothing is up for execution.
LEMMA InitAuthorityInv == Init => AuthorityInv
<1> SUFFICES ASSUME Init PROVE AuthorityInv
  OBVIOUS
<1>1. TypeOK
  BY InitTypeOK
<1>2. /\ executed = {} /\ approvals = << >>
      /\ \A w \in Workers : worker[w].pc = "idle"
  BY DEF Init, IdleFrame
<1>3. QED
  BY <1>1, <1>2 DEF AuthorityInv, Minted, Prepared, PreparedFrame, Upcoming

\* The part of the invariant that concerns turns.
TurnsAuthorised ==
    Prepared /\ \A e \in executed \cup Upcoming : Authorised(e)

\* The environment authorises nothing and revokes nothing already decided.
LEMMA EnvironmentAuthority ==
    ASSUME AuthorityInv, StoresGrow,
           \/ UNCHANGED <<worker, executed, epoch>>
           \/ Restart
    PROVE  TurnsAuthorised'
<1>1. Len(policy_log) \in Nat
  BY DEF AuthorityInv, TypeOK, StoreOK
<1>2. CASE UNCHANGED <<worker, executed, epoch>>
  <2>1. Prepared'
    BY <1>1, <1>2 DEF AuthorityInv, Prepared, PreparedFrame, StoresGrow,
       Filtered, FilterContext
  <2>2. executed' \cup Upcoming' \subseteq executed \cup Upcoming
    BY <1>2 DEF Upcoming, Execution
  <2>3. QED
    BY <2>1, <2>2, StillAuthorised DEF TurnsAuthorised
<1>3. CASE Restart
  <2>1. \A w \in Workers : worker'[w].pc = "idle"
    BY <1>3 DEF Restart, IdleFrame
  <2>2. Prepared'
    BY <2>1 DEF Prepared, PreparedFrame
  <2>3. executed' \cup Upcoming' \subseteq executed \cup Upcoming
    BY <1>3, <2>1 DEF Upcoming, Restart
  <2>4. QED
    BY <2>2, <2>3, StillAuthorised DEF TurnsAuthorised
<1>4. QED
  BY <1>2, <1>3

\* A turn that ends puts nothing up for execution.
LEMMA FinishAuthority ==
    ASSUME AuthorityInv, StoresGrow, NEW w \in Workers, NEW final,
           Finish(w, final), UNCHANGED <<executed, epoch>>
    PROVE  TurnsAuthorised'
<1>1. Moves(w) /\ worker'[w].pc = "idle"
  BY DEF Finish, Goto, Moves, IdleFrame, AuthorityInv, TypeOK, WorkersOK
<1>2. QED
  BY <1>1, IdlePrepared, UpcomingShrinks, StillAuthorised DEF TurnsAuthorised

\* A turn begins, and reads the policy, no earlier than the version it records.
LEMMA BeginAuthority ==
    ASSUME AuthorityInv, StoresGrow, NEW w \in Workers,
           BeginTurn(w) \/ LoadPolicyStep(w)
    PROVE  TurnsAuthorised'
<1>1. /\ DOMAIN worker = Workers /\ DOMAIN worker[w] = FrameFields
      /\ Len(policy_log) \in Nat
  BY DEF AuthorityInv, TypeOK, StoreOK, WorkersOK, FrameOK
<1>2. CASE BeginTurn(w)
  <2>1. PICK request \in Requests, token \in TokensHeld \cup {None}, path \in Paths :
           Goto(w, [IdleFrame EXCEPT
               !.pc = IF path = "protected" THEN "load" ELSE "generate",
               !.turn = Len(outcome) + 1,
               !.path = path, !.request = request, !.token = token,
               !.begun = [version |-> Len(policy_log),
                          ended   |-> {t \in Turns : Ended(t)}]])
    BY <1>2 DEF BeginTurn
  <2>2. /\ Moves(w)
        /\ worker'[w].begun.version = Len(policy_log)
        /\ worker'[w].path = path
        /\ worker'[w].pc = IF path = "protected" THEN "load" ELSE "generate"
    BY <1>1, <2>1 DEF Goto, Moves, IdleFrame
  <2>3. UNCHANGED <<executed, epoch>>
    BY <1>2 DEF BeginTurn
  <2>4. Prepared'
    BY <1>1, <2>2 DEF AuthorityInv, Prepared, PreparedFrame, Moves, StoresGrow,
       Filtered, FilterContext
  <2>5. QED
    BY <2>2, <2>3, <2>4, UpcomingShrinks, StillAuthorised DEF TurnsAuthorised
<1>3. CASE LoadPolicyStep(w)
  <2>1. /\ Moves(w) /\ worker[w].pc = "load"
        /\ worker'[w].begun = worker[w].begun
        /\ worker'[w].version = Len(policy_log)
        /\ worker'[w].pc = "generate"
    BY <1>1, <1>3 DEF LoadPolicyStep, At, Goto, Moves, FrameFields
  <2>2. UNCHANGED <<executed, epoch>>
    BY <1>3 DEF LoadPolicyStep
  <2>3. Prepared'
    BY <1>1, <2>1 DEF AuthorityInv, Prepared, PreparedFrame, Moves, StoresGrow,
       Filtered, FilterContext
  <2>4. QED
    BY <2>1, <2>2, <2>3, UpcomingShrinks, StillAuthorised DEF TurnsAuthorised
<1>4. QED
  BY <1>2, <1>3

\* Only text the filter allowed goes on to the broker.
LEMMA BrokerAfterFilter ==
    ASSUME TypeOK, NEW w \in Workers, GenerateProtected(w),
           worker'[w].pc = "broker"
    PROVE  (Filtered(worker[w]).allowed)'
<1> DEFINE f == worker[w]
<1>1. DOMAIN worker = Workers /\ DOMAIN f = FrameFields
  BY DEF TypeOK, WorkersOK, FrameOK
<1>2. PICK turn \in Candidates(config.llm_adapter_mode, f.request) :
         worker'[w] = IF turn = LLMAdapterError
                      THEN [f EXCEPT !.pc = "audit", !.stage = "llm_adapter"]
                      ELSE AfterOutputFilter([f EXCEPT !.model_turn = turn])
  BY <1>1 DEF GenerateProtected, Goto
<1> DEFINE g == [f EXCEPT !.model_turn = turn]
<1>3. DOMAIN g = FrameFields
  BY <1>1
<1>4. turn # LLMAdapterError
  BY <1>1, <1>2 DEF FrameFields
<1>5. worker'[w] = AfterOutputFilter(g)
  BY <1>2, <1>4
<1> HIDE DEF g
<1>6. Filtered(g).allowed /\ worker'[w] = [g EXCEPT !.pc = "broker"]
  BY <1>3, <1>5 DEF AfterOutputFilter, FrameFields
<1>7. worker'[w].request = g.request /\ worker'[w].model_turn = g.model_turn
  BY <1>3, <1>6 DEF FrameFields
<1>8. QED
  BY <1>6, <1>7 DEF Filtered, FilterContext

\* Generating takes a turn to the broker only past the filter.
LEMMA GenerateAuthority ==
    ASSUME AuthorityInv, StoresGrow, NEW w \in Workers,
           GenerateProtected(w) \/ GenerateVulnerable(w)
    PROVE  TurnsAuthorised'
<1>1. /\ DOMAIN worker = Workers /\ DOMAIN worker[w] = FrameFields
      /\ Len(policy_log) \in Nat /\ TypeOK
  BY DEF AuthorityInv, TypeOK, StoreOK, WorkersOK, FrameOK
<1>2. CASE GenerateProtected(w)
  <2>1. /\ Moves(w) /\ worker[w].pc = "generate" /\ worker[w].path = "protected"
        /\ UNCHANGED <<executed, epoch>>
    BY <1>1, <1>2 DEF GenerateProtected, At, Goto, Moves
  <2>2. /\ SameTurn(worker[w], worker'[w])
        /\ worker'[w].pc \in {"audit", "broker"}
    BY <1>1, <1>2, GenerateProtectedMoves
  <2>3. worker'[w].pc = "broker" => (Filtered(worker[w]).allowed)'
    BY <1>1, <1>2, BrokerAfterFilter
  <2>4. PreparedFrame(worker[w])'
    BY <1>1, <2>1, <2>2, <2>3 DEF AuthorityInv, Prepared, PreparedFrame,
       SameTurn, StoresGrow
  <2>5. \A v \in Workers : v # w => PreparedFrame(worker[v])'
    BY <1>1, <2>1 DEF AuthorityInv, Prepared, PreparedFrame, Moves, StoresGrow,
       Filtered, FilterContext
  <2>6. Prepared'
    BY <2>4, <2>5 DEF Prepared
  <2>7. QED
    BY <2>1, <2>2, <2>6, UpcomingShrinks, StillAuthorised DEF TurnsAuthorised
<1>3. CASE GenerateVulnerable(w)
  <2>1. worker[w].pc = "generate" /\ UNCHANGED <<executed, epoch>>
    BY <1>3 DEF GenerateVulnerable, At
  <2>2. CASE \E final : Finish(w, final)
    BY <2>1, <2>2, FinishAuthority
  <2>3. CASE \E turn : Goto(w, [worker[w] EXCEPT !.pc = "audit",
                                  !.model_turn = turn,
                                  !.stage = "vulnerable_simulation"])
    <3>1. /\ Moves(w) /\ SameTurn(worker[w], worker'[w])
          /\ worker'[w].pc = "audit"
      BY <1>1, <2>3 DEF Goto, Moves, SameTurn, FrameFields
    <3>2. QED
      BY <2>1, <3>1, AdvancePrepared, UpcomingShrinks, StillAuthorised
         DEF TurnsAuthorised
  <2>4. QED
    BY <1>3, <2>2, <2>3 DEF GenerateVulnerable
<1>4. QED
  BY <1>2, <1>3

\* The broker puts nothing up for execution that is not authorised.
LEMMA BrokerAuthority ==
    ASSUME AuthorityInv, StoresGrow, NEW w \in Workers, BrokerStep(w)
    PROVE  TurnsAuthorised'
<1> DEFINE f == worker[w]
<1>1. /\ DOMAIN worker = Workers /\ TypeOK /\ FrameOK(f) /\ f.pc = "broker"
      /\ UNCHANGED <<executed, epoch, used, now, config, policy_log, approvals>>
  BY DEF AuthorityInv, TypeOK, WorkersOK, BrokerStep, At
<1>2. Moves(w)
  BY <1>1 DEF BrokerStep, Goto, Moves
<1>3. /\ SameTurn(f, worker'[w])
      /\ worker'[w].pc \in {"simulate", "audit"}
      /\ worker'[w].decision = Decide(f)
      /\ worker'[w].checked_at = now
      /\ worker'[w].model_turn = f.model_turn
      /\ worker'[w].pc = "simulate" => Decide(f).allowed
  BY <1>1, BrokerStepMoves
<1>4. Prepared'
  BY <1>1, <1>2, <1>3, AdvancePrepared
<1>5. ASSUME NEW x, x = Execution(w)', worker'[w].pc = "simulate"
      PROVE  Authorised(x)
  <2>1. /\ x.request = f.request /\ x.version = f.version /\ x.token = f.token
        /\ x.model_turn = f.model_turn /\ x.checked_at = now
        /\ x.begun = f.begun /\ x.approval_id = Decide(f).approval_id
    BY <1>3, <1>5 DEF Execution, SameTurn
  <2>2. Decide(f).allowed
    BY <1>3, <1>5
  <2>3. Permitted(x)
    BY <1>1, <2>1, <2>2, BrokerPermits
  <2>4. Covered(x)
    BY <1>1, <2>1, <2>2, BrokerCovers
  <2>5. /\ f.version \in 0 .. Len(policy_log) /\ f.version > 0
        /\ Len(policy_log) \in Nat
        /\ f.token \in TokensHeld \cup {None}
    BY <1>1 DEF FrameOK, TypeOK, StoreOK
  <2>6. f.begun.version \in Nat /\ f.version >= f.begun.version
    BY <1>1 DEF AuthorityInv, Prepared, PreparedFrame, FrameOK
  <2>7. QED
    BY <2>1, <2>3, <2>4, <2>5, <2>6 DEF Authorised
<1>6. ASSUME NEW e \in executed' \cup Upcoming' PROVE Authorised(e)
  <2>1. CASE e \in executed \cup Upcoming
    BY <2>1 DEF AuthorityInv
  <2>2. CASE worker'[w].pc = "simulate" /\ e = Execution(w)'
    BY <1>5, <2>2
  <2>3. e \in executed \cup Upcoming
           \/ (worker'[w].pc = "simulate" /\ e = Execution(w)')
    BY <1>1, <1>2, <1>6 DEF Upcoming, Execution, Moves
  <2>4. QED
    BY <2>1, <2>2, <2>3
<1>7. \A e \in executed' \cup Upcoming' : Authorised(e)'
  BY <1>1, <1>6, AuthorisedStable
<1>8. QED
  BY <1>4, <1>7 DEF TurnsAuthorised

\* Executing takes what was up for execution; marking and auditing add nothing.
LEMMA AfterBrokerAuthority ==
    ASSUME AuthorityInv, StoresGrow, NEW w \in Workers,
           Simulate(w) \/ MarkUsed(w) \/ WriteAudit(w)
    PROVE  TurnsAuthorised'
<1> DEFINE f == worker[w]
<1>1. DOMAIN worker = Workers /\ DOMAIN f = FrameFields /\ TypeOK
  BY DEF AuthorityInv, TypeOK, WorkersOK, FrameOK
<1>2. Moves(w) /\ epoch' = epoch /\ f.pc \in {"simulate", "mark", "audit"}
  BY <1>1 DEF Simulate, MarkUsed, WriteAudit, At, Goto, Moves
<1>3. \E pc \in {"mark", "audit", "return"} : worker'[w] = [f EXCEPT !.pc = pc]
  BY <1>1, SimulateMoves, MarkUsedMoves, WriteAuditMoves
<1>4. SameTurn(f, worker'[w]) /\ worker'[w].pc \in {"mark", "audit", "return"}
  BY <1>1, <1>3 DEF SameTurn, FrameFields
<1>5. Prepared'
  BY <1>2, <1>4, AdvancePrepared
<1>6. executed' \cup Upcoming' \subseteq executed \cup Upcoming
  <2>1. CASE Simulate(w)
    <3>1. executed' = executed \cup {Execution(w)} /\ Execution(w) \in Upcoming
      BY <2>1 DEF Simulate, At, Upcoming
    <3>2. Upcoming' \subseteq Upcoming
      BY <1>2, <1>4 DEF Moves, Upcoming, Execution
    <3>3. QED
      BY <3>1, <3>2
  <2>2. CASE MarkUsed(w) \/ WriteAudit(w)
    <3>1. executed' = executed
      BY <2>2 DEF MarkUsed, WriteAudit
    <3>2. QED
      BY <1>2, <1>4, <3>1, UpcomingShrinks
  <2>3. QED
    BY <2>1, <2>2
<1>7. QED
  BY <1>5, <1>6, StillAuthorised DEF TurnsAuthorised

-----------------------------------------------------------------------------
(* The theorems *)

\* The invariant is inductive.
LEMMA NextAuthorityInv == AuthorityInv /\ [Next]_vars => AuthorityInv'
<1> SUFFICES ASSUME AuthorityInv, [Next]_vars PROVE AuthorityInv'
  OBVIOUS
<1>1. TypeOK' /\ Minted' /\ StoresGrow
  BY NextTyped, NextMinted, NextGrows DEF AuthorityInv
<1>2. CASE UNCHANGED vars \/ Tick \/ EditPolicy \/ MintToken \/ Restart \/ Quiet
  <2>1. UNCHANGED <<worker, executed, epoch>> \/ Restart
    BY <1>2 DEF vars, Tick, EditPolicy, MintToken, Quiet
  <2>2. QED
    BY <1>1, <2>1, EnvironmentAuthority DEF AuthorityInv, TurnsAuthorised
<1>3. ASSUME NEW w \in Workers, BeginTurn(w) \/ TurnStep(w) PROVE TurnsAuthorised'
  <2>1. CASE LoadPolicyFails(w) \/ WriteAuditFails(w) \/ Return(w)
    <3>1. (\E final : Finish(w, final)) /\ UNCHANGED <<executed, epoch>>
      BY <2>1 DEF LoadPolicyFails, WriteAuditFails, Return
    <3>2. QED
      BY <1>1, <3>1, FinishAuthority
  <2>2. QED
    BY <1>1, <1>3, <2>1, BeginAuthority, GenerateAuthority, BrokerAuthority,
       AfterBrokerAuthority DEF TurnStep
<1>4. QED
  BY <1>1, <1>2, <1>3 DEF Next, AuthorityInv, TurnsAuthorised

\* Everything executed or up for execution is authorised.
LEMMA AuthorityInvariant == Spec => []AuthorityInv
BY InitAuthorityInv, NextAuthorityInv, PTL DEF Spec

\* The broker mediates every execution, whatever the model emits, the policy
\* file becomes and the threads' schedule is.
THEOREM OnlyPermittedCallsExecute == Spec => []ExecutionPermitted
<1>1. AuthorityInv => ExecutionPermitted
  BY DEF AuthorityInv, Authorised, ExecutionPermitted
<1>2. QED
  BY <1>1, AuthorityInvariant, PTL

\* No action that needs approval is executed without one for that very action.
THEOREM OnlyApprovedActionsExecute == Spec => []ApprovalCoversAction
<1>1. AuthorityInv => ApprovalCoversAction
  BY DEF AuthorityInv, Authorised, ApprovalCoversAction
<1>2. QED
  BY <1>1, AuthorityInvariant, PTL

\* No execution is decided on a policy older than its turn.
THEOREM PolicyIsCurrent == Spec => []DecidedOnCurrentPolicy
<1>1. AuthorityInv => DecidedOnCurrentPolicy
  BY DEF AuthorityInv, Authorised, DecidedOnCurrentPolicy
<1>2. QED
  BY <1>1, AuthorityInvariant, PTL

=============================================================================
