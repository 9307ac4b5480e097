---------------------------- MODULE PolicyEngine ----------------------------
(***************************************************************************)
(* Loading and evaluating the policy file (policy_engine.py,               *)
(* policy_types.py) and the provenance rules it applies (provenance.py).   *)
(* A policy file is a record: its kind, and for a mapping the keys it sets *)
(* and its tool entries (none when tools is missing or no mapping).  A     *)
(* tool entry is of kind "dict", with the fields it sets, "unnamed" (a     *)
(* dict whose key is no string) or "not_dict".  A field is its YAML type   *)
(* and the value pydantic makes of it, None when it cannot.                *)
(***************************************************************************)
EXTENDS Models

ToolFields ==
    {"enabled", "risk_level", "external_effect", "destructive",
     "requires_human_approval", "allowed_roles"}

\* The value of a field, or the model's default.
Coerced(cfg, key, default) == IF key \in DOMAIN cfg THEN cfg[key].value ELSE default

\* ToolPolicy.model_validate: unknown fields are ignored.  The order of the
\* roles, which only membership tests read, is dropped.
ToolPolicy(cfg) ==
    LET roles == Coerced(cfg, "allowed_roles", << >>)
    IN  [enabled                 |-> Coerced(cfg, "enabled", FALSE),
         risk_level              |-> Coerced(cfg, "risk_level", "high"),
         external_effect         |-> Coerced(cfg, "external_effect", FALSE),
         destructive             |-> Coerced(cfg, "destructive", FALSE),
         requires_human_approval |-> Coerced(cfg, "requires_human_approval", TRUE),
         allowed_roles           |-> {roles[i] : i \in DOMAIN roles}]

PolicyDocument(defaultDecision, tools, tenantIsolation) ==
    [default_decision |-> defaultDecision,
     tools            |-> tools,
     tenant_isolation |-> tenantIsolation]

NoTools == [name \in {} |-> None]

DenyAllPolicy == PolicyDocument("deny", NoTools, "strict")

\* A dict ToolPolicy or PolicyDocument rejects.
EntryRejected(entry) ==
    \/ entry.kind = "unnamed"
    \/ /\ entry.kind = "dict"
       /\ \E key \in ToolFields \cap DOMAIN entry.fields :
              entry.fields[key].value = None

\* yaml.safe_load on malformed text and the validation of a rejected entry
\* raise out of load_policy.
LoadPolicyRaises(file) ==
    \/ file.kind = "malformed"
    \/ /\ file.kind = "mapping"
       /\ \E name \in DOMAIN file.tools : EntryRejected(file.tools[name])

\* MUTANT of LoadPolicy: tenants are isolated only where the file says so.
IsolationOffByDefault(file) ==
    IF file.kind # "mapping"
    THEN DenyAllPolicy
    ELSE PolicyDocument(
            Get(file.keys, "default_decision", "deny"),
            [name \in {n \in DOMAIN file.tools : file.tools[n].kind = "dict"}
                |-> ToolPolicy(file.tools[name].fields)],
            Get(file.keys, "tenant_isolation", "off"))

\* Entries that are not dicts are dropped; missing keys get their defaults.
LoadPolicy(file) ==
    IF file.kind # "mapping"
    THEN DenyAllPolicy
    ELSE PolicyDocument(
            Get(file.keys, "default_decision", "deny"),
            [name \in {n \in DOMAIN file.tools : file.tools[n].kind = "dict"}
                |-> ToolPolicy(file.tools[name].fields)],
            Get(file.keys, "tenant_isolation", "strict"))

-----------------------------------------------------------------------------
(* provenance.py *)

SourcesCannotAuthorize ==
    {"user", "retrieved", "tool_output", "external", "web", "email",
     "support_ticket"}

\* The reason validate_provenance_for_tool returns.
ValidateProvenanceForTool(toolPolicy, provenance) ==
    IF provenance = None
    THEN "missing_provenance_denied"
    ELSE IF provenance.source \in SourcesCannotAuthorize
    THEN "source_cannot_authorize_tool_execution"
    ELSE IF provenance.trust = "untrusted"
    THEN "untrusted_provenance_denied"
    ELSE IF provenance.source = "internal_reviewed"
    THEN IF toolPolicy.external_effect \/ toolPolicy.destructive
         THEN "internal_reviewed_cannot_authorize_external_or_destructive"
         ELSE "internal_reviewed_provenance_allowed"
    ELSE IF provenance.source \in {"model", "system"}
    THEN "provenance_allowed"
    ELSE "provenance_source_not_permitted"

ProvenanceOkReasons ==
    {"internal_reviewed_provenance_allowed", "provenance_allowed"}

-----------------------------------------------------------------------------
(* evaluate_policy *)

PolicyDecision(allowed, reason, requiresHumanApproval) ==
    [allowed                 |-> allowed,
     reason                  |-> reason,
     requires_human_approval |-> requiresHumanApproval]

CrossTenant(policy, request, call) ==
    policy.tenant_isolation = "strict" /\ call.target # request.tenant_id

EvaluateToolPolicy(policy, toolPolicy, request, call) ==
    LET provenanceReason == ValidateProvenanceForTool(toolPolicy, call.provenance)
        needs == toolPolicy.requires_human_approval
    IN  IF ~toolPolicy.enabled
        THEN PolicyDecision(FALSE, "tool_disabled_by_policy", needs)
        ELSE IF request.role \notin toolPolicy.allowed_roles
        THEN PolicyDecision(FALSE, "role_not_permitted_for_tool", needs)
        ELSE IF CrossTenant(policy, request, call)
        THEN PolicyDecision(FALSE, "cross_tenant_target_denied", needs)
        ELSE IF provenanceReason \notin ProvenanceOkReasons
        THEN PolicyDecision(FALSE, provenanceReason, needs)
        ELSE IF policy.default_decision # "allow"
        THEN PolicyDecision(TRUE, "explicit_allow_after_policy_checks", needs)
        ELSE PolicyDecision(FALSE, "default_deny_policy", FALSE)

EvaluatePolicy(policy, request, call) ==
    IF call.tool_name \notin DOMAIN policy.tools
    THEN PolicyDecision(FALSE, "unknown_tool_denied_by_policy", FALSE)
    ELSE EvaluateToolPolicy(policy, policy.tools[call.tool_name], request, call)

=============================================================================
