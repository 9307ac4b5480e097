-------------------------- MODULE PolicyIntegrity --------------------------
(***************************************************************************)
(* Offline validation and digest of the policy file (policy_integrity.py). *)
(* Files are those of PolicyEngine.  Which of the checks failed is only    *)
(* worded differently, so validation is a predicate.                       *)
(***************************************************************************)
EXTENDS PolicyEngine, ProvenanceIntegrity

ALLOWED_TOP_LEVEL_KEYS == {"default_decision", "tenant_isolation"}

REQUIRED_DEMO_TOOLS ==
    {"read_records", "send_email", "export_records", "delete_records",
     "run_shell"}

BOOL_KEYS ==
    {"enabled", "external_effect", "destructive", "requires_human_approval"}

\* The value has the YAML type asked for.  A risk level outside RiskLevel and
\* a list with an entry that is no string have the value None.
ToolFieldTypesOk(cfg) ==
    /\ \A key \in BOOL_KEYS : cfg[key].type = "bool"
    /\ cfg.allowed_roles.type = "list" /\ cfg.allowed_roles.value # None
    /\ cfg.risk_level.type = "str" /\ cfg.risk_level.value # None

\* MUTANT of ToolSecurityInvariantsOk: an enabled shell is let through.
ShellNotChecked(name, cfg) ==
    /\ cfg.enabled.value => cfg.allowed_roles.value # << >>
    /\ name \in {"send_email", "export_records"} => cfg.requires_human_approval.value
    /\ name = "export_records" => cfg.allowed_roles.value = <<"admin">>

ToolSecurityInvariantsOk(name, cfg) ==
    /\ cfg.enabled.value => cfg.allowed_roles.value # << >>
    /\ name = "run_shell" => ~cfg.enabled.value
    /\ name \in {"send_email", "export_records"} => cfg.requires_human_approval.value
    /\ name = "export_records" => cfg.allowed_roles.value = <<"admin">>

\* The key is a string, the entry a dict with exactly the required fields.
ToolEntryOk(name, entry) ==
    /\ entry.kind = "dict"
    /\ DOMAIN entry.fields = ToolFields
    /\ ToolFieldTypesOk(entry.fields)
    /\ ToolSecurityInvariantsOk(name, entry.fields)

ValidatePolicyInvariants(file) ==
    /\ DOMAIN file.keys \subseteq ALLOWED_TOP_LEVEL_KEYS
    /\ Get(file.keys, "default_decision", None) = "deny"
    /\ Get(file.keys, "tenant_isolation", None) = "strict"
    /\ REQUIRED_DEMO_TOOLS \subseteq DOMAIN file.tools
    /\ \A name \in DOMAIN file.tools : ToolEntryOk(name, file.tools[name])

-----------------------------------------------------------------------------
(* The canonical form and its digest *)

\* MUTANT of CanonicalToolValue: every list of roles looks alike.
RolesLeftOut(key, value) == IF key = "allowed_roles" THEN None ELSE value

\* Roles are sorted; other values stay as they are.
CanonicalToolValue(key, value) ==
    IF key = "allowed_roles" THEN Sorted(value) ELSE value

CanonicalPolicyPayload(file) ==
    [default_decision |-> Get(file.keys, "default_decision", None),
     tenant_isolation |-> Get(file.keys, "tenant_isolation", None),
     tools |-> [name \in DOMAIN file.tools |->
                   LET cfg == file.tools[name].fields
                   IN  [key \in DOMAIN cfg |->
                           CanonicalToolValue(key, cfg[key].value)]]]

ComputePolicySha256(file) == Sha256(CanonicalPolicyPayload(file))

\* load_policy_yaml and the invariants: PolicyIntegrityError, or for malformed
\* YAML the parser's own exception, when the file is not accepted.
PolicyAccepted(file) == file.kind = "mapping" /\ ValidatePolicyInvariants(file)

=============================================================================
