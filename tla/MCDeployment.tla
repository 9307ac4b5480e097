---------------------------- MODULE MCDeployment ----------------------------
(***************************************************************************)
(* Instances of the deployment for TLC.                                    *)
(***************************************************************************)
EXTENDS Deployment, MCPolicyFiles

Tool(enabled, risk, external, destructive, approval, roles) ==
    Dict([enabled |-> enabled, risk_level |-> risk, external_effect |-> external,
          destructive |-> destructive, requires_human_approval |-> approval,
          allowed_roles |-> roles])

\* policies/default.yaml.
GoodTools ==
    [read_records   |-> Tool(TRUE, "low", FALSE, FALSE, FALSE, <<"user", "admin">>),
     send_email     |-> Tool(TRUE, "high", TRUE, FALSE, TRUE, <<"user", "admin">>),
     export_records |-> Tool(TRUE, "high", TRUE, FALSE, TRUE, <<"admin">>),
     delete_records |-> Tool(TRUE, "critical", FALSE, TRUE, TRUE, <<"admin">>),
     run_shell      |-> Tool(FALSE, "critical", TRUE, TRUE, TRUE, << >>)]

StrictKeys == [default_decision |-> "deny", tenant_isolation |-> "strict"]

Policy(tools) == File("mapping", StrictKeys, tools)

GoodFile == Policy(GoodTools)

MissingFile == File("missing", << >>, << >>)

WithField(tool, key, value) == [GoodTools EXCEPT ![tool].fields[key] = value]

Roles(list) == Field("list", list)

\* Accepted policies: the same roles in another order, other roles, another
\* risk level, one more tool, and tools switched off.
AcceptedFiles ==
    {GoodFile,
     Policy(WithField("read_records", "allowed_roles", Roles(<<"admin", "user">>))),
     Policy(WithField("read_records", "allowed_roles", Roles(<<"user">>))),
     Policy(WithField("send_email", "risk_level", Field("str", "low"))),
     Policy(WithField("send_email", "enabled", Field("bool", FALSE)))}

\* Each breaks one check of validate_policy_invariants.
RejectedFiles ==
    {MissingFile,
     File("malformed", << >>, << >>),
     File("not-mapping", << >>, << >>),
     Policy(NoTools),
     Policy([name \in REQUIRED_DEMO_TOOLS \ {"run_shell"} |-> GoodTools[name]]),
     File("mapping", [tenant_isolation |-> "strict"], GoodTools),
     File("mapping", [default_decision |-> "deny", tenant_isolation |-> "off"],
          GoodTools),
     File("mapping", [default_decision |-> "deny", tenant_isolation |-> "strict",
                      version |-> "2"], GoodTools),
     Policy([GoodTools EXCEPT !["read_records"] = Entry("not_dict", << >>)]),
     Policy([GoodTools EXCEPT !["read_records"].kind = "unnamed"]),
     Policy([GoodTools EXCEPT !["read_records"] = Dict([enabled |-> TRUE])]),
     Policy(WithField("read_records", "allowed_roles", Roles(<< >>))),
     Policy(WithField("read_records", "allowed_roles", Roles(None))),
     Policy(WithField("read_records", "enabled", Field("str", TRUE))),
     Policy(WithField("read_records", "enabled", Field("str", None))),
     Policy(WithField("read_records", "risk_level", Field("str", None))),
     Policy([WithField("run_shell", "enabled", Field("bool", TRUE)) EXCEPT
                !["run_shell"].fields.allowed_roles = Roles(<<"admin">>)]),
     Policy(WithField("send_email", "requires_human_approval", Field("bool", FALSE))),
     Policy(WithField("export_records", "allowed_roles", Roles(<<"admin", "user">>)))}

ReleaseFiles == AcceptedFiles \cup RejectedFiles

-----------------------------------------------------------------------------
(* Environments: a lab and a production service, each with one variable *)
(* changed.                                                             *)

LabEnvironment ==
    [ACP_ENVIRONMENT |-> None, ACP_REQUIRE_API_AUTH |-> None,
     ACP_ALLOWED_API_KEYS_FILE |-> None, ACP_API_KEY |-> None,
     ACP_ALLOWED_ORIGINS |-> None, ACP_MAX_REQUEST_BODY_BYTES |-> None,
     ACP_AUDIT_RETENTION_DAYS |-> None, ACP_ENABLE_STRICT_PROVENANCE |-> None,
     ACP_PROVENANCE_HMAC_KEY_FILE |-> None, ACP_REQUIRE_APPROVAL_TOKEN |-> None,
     ACP_ENABLE_DEBUG_ERRORS |-> None, ACP_ALLOW_LIVE_EXTERNAL_TOOLS |-> None,
     ACP_ALLOW_SHELL_TOOLS |-> None, ACP_ALLOW_LIVE_LLM_CALLS |-> None,
     ACP_LLM_ADAPTER_MODE |-> None]

ProductionEnvironment ==
    [LabEnvironment EXCEPT
        !.ACP_ENVIRONMENT = "production",
        !.ACP_ALLOWED_API_KEYS_FILE = "keys",
        !.ACP_ALLOWED_ORIGINS = {"https://app.example"},
        !.ACP_ENABLE_STRICT_PROVENANCE = "true",
        !.ACP_PROVENANCE_HMAC_KEY_FILE = "hmac"]

Set(base, name, values) == {[base EXCEPT ![name] = value] : value \in values}

Variants(base) ==
    UNION {Set(base, switch, {None, "true", "false", Garbled}) : switch \in Switches}
        \cup Set(base, "ACP_ENVIRONMENT", {"test", Garbled})
        \cup Set(base, "ACP_LLM_ADAPTER_MODE", {"disabled_external", Garbled})
        \cup Set(base, "ACP_ALLOWED_API_KEYS_FILE", {None, "keys"})
        \cup Set(base, "ACP_API_KEY", {Blank, "k2"})
        \cup Set(base, "ACP_PROVENANCE_HMAC_KEY_FILE", {None, "hmac"})
        \cup Set(base, "ACP_ALLOWED_ORIGINS", {None, Blank, {}, {"*"}})
        \cup Set(base, "ACP_MAX_REQUEST_BODY_BYTES",
                 {Garbled, 1023, 1024, 10485760, 10485761})
        \cup Set(base, "ACP_AUDIT_RETENTION_DAYS", {Garbled, 0, 1, 3650, 3651})

StartupEnvironments ==
    Variants(LabEnvironment) \cup Variants(ProductionEnvironment)
        \cup Set([ProductionEnvironment EXCEPT !.ACP_ALLOWED_API_KEYS_FILE = None],
                 "ACP_API_KEY", {Blank, "k2"})
        \cup Set([LabEnvironment EXCEPT !.ACP_REQUIRE_API_AUTH = "true"],
                 "ACP_API_KEY", {Blank, "k2"})

StartupFiles == {GoodFile, MissingFile}

StartupKeys == {None, {Blank, "#"}, {"#", "k1"}}

StartupHmac == {None, "", "secret"}

OneEnvironment == {LabEnvironment}

OneKeysFile == {{"k1"}}

OneHmacFile == {"secret"}

=============================================================================
