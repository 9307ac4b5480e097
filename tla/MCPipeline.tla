----------------------------- MODULE MCPipeline -----------------------------
(***************************************************************************)
(* Instances of the pipeline for TLC.                                      *)
(***************************************************************************)
EXTENDS LedgerRefinement, MCPolicyFiles, TLC

LOCAL Core == INSTANCE AgentCore

Config(adapter, needSignature, needToken) ==
    [llm_adapter_mode             |-> adapter,
     require_provenance_signature |-> needSignature,
     provenance_hmac_key          |-> None,
     require_approval_token       |-> needToken]

Request(user, role, approved, scenario) ==
    [user_id |-> user, tenant_id |-> "tenant-a", role |-> role,
     human_approval |-> approved, scenario |-> scenario,
     retrieved_chunks |-> {}, tool_output_segments |-> {}]

-----------------------------------------------------------------------------
(* Policy files *)

ReadEntry ==
    Dict([enabled |-> TRUE, risk_level |-> "low",
          requires_human_approval |-> FALSE,
          allowed_roles |-> <<"user", "admin">>])

EmailEntry(risk) ==
    Dict([enabled |-> TRUE, risk_level |-> risk, external_effect |-> TRUE,
          allowed_roles |-> <<"user", "admin">>])

\* policies/default.yaml.
DefaultTools ==
    [read_records   |-> ReadEntry,
     send_email     |-> EmailEntry("high"),
     export_records |-> Dict([enabled |-> TRUE, risk_level |-> "high",
                              external_effect |-> TRUE,
                              allowed_roles |-> <<"admin">>]),
     delete_records |-> Dict([enabled |-> TRUE, risk_level |-> "critical",
                              destructive |-> TRUE,
                              allowed_roles |-> <<"admin">>]),
     run_shell      |-> Dict([enabled |-> FALSE, risk_level |-> "critical",
                              external_effect |-> TRUE, destructive |-> TRUE])]

StrictKeys == [default_decision |-> "deny", tenant_isolation |-> "strict"]

DefaultFile == File("mapping", StrictKeys, DefaultTools)

\* send_email at another risk level, and everything else gone.
RaisedRiskFile ==
    File("mapping", StrictKeys, [send_email |-> EmailEntry("critical")])

\* Tenant isolation is off, reads need approval, one entry is no dict.
LooseFile ==
    File("mapping", [tenant_isolation |-> "off"],
         [read_records |-> Dict([enabled |-> TRUE, allowed_roles |-> <<"user">>]),
          send_email   |-> Entry("not_dict", << >>)])

AllowByDefaultFile ==
    File("mapping", [default_decision |-> "allow"], DefaultTools)

\* Neither key is set: the defaults deny and isolate.
BareFile == File("mapping", << >>, DefaultTools)

MissingFile == File("missing", << >>, << >>)

MalformedFile == File("malformed", << >>, << >>)

InvalidEntryFile ==
    File("mapping", StrictKeys,
         [read_records |-> Entry("dict", [enabled |-> Field("str", None)])])

-----------------------------------------------------------------------------
(* One worker and the simulated agent: every scenario, every policy file. *)

ScenarioNames ==
    DOMAIN Core!ScenarioCalls([tenant_id |-> "tenant-a"])
        \cup Core!LeakScenarios \cup {"unknown_scenario"}

ScenarioConfigs ==
    {Config("simulated", FALSE, FALSE), Config("simulated", FALSE, TRUE),
     Config("simulated", TRUE, FALSE), Config("disabled_external", FALSE, FALSE)}

ScenarioFiles ==
    {DefaultFile, BareFile, LooseFile, AllowByDefaultFile, MissingFile,
     MalformedFile, InvalidEntryFile}

ScenarioRequests ==
    {Request("alice", "user", FALSE, s) : s \in ScenarioNames}
        \cup {Request("root", "admin", TRUE, s) :
                s \in {"export_approved", "export_no_approval", "shell_attempt"}}
        \cup {Request("alice", "user", TRUE, "export_approved")}

\* What the simulated agent proposes for a request, put before an approver.
ApprovalFor(request) ==
    [request |-> request, call |-> Core!ScenarioCalls(request)[request.scenario]]

ScenarioApprovable ==
    {ApprovalFor(Request("alice", "user", FALSE, "send_email_approved")),
     ApprovalFor(Request("root", "admin", TRUE, "export_approved"))}

SimulatedCandidates(mode, request) == {Core!AdapterGenerate(mode, request)}

-----------------------------------------------------------------------------
(* Concurrent workers and an untrusted model: it may answer any request with *)
(* any of a few turns.                                                       *)

Marker(type) == [type |-> type, tenant |-> None]

TenantMarker(tenant) == [type |-> "tenant_marker", tenant |-> tenant]

Email(value) ==
    Core!ToolCallPayload("send_email", Core!EmailKeys, value, "tenant-a",
                         Core!ModelProvenance)

Read == Core!ToolCallPayload("read_records", {}, "", "tenant-a",
                             Core!ModelProvenance)

InjectedEmail ==
    [Email("approved-mail") EXCEPT
        !.provenance = Core!Provenance("retrieved", "trusted", "rag-1")]

\* The approved mail, with the same context id under another provenance.
SystemEmail ==
    [Email("approved-mail") EXCEPT
        !.provenance = Core!Provenance("system", "trusted", "model-turn")]

Alice == Request("alice", "user", FALSE, "any")

\* The approver saw Alice's first mail, and nothing else.
MailApprovable == {[request |-> Alice, call |-> Email("approved-mail")]}

\* Mail, which needs approval, and reads, which do not.
ServingFile ==
    File("mapping", StrictKeys,
         [read_records |-> ReadEntry, send_email |-> EmailEntry("high")])

LenientConfig == {Config("any", FALSE, FALSE)}

TokenConfig == {Config("any", FALSE, TRUE)}

UntrustedCandidates(mode, request) ==
    {LLMAdapterError,
     Core!ModelTurn({TenantMarker("tenant-a")}, None),
     Core!ModelTurn({TenantMarker("tenant-a"), TenantMarker("tenant-b")}, None),
     Core!ModelTurn({}, Email("approved-mail")),
     Core!ModelTurn({}, Email("other-mail")),
     Core!ModelTurn({}, InjectedEmail),
     Core!ModelTurn({}, SystemEmail),
     Core!ModelTurn({}, Read),
     Core!ModelTurn({Marker("jwt_like_token")}, Email("approved-mail"))}

WorkerSymmetry == Permutations(Workers)

UntrustedFiles == {ServingFile, RaisedRiskFile, MalformedFile}

UntrustedRequests == {Alice}

-----------------------------------------------------------------------------
(* One approved mail, sent over and over. *)

MailCandidates(mode, request) ==
    {Core!ModelTurn({}, Email("approved-mail"))}

JustAlice == {Alice}

JustServingFile == {ServingFile}

=============================================================================
