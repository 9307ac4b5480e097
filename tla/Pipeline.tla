------------------------------ MODULE Pipeline ------------------------------
(***************************************************************************)
(* The control plane pipeline (pipeline.py): agent turns run on a pool of  *)
(* workers that share the policy file, the in-memory registry of used      *)
(* approval ids and the audit log.  A turn is split exactly where it       *)
(* touches shared state: reading the policy file, reading the registry and *)
(* the clock in the broker, executing the tool, marking the token used,    *)
(* appending the audit event.  Everything between is local to the worker.  *)
(*                                                                         *)
(* executed, outcome and approvals are history: the program does not keep  *)
(* them, they record what the simulator ran, what callers were answered    *)
(* and what approvers saw.  Candidates(mode, request) is what the          *)
(* configured adapter may return: any set of candidate turns.              *)
(***************************************************************************)
EXTENDS ToolBroker, OutputFilter

CONSTANTS
    Workers,             \* threads that call the pipeline
    Configs,             \* pipeline constructor arguments
    PolicyFiles,         \* contents the policy file may have
    Requests,            \* AgentRequests callers may send
    Paths,               \* entry points callers use
    Approvable,          \* [request, call] pairs put before an approver
    Candidates(_, _),    \* adapter mode, request -> possible outcomes
    TTL,                 \* ticks an approval token lives
    MaxTime, MaxTurns, MaxTokens, MaxPolicyVersions, MaxRestarts,
    MaxAuditFaults       \* bounds on the environment

ASSUME PathsAssumption == Paths \subseteq {"protected", "vulnerable"}

ASSUME BoundsAssumption ==
    /\ {TTL, MaxTime, MaxTurns, MaxTokens} \subseteq Nat
    /\ {MaxPolicyVersions, MaxRestarts, MaxAuditFaults} \subseteq Nat

VARIABLES
    config,      \* the pipeline's constructor arguments, fixed
    policy_log,  \* every content the policy file has had; the last is current
    now,         \* the clock
    approvals,   \* approvals granted, the i-th with approval_id i
    used,        \* _USED_APPROVAL_IDS of the running process
    audit,       \* the audit log
    executed,    \* tool executions (history)
    outcome,     \* what became of each turn (history)
    worker,      \* the turn each worker is running
    epoch        \* how often the process restarted

vars == <<config, policy_log, now, approvals, used, audit, executed, outcome,
          worker, epoch>>

Turns == DOMAIN outcome

Ended(t) == outcome[t].status # "running"

Outcome(status, path, tenant, error, result) ==
    [status |-> status, path |-> path, tenant |-> tenant, error |-> error,
     result |-> result]

IdleFrame ==
    [pc |-> "idle", turn |-> 0, path |-> None, request |-> None,
     token |-> None, begun |-> None, version |-> 0, model_turn |-> None,
     decision |-> None, checked_at |-> 0, stage |-> None]

Init ==
    /\ config \in Configs
    /\ \E file \in PolicyFiles : policy_log = <<file>>
    /\ now = 0
    /\ approvals = << >>
    /\ used = {}
    /\ audit = << >>
    /\ executed = {}
    /\ outcome = << >>
    /\ worker = [w \in Workers |-> IdleFrame]
    /\ epoch = 0

-----------------------------------------------------------------------------
(* Audit events and results *)

\* Reasons that start with "approval_token".
ApprovalTokenReasons ==
    {"approval_token_reused", "approval_token_expired",
     "approval_token_user_mismatch", "approval_token_tenant_mismatch",
     "approval_token_tool_mismatch", "approval_token_target_mismatch",
     "approval_token_risk_mismatch", "approval_token_context_mismatch",
     "approval_token_provenance_mismatch", "approval_token_action_mismatch",
     "approval_token_missing"}

\* Reasons that contain "human_approval_required".
HumanApprovalReasons ==
    {"human_approval_required_for_high_impact_action",
     "human_approval_required_by_policy"}

\* Reasons that contain "cannot_authorize" or "provenance".
ProvenanceReasons ==
    {"missing_provenance_denied", "source_cannot_authorize_tool_execution",
     "untrusted_provenance_denied",
     "internal_reviewed_cannot_authorize_external_or_destructive",
     "provenance_source_not_permitted", "provenance_signature_missing",
     "provenance_signature_invalid", "approval_token_provenance_mismatch"}

\* MUTANT of BlockedEventType: provenance reasons are matched first.
BlockedEventTypeProvenanceFirst(reason) ==
    IF reason = "cross_tenant_target_denied" THEN "cross_tenant_blocked"
    ELSE IF reason \in ProvenanceReasons THEN "provenance_denied"
    ELSE IF reason \in ApprovalTokenReasons \cup HumanApprovalReasons
    THEN "approval_denied"
    ELSE "tool_blocked"

\* MUTANT of BlockedEventType: only token reasons count as approval denials.
BlockedEventTypeTokensOnly(reason) ==
    IF reason = "cross_tenant_target_denied" THEN "cross_tenant_blocked"
    ELSE IF reason \in ApprovalTokenReasons THEN "approval_denied"
    ELSE IF reason \in ProvenanceReasons THEN "provenance_denied"
    ELSE "tool_blocked"

BlockedEventType(reason) ==
    IF reason = "cross_tenant_target_denied" THEN "cross_tenant_blocked"
    ELSE IF reason \in ApprovalTokenReasons \cup HumanApprovalReasons
    THEN "approval_denied"
    ELSE IF reason \in ProvenanceReasons THEN "provenance_denied"
    ELSE "tool_blocked"

ApprovalRequiredFromReason(reason, policyDecision) ==
    \/ reason \in ApprovalTokenReasons \cup HumanApprovalReasons
    \/ policyDecision # None /\ policyDecision.requires_human_approval

\* An allowed decision always carries the gate's verdict.
ApprovalRequiredFromBroker(decision) ==
    decision.approval_decision # "not_required"

FilterContext(f) == BuildFilterContextFromRequest(f.request, "internal_display")

Filtered(f) == FilterOutput(f.model_turn.natural_language, FilterContext(f), None)

\* simulate_vulnerable_execution labels what it would have done; the label's
\* tool name, for the other tools, is left out.
SimulateVulnerableExecution(call) ==
    CASE call.tool_name = "run_shell"  -> "would_have_invoked_shell"
      [] call.tool_name = "send_email" -> "would_have_sent_email_without_broker"
      [] OTHER                         -> "would_have_called"

\* The reason the turn ends with: the audit event's and the result's.
Reason(f) ==
    CASE f.stage = "llm_adapter"           -> "external_llm_adapter_disabled"
      [] f.stage = "output_filter"         -> Filtered(f).reason
      [] f.stage = "complete"              -> IF f.path = "protected"
                                              THEN "no_tool_call"
                                              ELSE "no_tool_call_vulnerable_path"
      [] f.stage = "vulnerable_simulation" ->
            SimulateVulnerableExecution(f.model_turn.tool_call)
      [] OTHER                             -> f.decision.reason

EventType(f) ==
    CASE f.stage = "llm_adapter"           -> "adapter_failure"
      [] f.stage = "output_filter"         -> "output_filter_blocked"
      [] f.stage = "complete"              -> "model_response_allowed"
      [] f.stage = "schema_validation"     -> "schema_validation_failed"
      [] f.stage = "tool_broker"           -> BlockedEventType(f.decision.reason)
      [] f.stage = "simulation"            -> "tool_allowed"
      [] f.stage = "vulnerable_simulation" -> "vulnerable_path_simulation"

Allowed(f) == f.stage \in {"complete", "simulation", "vulnerable_simulation"}

HumanApprovalRequired(f) ==
    CASE f.stage = "tool_broker" -> ApprovalRequiredFromReason(
                                f.decision.reason, f.decision.policy_decision)
      [] f.stage = "simulation"  -> ApprovalRequiredFromBroker(f.decision)
      [] OTHER                   -> FALSE

\* Past the schema check the event carries what the broker decided; on a
\* schema failure it carries the request's own token.
EventApprovalId(f) ==
    CASE f.stage \in {"tool_broker", "simulation"}         -> f.decision.approval_id
      [] f.stage = "schema_validation" /\ f.token # None   -> f.token.approval_id
      [] OTHER                                             -> None

AuditEvent(f) ==
    [turn                    |-> f.turn,
     event_type              |-> EventType(f),
     stage                   |-> f.stage,
     allowed                 |-> Allowed(f),
     policy_reason           |-> Reason(f),
     human_approval_required |-> HumanApprovalRequired(f),
     approval_id             |-> EventApprovalId(f),
     approval_decision       |-> IF f.stage \in {"tool_broker", "simulation"}
                                 THEN f.decision.approval_decision ELSE None]

\* simulate_tool_execution: run_shell and unknown tools only report failure.
SimulateToolExecution(call) ==
    [message |-> call.tool_name,
     success |-> call.tool_name \in {"read_records", "send_email",
                                     "export_records", "delete_records"}]

PipelineResult(f) ==
    [allowed         |-> Allowed(f),
     stage           |-> f.stage,
     reason          |-> Reason(f),
     model_text      |-> f.model_turn.natural_language,
     filtered_output |-> IF f.path = "vulnerable"
                         THEN f.model_turn.natural_language
                         ELSE Filtered(f).filtered_text,
     tool_executed   |-> f.stage = "simulation",
     simulation      |-> IF f.stage = "simulation"
                         THEN SimulateToolExecution(f.model_turn.tool_call)
                         ELSE None]

\* How a turn whose audit event is written ends: an adapter failure is
\* re-raised, everything else is returned.
Closing(f) ==
    IF f.stage = "llm_adapter"
    THEN Outcome("raised", f.path, f.request.tenant_id, "LLMAdapterError", None)
    ELSE Outcome("answered", f.path, f.request.tenant_id, None, PipelineResult(f))

-----------------------------------------------------------------------------
(* The environment *)

CurrentPolicyFile == policy_log[Len(policy_log)]

Tick ==
    /\ now < MaxTime
    /\ now' = now + 1
    /\ UNCHANGED <<config, policy_log, approvals, used, audit, executed,
                   outcome, worker, epoch>>

EditPolicy ==
    /\ Len(policy_log) < MaxPolicyVersions
    /\ \E file \in PolicyFiles \ {CurrentPolicyFile} :
          policy_log' = Append(policy_log, file)
    /\ UNCHANGED <<config, now, approvals, used, audit, executed, outcome,
                   worker, epoch>>

\* An approver mints a token for the action shown, at the risk level the
\* policy gives its tool now.  uuid4 ids do not collide.
MintToken ==
    /\ Len(approvals) < MaxTokens
    /\ ~LoadPolicyRaises(CurrentPolicyFile)
    /\ \E a \in Approvable :
          LET tools == LoadPolicy(CurrentPolicyFile).tools
              toolPolicy == tools[a.call.tool_name]
          IN  /\ a.call.tool_name \in DOMAIN tools
              /\ approvals' = Append(approvals,
                    [token |-> CreateApprovalToken(Len(approvals) + 1,
                                  a.request, a.call, toolPolicy, TTL, now),
                     request |-> a.request, call |-> a.call])
    /\ UNCHANGED <<config, policy_log, now, used, audit, executed, outcome,
                   worker, epoch>>

\* The process dies and comes back: the registry and the turns in flight are
\* lost; the files and what was already executed stay.
Restart ==
    /\ epoch < MaxRestarts
    /\ epoch' = epoch + 1
    /\ used' = {}
    /\ worker' = [w \in Workers |-> IdleFrame]
    /\ outcome' = [t \in Turns |->
                      IF Ended(t) THEN outcome[t]
                      ELSE [outcome[t] EXCEPT !.status = "lost"]]
    /\ UNCHANGED <<config, policy_log, now, approvals, audit, executed>>

-----------------------------------------------------------------------------
(* One turn: run_protected and run_vulnerable *)

At(w, pc) == worker[w].pc = pc

Goto(w, frame) == worker' = [worker EXCEPT ![w] = frame]

\* The worker is free again and the turn's outcome is final.
Finish(w, final) ==
    /\ outcome' = [outcome EXCEPT ![worker[w].turn] = final]
    /\ Goto(w, IdleFrame)

TokensHeld == {approvals[i].token : i \in DOMAIN approvals}

\* A caller sends a request, with a token an approver minted or with none.
\* begun is history: the policy file and the ended turns at that moment.
BeginTurn(w) ==
    /\ At(w, "idle")
    /\ Len(outcome) < MaxTurns
    /\ \E request \in Requests, token \in TokensHeld \cup {None},
          path \in Paths :
          /\ outcome' = Append(outcome,
                Outcome("running", path, request.tenant_id, None, None))
          /\ Goto(w, [IdleFrame EXCEPT
                !.pc = IF path = "protected" THEN "load" ELSE "generate",
                !.turn = Len(outcome) + 1,
                !.path = path, !.request = request, !.token = token,
                !.begun = [version |-> Len(policy_log),
                           ended   |-> {t \in Turns : Ended(t)}]])
    /\ UNCHANGED <<config, policy_log, now, approvals, used, audit, executed,
                   epoch>>

\* MUTANT of LoadPolicyStep: the file is read once and cached.
CachedPolicyStep(w) ==
    /\ At(w, "load")
    /\ ~LoadPolicyRaises(CurrentPolicyFile)
    /\ Goto(w, [worker[w] EXCEPT !.pc = "generate", !.version = 1])
    /\ UNCHANGED <<config, policy_log, now, approvals, used, audit, executed,
                   outcome, epoch>>

\* load_policy: the turn keeps the policy it read, by its place in the log.
LoadPolicyStep(w) ==
    /\ At(w, "load")
    /\ ~LoadPolicyRaises(CurrentPolicyFile)
    /\ Goto(w, [worker[w] EXCEPT !.pc = "generate", !.version = Len(policy_log)])
    /\ UNCHANGED <<config, policy_log, now, approvals, used, audit, executed,
                   outcome, epoch>>

\* The exception leaves run_protected before anything is audited.
LoadPolicyFails(w) ==
    /\ At(w, "load")
    /\ LoadPolicyRaises(CurrentPolicyFile)
    /\ Finish(w, Outcome("raised", "protected", worker[w].request.tenant_id,
                          "PolicyLoadError", None))
    /\ UNCHANGED <<config, policy_log, now, approvals, used, audit, executed,
                   epoch>>

\* MUTANT of AfterOutputFilter: only turns without a tool call are filtered.
FilterPlainAnswersOnly(f) ==
    IF f.model_turn.tool_call # None
    THEN [f EXCEPT !.pc = "broker"]
    ELSE [f EXCEPT !.pc = "audit",
                   !.stage = IF Filtered(f).allowed THEN "complete"
                             ELSE "output_filter"]

\* Where a protected turn goes once the model's text has been filtered.
AfterOutputFilter(f) ==
    IF ~Filtered(f).allowed
    THEN [f EXCEPT !.pc = "audit", !.stage = "output_filter"]
    ELSE IF f.model_turn.tool_call = None
    THEN [f EXCEPT !.pc = "audit", !.stage = "complete"]
    ELSE [f EXCEPT !.pc = "broker"]

\* generate() and filter_output(), both local to the worker.
GenerateProtected(w) ==
    /\ At(w, "generate")
    /\ worker[w].path = "protected"
    /\ \E turn \in Candidates(config.llm_adapter_mode, worker[w].request) :
          Goto(w, IF turn = LLMAdapterError
                  THEN [worker[w] EXCEPT !.pc = "audit", !.stage = "llm_adapter"]
                  ELSE AfterOutputFilter([worker[w] EXCEPT !.model_turn = turn]))
    /\ UNCHANGED <<config, policy_log, now, approvals, used, audit, executed,
                   outcome, epoch>>

\* run_vulnerable up to its audit event; a turn without a tool call and an
\* adapter failure end here, unaudited.
GenerateVulnerable(w) ==
    /\ At(w, "generate")
    /\ worker[w].path = "vulnerable"
    /\ \E turn \in Candidates(config.llm_adapter_mode, worker[w].request) :
          IF turn = LLMAdapterError
          THEN Finish(w, Outcome("raised", "vulnerable",
                          worker[w].request.tenant_id, "LLMAdapterError", None))
          ELSE IF turn.tool_call = None
          THEN Finish(w, Closing([worker[w] EXCEPT !.model_turn = turn,
                                                   !.stage = "complete"]))
          ELSE /\ Goto(w, [worker[w] EXCEPT !.pc = "audit",
                              !.model_turn = turn,
                              !.stage = "vulnerable_simulation"])
               /\ UNCHANGED outcome
    /\ UNCHANGED <<config, policy_log, now, approvals, used, audit, executed,
                   epoch>>

\* The broker's verdict on the worker's tool call against the registry and
\* the clock as they are now.
Decide(f) ==
    BrokerToolRequest(f.request, f.token, LoadPolicy(policy_log[f.version]),
                      f.model_turn.tool_call, config, used, now)

\* MUTANT of AfterBroker: an allowed call is audited but never executed.
AuditWithoutExecution(f, decision) ==
    [f EXCEPT !.decision = decision,
              !.checked_at = now,
              !.pc = "audit",
              !.stage = IF ~decision.schema_valid THEN "schema_validation"
                        ELSE IF ~decision.allowed THEN "tool_broker"
                        ELSE "simulation"]

AfterBroker(f, decision) ==
    [f EXCEPT !.decision = decision,
              !.checked_at = now,
              !.pc = IF decision.allowed THEN "simulate" ELSE "audit",
              !.stage = IF ~decision.schema_valid THEN "schema_validation"
                        ELSE IF ~decision.allowed THEN "tool_broker"
                        ELSE "simulation"]

BrokerStep(w) ==
    /\ At(w, "broker")
    /\ Goto(w, AfterBroker(worker[w], Decide(worker[w])))
    /\ UNCHANGED <<config, policy_log, now, approvals, used, audit, executed,
                   outcome, epoch>>

Execution(w) ==
    LET f == worker[w]
    IN  [turn |-> f.turn, epoch |-> epoch, begun |-> f.begun,
         request |-> f.request, token |-> f.token, version |-> f.version,
         model_turn |-> f.model_turn, checked_at |-> f.checked_at,
         approval_id |-> f.decision.approval_id]

Simulate(w) ==
    /\ At(w, "simulate")
    /\ executed' = executed \cup {Execution(w)}
    /\ Goto(w, [worker[w] EXCEPT !.pc = "mark"])
    /\ UNCHANGED <<config, policy_log, now, approvals, used, audit, outcome,
                   epoch>>

\* MUTANT of MarkUsed: the token is never recorded.
ForgetToMark(w) ==
    /\ At(w, "mark")
    /\ Goto(w, [worker[w] EXCEPT !.pc = "audit"])
    /\ UNCHANGED <<config, policy_log, now, approvals, used, audit, executed,
                   outcome, epoch>>

\* MUTANT of MarkUsed: the request's id is recorded instead of the approval's.
MarkRequestId(w) ==
    /\ At(w, "mark")
    /\ used' = IF worker[w].token # None THEN used \cup {worker[w].turn} ELSE used
    /\ Goto(w, [worker[w] EXCEPT !.pc = "audit"])
    /\ UNCHANGED <<config, policy_log, now, approvals, audit, executed,
                   outcome, epoch>>

\* MUTANT of MarkUsed: a turn waits while its token is marked by another.
WaitForUnmarked(w) ==
    /\ At(w, "mark")
    /\ worker[w].token # None => worker[w].token.approval_id \notin used
    /\ used' = IF worker[w].token # None
               THEN used \cup {worker[w].token.approval_id}
               ELSE used
    /\ Goto(w, [worker[w] EXCEPT !.pc = "audit"])
    /\ UNCHANGED <<config, policy_log, now, approvals, audit, executed,
                   outcome, epoch>>

\* Whatever token the request carries is marked, after the execution.
MarkUsed(w) ==
    /\ At(w, "mark")
    /\ used' = IF worker[w].token # None
               THEN used \cup {worker[w].token.approval_id}
               ELSE used
    /\ Goto(w, [worker[w] EXCEPT !.pc = "audit"])
    /\ UNCHANGED <<config, policy_log, now, approvals, audit, executed,
                   outcome, epoch>>

\* MUTANT of WriteAudit: the log is opened for writing, not appending.
TruncateAudit(w) ==
    /\ At(w, "audit")
    /\ audit' = <<AuditEvent(worker[w])>>
    /\ Goto(w, [worker[w] EXCEPT !.pc = "return"])
    /\ UNCHANGED <<config, policy_log, now, approvals, used, executed,
                   outcome, epoch>>

\* MUTANT of WriteAudit: turns without a tool call are not audited.
AuditToolTurnsOnly(w) ==
    /\ At(w, "audit")
    /\ audit' = IF worker[w].stage = "complete" THEN audit
                ELSE Append(audit, AuditEvent(worker[w]))
    /\ Goto(w, [worker[w] EXCEPT !.pc = "return"])
    /\ UNCHANGED <<config, policy_log, now, approvals, used, executed,
                   outcome, epoch>>

\* AuditLogger.write appends one line.
WriteAudit(w) ==
    /\ At(w, "audit")
    /\ audit' = Append(audit, AuditEvent(worker[w]))
    /\ Goto(w, [worker[w] EXCEPT !.pc = "return"])
    /\ UNCHANGED <<config, policy_log, now, approvals, used, executed,
                   outcome, epoch>>

AuditFaults == Cardinality({t \in Turns : outcome[t].error = "OSError"})

\* The log cannot be opened or written: the exception replaces the answer.
WriteAuditFails(w) ==
    /\ At(w, "audit")
    /\ AuditFaults < MaxAuditFaults
    /\ Finish(w, Outcome("raised", worker[w].path, worker[w].request.tenant_id,
                          "OSError", None))
    /\ UNCHANGED <<config, policy_log, now, approvals, used, audit, executed,
                   epoch>>

\* The result is returned, or the adapter's exception re-raised.
Return(w) ==
    /\ At(w, "return")
    /\ Finish(w, Closing(worker[w]))
    /\ UNCHANGED <<config, policy_log, now, approvals, used, audit, executed,
                   epoch>>

TurnStep(w) ==
    \/ LoadPolicyStep(w)
    \/ LoadPolicyFails(w)
    \/ GenerateProtected(w)
    \/ GenerateVulnerable(w)
    \/ BrokerStep(w)
    \/ Simulate(w)
    \/ MarkUsed(w)
    \/ WriteAudit(w)
    \/ WriteAuditFails(w)
    \/ Return(w)

\* No request is being served: the process may stay so for ever.
Quiet ==
    /\ \A w \in Workers : At(w, "idle")
    /\ UNCHANGED vars

Next ==
    \/ Tick
    \/ EditPolicy
    \/ MintToken
    \/ Restart
    \/ \E w \in Workers : BeginTurn(w) \/ TurnStep(w)
    \/ Quiet

Spec == Init /\ [][Next]_vars

\* A thread that is serving a request keeps running.
FairSpec == Spec /\ \A w \in Workers : WF_vars(TurnStep(w))

=============================================================================
