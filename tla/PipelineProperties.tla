------------------------- MODULE PipelineProperties -------------------------
(***************************************************************************)
(* What the pipeline promises, stated over its state and its history.      *)
(***************************************************************************)
EXTENDS Pipeline

ProgramCounters ==
    {"idle", "load", "generate", "broker", "simulate", "mark", "audit",
     "return"}

Stages ==
    {"llm_adapter", "output_filter", "complete", "schema_validation",
     "tool_broker", "simulation", "vulnerable_simulation"}

Statuses == {"running", "answered", "raised", "lost"}

FrameFields ==
    {"pc", "turn", "path", "request", "token", "begun", "version",
     "model_turn", "decision", "checked_at", "stage"}

\* s is a finite sequence, of whatever values it holds.
IsSeq(s) == s \in Seq({s[i] : i \in DOMAIN s})

\* A worker off the idle location runs a turn that exists, for a request, with
\* a token an approver minted or none, and past load_policy with a policy the
\* file has held; only the protected path reaches the broker.
FrameOK(f) ==
    /\ DOMAIN f = FrameFields
    /\ f.pc \in ProgramCounters
    /\ f.stage \in Stages \cup {None}
    /\ f.version \in 0 .. Len(policy_log)
    /\ f.token \in TokensHeld \cup {None}
    /\ f.pc # "idle" => /\ f.turn \in Turns
                        /\ f.request \in Requests
                        /\ f.path \in Paths
    /\ f.pc \in {"load", "broker", "simulate", "mark"} => f.path = "protected"
    /\ f.path = "protected" /\ f.pc \notin {"idle", "load"} => f.version > 0

StoreOK ==
    /\ config \in Configs
    /\ policy_log \in Seq(PolicyFiles) /\ policy_log # << >>
    /\ now \in Nat /\ epoch \in Nat
    /\ IsSeq(approvals)
    /\ \A i \in DOMAIN approvals :
          /\ approvals[i].token.approval_id = i
          /\ approvals[i].token.expires_at \in Nat
    /\ used \subseteq DOMAIN approvals
    /\ IsSeq(audit)

TurnsOK ==
    /\ IsSeq(outcome)
    /\ \A t \in Turns : /\ DOMAIN outcome[t] = {"status", "path", "tenant", "error", "result"}
                        /\ outcome[t].status \in Statuses
    /\ \A e \in executed :
          e.turn \in Turns /\ e.version \in 1 .. Len(policy_log)

WorkersOK ==
    /\ DOMAIN worker = Workers
    /\ \A w \in Workers : FrameOK(worker[w])

\* Type correctness: the i-th approval carries id i, the registry
\* (_USED_APPROVAL_IDS) holds ids of approvals only, executions belong to
\* turns, and every worker's frame is well formed.
TypeOK == StoreOK /\ TurnsOK /\ WorkersOK

PolicyOf(e) == LoadPolicy(policy_log[e.version])

ToolOf(e) == e.model_turn.tool_call

\* Two executions under one approval id within one life of the process.
SameApproval(d, e) ==
    /\ d # e
    /\ d.approval_id # None
    /\ d.approval_id = e.approval_id
    /\ d.epoch = e.epoch

\* One-time use: an approval token authorises at most one execution per life
\* of the process (verify_approval_token's registry check against
\* mark_approval_token_used).
OneTimeUse == \A d, e \in executed : ~SameApproval(d, e)

\* Replay is blocked: a turn that began after the turn which spent an approval
\* had ended cannot execute under that approval again, whatever else runs
\* concurrently, whether or not the first turn's audit write failed.
ReplayBlocked ==
    \A d, e \in executed : SameApproval(d, e) => d.turn \notin e.begun.ended

\* The policy the turn read lists and enables the call's tool, for the
\* caller's role; the target is the caller's tenant, unless the file says in so
\* many words that tenants are not isolated; its provenance may authorise it and is signed
\* where signatures are required; the text beside it passed the filter.
Permitted(e) ==
    LET policy == PolicyOf(e)
        call   == ToolOf(e)
        tool   == policy.tools[call.tool_name]
        prov   == call.provenance
        keys   == policy_log[e.version].keys
    IN  /\ call.tool_name \in DOMAIN policy.tools \cap DOMAIN ToolSchemas
        /\ tool.enabled
        /\ e.request.role \in tool.allowed_roles
        /\ \/ call.target = e.request.tenant_id
           \/ "tenant_isolation" \in DOMAIN keys /\ keys.tenant_isolation # "strict"
        /\ prov # None
        /\ prov.trust # "untrusted"
        /\ \/ prov.source \in {"model", "system"}
           \/ /\ prov.source = "internal_reviewed"
              /\ ~tool.external_effect /\ ~tool.destructive
        /\ config.require_provenance_signature =>
              prov.signature = ComputeProvenanceHmac(prov, HmacKey(config))
        /\ Filtered([request |-> e.request, model_turn |-> e.model_turn]).allowed

\* The broker is the authority boundary: whatever the model emitted, only
\* permitted calls were executed.
ExecutionPermitted == \A e \in executed : Permitted(e)

\* What an approver saw and what was executed are the same action: same user,
\* tenant, tool, arguments, target, provenance and risk level.
SameAction(approval, e) ==
    LET call == ToolOf(e)
    IN  /\ approval.request.user_id = e.request.user_id
        /\ approval.request.tenant_id = e.request.tenant_id
        /\ approval.call.tool_name = call.tool_name
        /\ approval.call.arguments = call.arguments
        /\ approval.call.target = call.target
        /\ ComputeProvenanceFingerprint(approval.call.provenance)
              = ComputeProvenanceFingerprint(call.provenance)
        /\ approval.token.risk_level = PolicyOf(e).tools[call.tool_name].risk_level

\* A call whose tool needs approval was covered by an approval for exactly
\* that action, whose token had not expired when the broker checked it, or
\* carried the human approval flag on a pipeline that demands no tokens.
Covered(e) ==
    ApprovalRequired(PolicyOf(e).tools[ToolOf(e).tool_name]) =>
        IF e.token = None
        THEN e.request.human_approval /\ ~config.require_approval_token
        ELSE LET approval == approvals[e.token.approval_id]
             IN  /\ e.approval_id = e.token.approval_id
                 /\ approval.token = e.token
                 /\ e.checked_at <= e.token.expires_at
                 /\ SameAction(approval, e)

\* No high-impact action without approval (approval_gate.py): whatever was
\* executed and needed approval was covered by one.
ApprovalCoversAction == \A e \in executed : Covered(e)

\* A policy change takes effect at the next turn: no execution is decided on
\* a policy older than the one in the file when its turn began.
DecidedOnCurrentPolicy ==
    \A e \in executed : e.version >= e.begun.version

EventsOf(t) == {i \in DOMAIN audit : audit[i].turn = t}

\* The events of turn t say what its caller was told, o.
AuditedAs(t, o) ==
    CASE /\ o.status = "answered"
         /\ o.path = "protected" \/ o.result.stage # "complete" ->
            \E i \in DOMAIN audit :
                /\ EventsOf(t) = {i}
                /\ audit[i].stage = o.result.stage
                /\ audit[i].allowed = o.result.allowed
                /\ audit[i].policy_reason = o.result.reason
      [] o.error = "LLMAdapterError" /\ o.path = "protected" ->
            \E i \in DOMAIN audit :
                /\ EventsOf(t) = {i}
                /\ audit[i].event_type = "adapter_failure"
      [] o.status \in {"running", "lost"} ->
            \A i, j \in EventsOf(t) : i = j
      [] OTHER -> EventsOf(t) = {}

\* Every turn that returned or re-raised an adapter failure left exactly one
\* audit event, and it says what the caller was told; a turn that ended in a
\* policy or log exception left none; a turn in flight or lost to a crash left
\* at most one.  The vulnerable path audits tool calls only.
AuditMatchesOutcome == \A t \in Turns : AuditedAs(t, outcome[t])

\* The log and the simulator agree: a tool_allowed event, and an answer that
\* says the tool was executed, stand for an execution of that turn; an
\* execution whose turn was answered has its event.
AuditMatchesExecution ==
    /\ \A i \in DOMAIN audit : audit[i].event_type = "tool_allowed" =>
          \E e \in executed : /\ e.turn = audit[i].turn
                              /\ e.approval_id = audit[i].approval_id
    /\ \A t \in Turns : outcome[t].status = "answered" =>
          (outcome[t].result.tool_executed <=> \E e \in executed : e.turn = t)

\* The event type, which _blocked_event_type derives from the wording of the
\* reason, names the control that denied: approval_denied exactly for the
\* approval gate's denials, which are also marked as needing approval.
DenialsClassified ==
    \A i \in DOMAIN audit :
        LET event == audit[i] IN
        /\ (event.event_type = "approval_denied")
              <=> (event.stage = "tool_broker" /\ event.approval_decision = "denied")
        /\ event.event_type = "approval_denied" => event.human_approval_required
        /\ event.event_type \in {"provenance_denied", "cross_tenant_blocked",
                                 "tool_blocked"} => event.approval_decision = None

\* The text may be shown to the tenant: it holds no key, token, secret, encoded
\* or random-looking string, no classification label, and names no tenant but
\* this one.  A request without a tenant owns no names, and none are checked.
ShowableTo(tenant, text) ==
    \A marker \in text :
        /\ marker.type \notin PatternTypes \cup {"sensitive_classification"}
        /\ marker.type = "tenant_marker" /\ tenant # None => marker.tenant = tenant

\* The filtered output a protected turn answers with may be shown to the tenant
\* that asked, whatever the model said, in whichever order turns are served:
\* the three kinds of detector filter_output runs over the text, and the
\* blocking rule behind them, leave nothing through.
ShownTextIsClean ==
    \A t \in Turns :
        outcome[t].status = "answered" /\ outcome[t].path = "protected" =>
            ShowableTo(outcome[t].tenant, outcome[t].result.filtered_output)

\* The log keeps its events, turns that ended keep their outcome, and the
\* registry of a process that lives on keeps its ids.
KeepsHistory ==
    /\ Len(audit) <= Len(audit') /\ SubSeq(audit', 1, Len(audit)) = audit
    /\ \A t \in Turns : Ended(t) => outcome'[t] = outcome[t]
    /\ epoch' = epoch => used \subseteq used'

\* Only a restart forgets: audit events and outcomes are never rewritten, and
\* a used approval id stays used while the process lives.
OnlyRestartForgets == [][KeepsHistory]_vars

\* Every turn ends: a worker that started serving a request is free again
\* after finitely many steps.
EveryTurnEnds ==
    \A w \in Workers : worker[w].pc # "idle" ~> worker[w].pc = "idle"

-----------------------------------------------------------------------------
(* Statements of the documentation that the code does not keep. *)

\* approval_tokens.py calls a token "Human approval bound to one lab action
\* fingerprint": then only an execution it was granted for consumes it.
ConsumedByGrantedAction ==
    \A id \in used : \E e \in executed : e.approval_id = id

\* docs/defensive-controls.md: "Secrets, private keys, JWT-like strings, and
\* encoded blobs are blocked outside the model": no protected answer has one.
SecretsNeverReturned ==
    \A t \in Turns :
        outcome[t].status = "answered" /\ outcome[t].path = "protected" =>
            PatternFindings(outcome[t].result.model_text) = {}

=============================================================================
