-------------------------- MODULE LedgerRefinement --------------------------
(***************************************************************************)
(* A pipeline that serves one request at a time keeps the approval ledger. *)
(***************************************************************************)
EXTENDS PipelineProperties

\* What a token binds, as compute_action_fingerprint collects it.
BoundAction(request, call, riskLevel) ==
    [user_id    |-> request.user_id,
     tenant_id  |-> request.tenant_id,
     tool_name  |-> call.tool_name,
     arguments  |-> call.arguments,
     target     |-> call.target,
     provenance |-> ComputeProvenanceFingerprint(call.provenance),
     risk_level |-> riskLevel]

RiskLevels ==
    UNION {{LoadPolicy(file).tools[name].risk_level :
               name \in DOMAIN LoadPolicy(file).tools} :
           file \in {f \in PolicyFiles : ~LoadPolicyRaises(f)}}

GrantableActions ==
    {BoundAction(a.request, a.call, risk) : a \in Approvable, risk \in RiskLevels}

Grants ==
    [i \in DOMAIN approvals |->
        [action |-> BoundAction(approvals[i].request, approvals[i].call,
                                approvals[i].token.risk_level),
         until  |-> approvals[i].token.expires_at]]

\* Executions under an approval in this life of the process.
SpendingExecutions == {e \in executed : e.epoch = epoch /\ e.approval_id # None}

SpendingOf(e) ==
    [id         |-> e.approval_id,
     action     |-> BoundAction(e.request, ToolOf(e),
                        PolicyOf(e).tools[ToolOf(e).tool_name].risk_level),
     checked_at |-> e.checked_at,
     by         |-> e.turn]

Spendings == {SpendingOf(e) : e \in SpendingExecutions}

Ledger == INSTANCE ApprovalLedger
             WITH Actions <- GrantableActions, grants <- Grants, spent <- Spendings

\* With one worker, tokens behave as the ledger says: an approval is spent at
\* most once in a life of the process, on the very action the approver was
\* shown, checked before it expired, and only a restart forgets a spending.
KeepsLedger == Ledger!Spec

=============================================================================
