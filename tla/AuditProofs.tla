----------------------------- MODULE AuditProofs -----------------------------
(***************************************************************************)
(* The audit log, the simulator and what callers were told agree, for any  *)
(* number of workers and turns, any policy, request and model output, with *)
(* failing audit writes and restarts.                                      *)
(*                                                                         *)
(* The properties speak of turns that ended.  The invariant adds what is   *)
(* known of a turn that is still running: it has no event before its audit *)
(* write and exactly the one that describes it after (Reported), it has an *)
(* execution exactly when it is past one (Ran), and its stage is one that  *)
(* its path and the broker's decision can lead to (StagesFit).  Distinct   *)
(* workers run distinct turns (TurnsDistinct), so one turn's step leaves   *)
(* what is known of the others alone.                                      *)
(***************************************************************************)
EXTENDS ReplayProofs

\* A denial names an approval reason exactly when the approval gate denied.
DenialFits(decision) ==
    /\ decision.approval_decision \in {"denied", None}
    /\ decision.approval_decision = "denied"
          <=> decision.reason \in ApprovalTokenReasons \cup HumanApprovalReasons

\* A turn that is past the broker will be, or was, executed; a turn at its
\* audit event has a stage of its path.
StageFits(f) ==
    /\ f.pc \in {"simulate", "mark"} => f.stage = "simulation"
    /\ f.pc \in {"audit", "return"} =>
          /\ f.path = "protected" => f.stage \in Stages \ {"vulnerable_simulation"}
          /\ f.path # "protected" => f.stage = "vulnerable_simulation"
          /\ f.stage = "tool_broker" => DenialFits(f.decision)

StagesFit == \A w \in Workers : StageFits(worker[w])

\* Events belong to turns, and only a turn that raised has an error.
EventsKnown == \A i \in DOMAIN audit : audit[i].turn \in Turns

ErrorsFit ==
    \A t \in Turns : outcome[t].status # "raised" => outcome[t].error = None

\* The one event of the turn that f runs is the one f describes.
Written(f) ==
    \E i \in DOMAIN audit : EventsOf(f.turn) = {i} /\ audit[i] = AuditEvent(f)

ReportFits(f) ==
    f.pc # "idle" =>
        /\ outcome[f.turn].path = f.path
        /\ f.pc = "return" => Written(f)
        /\ f.pc # "return" => EventsOf(f.turn) = {}

Reported == \A w \in Workers : ReportFits(worker[w])

PastExecution(f) == f.pc \in {"mark", "audit", "return"} /\ f.stage = "simulation"

Executed(t) == \E e \in executed : e.turn = t

\* A running turn has an execution, under the approval its decision names,
\* exactly when it is past it.
RanFits(f) ==
    /\ PastExecution(f) =>
          \E e \in executed : /\ e.turn = f.turn
                              /\ e.approval_id = f.decision.approval_id
    /\ f.pc # "idle" /\ Executed(f.turn) => PastExecution(f)

Ran == \A w \in Workers : RanFits(worker[w])

AuditInv ==
    /\ ReplayInv
    /\ StagesFit /\ EventsKnown /\ ErrorsFit /\ Reported /\ Ran
    /\ AuditMatchesOutcome /\ AuditMatchesExecution

-----------------------------------------------------------------------------
(* Events *)

\* The audit event of a frame does not depend on its control location.
LEMMA EventOfFrame ==
    ASSUME NEW f, NEW g, g.turn = f.turn, g.stage = f.stage, g.path = f.path,
           g.request = f.request, g.token = f.token,
           g.model_turn = f.model_turn, g.decision = f.decision
    PROVE  AuditEvent(g) = AuditEvent(f)
<1>1. Filtered(g) = Filtered(f)
  BY DEF Filtered, FilterContext
<1>2. /\ Reason(g) = Reason(f) /\ EventType(g) = EventType(f)
      /\ Allowed(g) = Allowed(f)
      /\ HumanApprovalRequired(g) = HumanApprovalRequired(f)
      /\ EventApprovalId(g) = EventApprovalId(f)
  BY <1>1 DEF Reason, EventType, Allowed, HumanApprovalRequired, EventApprovalId
<1>3. QED
  BY <1>2 DEF AuditEvent

\* Only an execution is audited as one, and only an adapter failure as one.
LEMMA EventTypes ==
    ASSUME NEW f, f.stage \in Stages
    PROVE  /\ EventType(f) = "tool_allowed" <=> f.stage = "simulation"
           /\ f.stage = "llm_adapter" => EventType(f) = "adapter_failure"
           /\ f.stage = "simulation" =>
                 EventApprovalId(f) = f.decision.approval_id
           /\ EventType(f) = "approval_denied" <=>
                 /\ f.stage = "tool_broker"
                 /\ BlockedEventType(f.decision.reason) = "approval_denied"
           /\ f.stage # "tool_broker" =>
                 EventType(f) \notin {"provenance_denied", "cross_tenant_blocked",
                                      "tool_blocked"}
BY DEF EventType, EventApprovalId, BlockedEventType, Stages

\* A log that keeps its events, and gains none of turn t, has t's events.
LEMMA EventsKept ==
    ASSUME NEW t, DOMAIN audit \subseteq DOMAIN audit',
           \A i \in DOMAIN audit : audit'[i] = audit[i],
           \A i \in DOMAIN audit' \ DOMAIN audit : audit'[i].turn # t
    PROVE  EventsOf(t)' = EventsOf(t)
BY DEF EventsOf

\* What is said of a turn that ended, or is running, holds while its outcome
\* and its events stay.
LEMMA AuditedKept ==
    ASSUME NEW t, outcome'[t] = outcome[t],
           DOMAIN audit \subseteq DOMAIN audit',
           \A i \in DOMAIN audit : audit'[i] = audit[i],
           EventsOf(t)' = EventsOf(t), AuditedAs(t, outcome[t])
    PROVE  AuditedAs(t, outcome[t])'
BY DEF AuditedAs, EventsOf

-----------------------------------------------------------------------------
(* The broker's verdicts *)

\* A token that does not verify is refused for an approval reason.
LEMMA RefusedToken ==
    ASSUME NEW token, NEW request, NEW call, NEW riskLevel, NEW registry,
           NEW clock
    PROVE  VerifyApprovalToken(token, request, call, riskLevel, registry, clock)
              \in ApprovalTokenReasons \cup {"approval_token_valid"}
BY DEF VerifyApprovalToken, ApprovalTokenReasons

\* The approval gate denies with an approval reason, and says it denied.
LEMMA GateDenies ==
    ASSUME NEW request, NEW token, NEW toolPolicy, NEW call, NEW requireToken,
           NEW registry, NEW clock,
           ~EvaluateApprovalGate(request, token, toolPolicy, call, requireToken,
                                 registry, clock).allowed
    PROVE  LET gate == EvaluateApprovalGate(request, token, toolPolicy, call,
                                            requireToken, registry, clock)
           IN  /\ gate.approval_decision = "denied"
               /\ gate.reason \in ApprovalTokenReasons \cup HumanApprovalReasons
<1> DEFINE gate == EvaluateApprovalGate(request, token, toolPolicy, call,
                                        requireToken, registry, clock)
           reason == VerifyApprovalToken(token, request, call,
                                         toolPolicy.risk_level, registry, clock)
<1>1. reason \in ApprovalTokenReasons \cup {"approval_token_valid"}
  BY RefusedToken
<1>2. CASE ApprovalRequired(toolPolicy) /\ token # None
  <2>1. gate = GateOnToken(token, request, call, toolPolicy.risk_level,
                           registry, clock)
    BY <1>2 DEF EvaluateApprovalGate
  <2>2. QED
    <3> HIDE DEF gate, reason
    <3>1. gate = IF reason = "approval_token_valid"
                 THEN ApprovalGateResult(TRUE, "approval_token_granted",
                                         token.approval_id, "granted")
                 ELSE ApprovalGateResult(FALSE, reason, token.approval_id, "denied")
      BY <2>1 DEF GateOnToken, reason
    <3>2. ~gate.allowed
      BY DEF gate
    <3>3. gate.approval_decision = "denied" /\ gate.reason \in ApprovalTokenReasons
      BY <1>1, <3>1, <3>2 DEF ApprovalGateResult
    <3>4. QED
      BY <3>3 DEF gate
<1>3. CASE ~(ApprovalRequired(toolPolicy) /\ token # None)
  BY <1>3 DEF EvaluateApprovalGate, ApprovalGateResult, ApprovalTokenReasons,
     HumanApprovalReasons
<1>4. QED
  BY <1>2, <1>3

\* The reasons of the other controls are none of the approval gate's.
LEMMA OtherReasons ==
    ASSUME NEW policy, NEW request, NEW call, NEW key, NEW required
    PROVE  /\ VerifyProvenanceIntegrity(call.provenance, key, required)
                 \notin ApprovalTokenReasons \cup HumanApprovalReasons
           /\ EvaluatePolicy(policy, request, call).reason
                 \notin ApprovalTokenReasons \cup HumanApprovalReasons
<1>1. VerifyProvenanceIntegrity(call.provenance, key, required)
         \notin ApprovalTokenReasons \cup HumanApprovalReasons
  BY DEF VerifyProvenanceIntegrity, VerifyProvenanceSignature,
     ApprovalTokenReasons, HumanApprovalReasons
<1>2. ASSUME NEW tool
      PROVE  ValidateProvenanceForTool(tool, call.provenance)
                \notin ApprovalTokenReasons \cup HumanApprovalReasons
  BY DEF ValidateProvenanceForTool, ApprovalTokenReasons, HumanApprovalReasons
<1>3. ASSUME NEW tool
      PROVE  EvaluateToolPolicy(policy, tool, request, call).reason
                \notin ApprovalTokenReasons \cup HumanApprovalReasons
  <2> DEFINE prov == ValidateProvenanceForTool(tool, call.provenance)
             cross == CrossTenant(policy, request, call)
  <2>1. prov \notin ApprovalTokenReasons \cup HumanApprovalReasons
    BY <1>2
  <2> HIDE DEF prov, cross
  <2>2. EvaluateToolPolicy(policy, tool, request, call).reason
           \in {"tool_disabled_by_policy", "role_not_permitted_for_tool",
                "cross_tenant_target_denied", prov,
                "explicit_allow_after_policy_checks", "default_deny_policy"}
    BY DEF EvaluateToolPolicy, PolicyDecision, prov, cross
  <2>3. QED
    BY <2>1, <2>2 DEF ApprovalTokenReasons, HumanApprovalReasons
<1>4. EvaluatePolicy(policy, request, call).reason
         \notin ApprovalTokenReasons \cup HumanApprovalReasons
  <2>1. CASE call.tool_name \in DOMAIN policy.tools
    BY <1>3, <2>1 DEF EvaluatePolicy
  <2>2. CASE call.tool_name \notin DOMAIN policy.tools
    BY <2>2 DEF EvaluatePolicy, PolicyDecision, ApprovalTokenReasons,
       HumanApprovalReasons
  <2>3. QED
    BY <2>1, <2>2
<1>5. QED
  BY <1>1, <1>4

\* What the broker allows passed the schema check; what it denies after the
\* schema check is classified by its reason.
LEMMA BrokerVerdicts ==
    ASSUME NEW request, NEW token, NEW policy, NEW call, NEW cfg, NEW registry,
           NEW clock
    PROVE  LET decision == BrokerToolRequest(request, token, policy, call, cfg,
                                             registry, clock)
           IN  /\ decision.allowed \in BOOLEAN
               /\ decision.schema_valid \in BOOLEAN
               /\ decision.allowed => decision.schema_valid
               /\ ~decision.allowed /\ decision.schema_valid => DenialFits(decision)
<1> DEFINE decision == BrokerToolRequest(request, token, policy, call, cfg,
                                         registry, clock)
           schema == ValidateToolCallPayload(call)
           integrity == VerifyProvenanceIntegrity(call.provenance, HmacKey(cfg),
                           cfg.require_provenance_signature)
           verdict == EvaluatePolicy(policy, request, call)
           gate == EvaluateApprovalGate(request, token,
                      policy.tools[call.tool_name], call,
                      cfg.require_approval_token, registry, clock)
           other == ApprovalTokenReasons \cup HumanApprovalReasons
<1>1. decision =
        IF schema # "schema_valid"
        THEN BrokerDecision(FALSE, schema, FALSE, None, None, None)
        ELSE IF integrity \notin IntegrityOkReasons
        THEN BrokerDecision(FALSE, integrity, TRUE, None, None, None)
        ELSE IF ~verdict.allowed
        THEN BrokerDecision(FALSE, verdict.reason, TRUE, verdict, None, None)
        ELSE IF ~gate.allowed
        THEN BrokerDecision(FALSE, gate.reason, TRUE, verdict,
                            gate.approval_id, gate.approval_decision)
        ELSE BrokerDecision(TRUE, verdict.reason, TRUE, verdict,
                            gate.approval_id, gate.approval_decision)
  BY DEF BrokerToolRequest
<1>2. integrity \notin other /\ verdict.reason \notin other
  BY OtherReasons
<1>3. ~gate.allowed => gate.approval_decision = "denied" /\ gate.reason \in other
  BY GateDenies
<1> HIDE DEF decision, schema, integrity, verdict, gate, other
<1>4. /\ decision.allowed \in BOOLEAN /\ decision.schema_valid \in BOOLEAN
      /\ decision.allowed => decision.schema_valid
  BY <1>1 DEF BrokerDecision
<1>5. ASSUME ~decision.allowed, decision.schema_valid
      PROVE  /\ decision.approval_decision \in {"denied", None}
             /\ decision.approval_decision = "denied" <=> decision.reason \in other
  BY <1>1, <1>2, <1>3, <1>5, NoneIsNoString DEF BrokerDecision
<1>6. QED
  BY <1>4, <1>5 DEF decision, other, DenialFits

-----------------------------------------------------------------------------
(* The steps of the environment *)

\* Initially nothing has been audited or executed.
LEMMA InitAuditInv == Init => AuditInv
<1> SUFFICES ASSUME Init PROVE AuditInv
  OBVIOUS
<1>1. /\ executed = {} /\ DOMAIN audit = {} /\ Turns = {}
      /\ \A w \in Workers : worker[w].pc = "idle"
  BY DEF Init, IdleFrame, Turns
<1>2. StagesFit /\ EventsKnown /\ ErrorsFit /\ Reported /\ Ran
  BY <1>1 DEF StagesFit, StageFits, EventsKnown, ErrorsFit, Reported,
     ReportFits, Ran, RanFits, PastExecution
<1>3. AuditMatchesOutcome /\ AuditMatchesExecution
  BY <1>1 DEF AuditMatchesOutcome, AuditMatchesExecution
<1>4. QED
  BY <1>2, <1>3, InitReplayInv DEF AuditInv

\* A step that leaves turns, executions and the log alone.
LEMMA AsideAudits ==
    ASSUME AuditInv, ReplayInv', UNCHANGED <<worker, executed, outcome, audit>>
    PROVE  AuditInv'
<1>1. Turns' = Turns /\ \A t : EventsOf(t)' = EventsOf(t)
  BY DEF Turns, EventsOf
<1>2. StagesFit' /\ EventsKnown' /\ ErrorsFit'
  BY <1>1 DEF AuditInv, StagesFit, StageFits, EventsKnown, ErrorsFit
<1>3. Reported' /\ Ran'
  BY <1>1 DEF AuditInv, Reported, ReportFits, Written, Ran, RanFits, Executed
<1>4. AuditMatchesOutcome'
  BY <1>1, AuditedKept DEF AuditInv, AuditMatchesOutcome
<1>5. AuditMatchesExecution'
  BY <1>1 DEF AuditInv, AuditMatchesExecution
<1>6. QED
  BY <1>2, <1>3, <1>4, <1>5 DEF AuditInv

\* A restart turns running turns into lost ones, which had at most one event.
LEMMA RestartAudits == ASSUME AuditInv, ReplayInv', Restart PROVE AuditInv'
<1>1. /\ UNCHANGED <<audit, executed>>
      /\ \A w \in Workers : worker'[w].pc = "idle"
  BY DEF Restart, IdleFrame
<1>2. Turns' = Turns /\ \A t : EventsOf(t)' = EventsOf(t)
  BY <1>1 DEF Restart, Turns, EventsOf
<1>3. \A t \in Turns :
         /\ DOMAIN outcome[t] = {"status", "path", "tenant", "error", "result"}
         /\ outcome[t].status \in Statuses
  BY DEF AuditInv, ReplayInv, TypeOK, TurnsOK
<1>4. \A t \in Turns :
         /\ Ended(t) => outcome'[t] = outcome[t]
         /\ ~Ended(t) => /\ outcome'[t].status = "lost"
                         /\ outcome'[t].error = outcome[t].error
                         /\ outcome'[t].path = outcome[t].path
  BY <1>3 DEF Restart
<1>5. StagesFit' /\ Reported' /\ Ran'
  BY <1>1 DEF StagesFit, StageFits, Reported, ReportFits, Ran, RanFits,
     PastExecution
<1>6. EventsKnown' /\ ErrorsFit'
  BY <1>1, <1>2, <1>4 DEF AuditInv, EventsKnown, ErrorsFit, Ended
<1>7. AuditMatchesOutcome'
  <2> SUFFICES ASSUME NEW t \in Turns PROVE AuditedAs(t, outcome[t])'
    BY <1>2 DEF AuditMatchesOutcome
  <2>1. AuditedAs(t, outcome[t])
    BY DEF AuditInv, AuditMatchesOutcome
  <2>2. CASE Ended(t)
    BY <1>1, <1>2, <1>4, <2>1, <2>2, AuditedKept
  <2>3. CASE ~Ended(t)
    <3>1. outcome[t].status = "running" /\ outcome[t].error # "LLMAdapterError"
      BY <2>3, NoneIsNoString DEF AuditInv, ErrorsFit, Ended
    <3>2. \A i, j \in EventsOf(t) : i = j
      BY <2>1, <3>1 DEF AuditedAs
    <3>3. QED
      BY <1>2, <1>4, <2>3, <3>1, <3>2 DEF AuditedAs
  <2>4. QED
    BY <2>2, <2>3
<1>8. AuditMatchesExecution'
  BY <1>1, <1>2, <1>4 DEF AuditInv, AuditMatchesExecution
<1>9. QED
  BY <1>5, <1>6, <1>7, <1>8 DEF AuditInv

\* A turn that begins has no event and no execution.
LEMMA BeginAudits ==
    ASSUME AuditInv, ReplayInv', NEW w \in Workers, BeginTurn(w)
    PROVE  AuditInv'
<1>0. PICK new : new = Len(outcome) + 1
  OBVIOUS
<1>1. /\ DOMAIN worker = Workers /\ IsSeq(outcome)
      /\ \A e \in executed : e.turn \in Turns
      /\ \A v \in Workers : Running(v) => worker[v].turn \in Turns
  BY DEF AuditInv, ReplayInv, TypeOK, TurnsOK, WorkersOK, FrameOK, Running
<1>2. PICK path, tenant :
         /\ path \in Paths
         /\ outcome' = Append(outcome, Outcome("running", path, tenant, None, None))
         /\ \E request, token : Goto(w, [IdleFrame EXCEPT
               !.pc = IF path = "protected" THEN "load" ELSE "generate",
               !.turn = Len(outcome) + 1,
               !.path = path, !.request = request, !.token = token,
               !.begun = [version |-> Len(policy_log),
                          ended   |-> {t \in Turns : Ended(t)}]])
  BY DEF BeginTurn
<1>3. UNCHANGED <<executed, audit>>
  BY DEF BeginTurn
<1>4. /\ worker'[w].pc \in {"load", "generate"}
      /\ worker'[w].turn = new /\ worker'[w].path = path
      /\ \A v \in Workers : v # w => worker'[v] = worker[v]
  BY <1>0, <1>1, <1>2 DEF Goto, IdleFrame
<1>5. /\ new \notin Turns /\ Turns' = Turns \cup {new}
      /\ outcome'[new] = Outcome("running", path, tenant, None, None)
      /\ \A t \in Turns : outcome'[t] = outcome[t]
  BY <1>0, <1>1, <1>2, AppendSeq, SeqDomain DEF Turns
<1>6. /\ outcome'[new].status = "running" /\ outcome'[new].error = None
      /\ outcome'[new].path = path
  BY <1>5 DEF Outcome
<1>7. \A t : EventsOf(t)' = EventsOf(t)
  BY <1>3 DEF EventsOf
<1>8. EventsOf(new) = {} /\ ~Executed(new)
  BY <1>1, <1>5 DEF AuditInv, EventsKnown, EventsOf, Executed
<1>9. StagesFit' /\ EventsKnown' /\ ErrorsFit'
  BY <1>3, <1>4, <1>5, <1>6
     DEF AuditInv, StagesFit, StageFits, EventsKnown, ErrorsFit
<1>10. Reported'
  <2>1. ReportFits(worker[w])'
    BY <1>4, <1>6, <1>7, <1>8 DEF ReportFits
  <2>2. ASSUME NEW v \in Workers, v # w PROVE ReportFits(worker[v])'
    <3>1. ReportFits(worker[v]) /\ worker'[v] = worker[v]
      BY <1>4, <2>2 DEF AuditInv, Reported
    <3>2. worker[v].pc # "idle" =>
             outcome'[worker[v].turn] = outcome[worker[v].turn]
      BY <1>1, <1>5 DEF Running
    <3>3. QED
      BY <1>3, <1>7, <3>1, <3>2 DEF ReportFits, Written
  <2>3. QED
    BY <2>1, <2>2 DEF Reported
<1>11. Ran'
  BY <1>3, <1>4, <1>8 DEF AuditInv, Ran, RanFits, Executed, PastExecution
<1>12. AuditMatchesOutcome'
  <2>1. AuditedAs(new, outcome[new])'
    BY <1>6, <1>7, <1>8, NoneIsNoString DEF AuditedAs
  <2>2. ASSUME NEW t \in Turns PROVE AuditedAs(t, outcome[t])'
    BY <1>3, <1>5, <1>7, AuditedKept DEF AuditInv, AuditMatchesOutcome
  <2>3. QED
    BY <1>5, <2>1, <2>2 DEF AuditMatchesOutcome
<1>13. AuditMatchesExecution'
  BY <1>3, <1>5, <1>6 DEF AuditInv, AuditMatchesExecution
<1>14. QED
  BY <1>9, <1>10, <1>11, <1>12, <1>13 DEF AuditInv

-----------------------------------------------------------------------------
(* The steps of a turn *)

\* What is known of a worker that stands still, while its turn's outcome, its
\* turn's events and what was executed for it stay.
LEMMA StandsStill ==
    ASSUME AuditInv, NEW v \in Workers, worker'[v] = worker[v],
           worker[v].pc # "idle" =>
              outcome'[worker[v].turn] = outcome[worker[v].turn],
           EventsOf(worker[v].turn)' = EventsOf(worker[v].turn),
           DOMAIN audit \subseteq DOMAIN audit',
           \A i \in DOMAIN audit : audit'[i] = audit[i],
           executed \subseteq executed',
           \A e \in executed' \ executed : e.turn # worker[v].turn
    PROVE  StageFits(worker[v])' /\ ReportFits(worker[v])' /\ RanFits(worker[v])'
<1>1. StageFits(worker[v]) /\ ReportFits(worker[v]) /\ RanFits(worker[v])
  BY DEF AuditInv, StagesFit, Reported, Ran
<1>2. StageFits(worker[v])'
  BY <1>1 DEF StageFits
<1>3. ReportFits(worker[v])'
  <2>1. Written(worker[v]) => Written(worker[v])'
    BY DEF Written
  <2>2. QED
    BY <1>1, <2>1 DEF ReportFits
<1>4. RanFits(worker[v])'
  <2>1. Executed(worker[v].turn)' <=> Executed(worker[v].turn)
    BY DEF Executed
  <2>2. QED
    BY <1>1, <2>1 DEF RanFits, PastExecution
<1>5. QED
  BY <1>2, <1>3, <1>4

\* A step within a turn that writes no event and executes nothing.
LEMMA LocalAudits ==
    ASSUME AuditInv, ReplayInv', NEW w \in Workers, Advances(w),
           worker'[w].path = worker[w].path,
           worker[w].pc # "return", worker'[w].pc # "return",
           StageFits(worker[w])',
           PastExecution(worker[w])' <=> PastExecution(worker[w]),
           PastExecution(worker[w]) => worker'[w].decision = worker[w].decision,
           UNCHANGED <<executed, outcome, audit>>
    PROVE  AuditInv'
<1>1. Turns' = Turns /\ \A t : EventsOf(t)' = EventsOf(t)
  BY DEF Turns, EventsOf
<1>2. ReportFits(worker[w])' /\ RanFits(worker[w])'
  <2>1. ReportFits(worker[w]) /\ RanFits(worker[w])
    BY DEF AuditInv, Reported, Ran
  <2>2. ReportFits(worker[w])'
    BY <1>1, <2>1 DEF ReportFits, Advances, Running
  <2>3. Executed(worker[w].turn)' <=> Executed(worker[w].turn)
    BY DEF Executed, Advances
  <2>4. RanFits(worker[w])'
    BY <2>1, <2>3 DEF RanFits, Advances, Running
  <2>5. QED
    BY <2>2, <2>4
<1>3. ASSUME NEW v \in Workers
      PROVE  StageFits(worker[v])' /\ ReportFits(worker[v])' /\ RanFits(worker[v])'
  <2>1. CASE v = w
    BY <1>2, <2>1
  <2>2. CASE v # w
    BY <1>1, <2>2, StandsStill DEF Advances
  <2>3. QED
    BY <2>1, <2>2
<1>4. EventsKnown' /\ ErrorsFit'
  BY <1>1 DEF AuditInv, EventsKnown, ErrorsFit
<1>5. AuditMatchesOutcome'
  BY <1>1, AuditedKept DEF AuditInv, AuditMatchesOutcome
<1>6. AuditMatchesExecution'
  BY <1>1 DEF AuditInv, AuditMatchesExecution
<1>7. QED
  BY <1>3, <1>4, <1>5, <1>6 DEF AuditInv, StagesFit, Reported, Ran

\* Filtering leaves a protected turn at the broker, or at its audit event with
\* a stage that is no execution.
LEMMA GenerateAudits ==
    ASSUME AuditInv, ReplayInv', NEW w \in Workers, GenerateProtected(w)
    PROVE  AuditInv'
<1> DEFINE f == worker[w]
<1>1. PICK turn \in Candidates(config.llm_adapter_mode, f.request) :
         Goto(w, IF turn = LLMAdapterError
                 THEN [f EXCEPT !.pc = "audit", !.stage = "llm_adapter"]
                 ELSE AfterOutputFilter([f EXCEPT !.model_turn = turn]))
  BY DEF GenerateProtected
<1>2. /\ TypeOK /\ DOMAIN worker = Workers /\ DOMAIN f = FrameFields
      /\ f.pc = "generate" /\ f.path = "protected"
      /\ UNCHANGED <<executed, outcome, audit>>
      /\ \A v \in Workers : v # w => worker'[v] = worker[v]
  BY DEF AuditInv, ReplayInv, TypeOK, WorkersOK, FrameOK, GenerateProtected, At,
     Goto
<1>3. SameTurn(f, worker'[w])
  BY <1>2, GenerateProtectedMoves
<1>4. \/ worker'[w].pc = "broker"
      \/ /\ worker'[w].pc = "audit"
         /\ worker'[w].stage \in {"llm_adapter", "output_filter", "complete"}
  <2>1. CASE turn = LLMAdapterError
    BY <1>1, <1>2, <2>1 DEF Goto, FrameFields
  <2>2. CASE turn # LLMAdapterError
    <3> DEFINE g == [f EXCEPT !.model_turn = turn]
    <3>1. worker'[w] = AfterOutputFilter(g)
      BY <1>1, <1>2, <2>2 DEF Goto
    <3>2. DOMAIN g = FrameFields
      BY <1>2
    <3> HIDE DEF g
    <3>3. QED
      BY <3>1, <3>2 DEF AfterOutputFilter, FrameFields
  <2>3. QED
    BY <2>1, <2>2
<1>5. Advances(w)
  BY <1>2, <1>3, <1>4 DEF Advances, Running, SameTurn
<1>6. StageFits(worker[w])'
  BY <1>2, <1>3, <1>4 DEF StageFits, SameTurn, Stages
<1>7. ~PastExecution(worker[w]) /\ ~PastExecution(worker[w])'
  BY <1>2, <1>4 DEF PastExecution
<1>8. QED
  BY <1>2, <1>3, <1>4, <1>5, <1>6, <1>7, LocalAudits DEF SameTurn

\* The broker's verdict fits the stage it leads to.
LEMMA BrokerAudits ==
    ASSUME AuditInv, ReplayInv', NEW w \in Workers, BrokerStep(w)
    PROVE  AuditInv'
<1> DEFINE f == worker[w]
           d == Decide(f)
<1>1. /\ TypeOK /\ DOMAIN worker = Workers /\ DOMAIN f = FrameFields
      /\ f.pc = "broker" /\ f.path = "protected"
      /\ UNCHANGED <<executed, outcome, audit>>
      /\ \A v \in Workers : v # w => worker'[v] = worker[v]
  BY DEF AuditInv, ReplayInv, TypeOK, WorkersOK, FrameOK, BrokerStep, At, Goto
<1>2. /\ SameTurn(f, worker'[w]) /\ worker'[w].decision = d
      /\ worker'[w].pc \in {"simulate", "audit"}
  BY <1>1, BrokerStepMoves
<1>3. /\ d.allowed \in BOOLEAN /\ d.schema_valid \in BOOLEAN
      /\ d.allowed => d.schema_valid
      /\ ~d.allowed /\ d.schema_valid => DenialFits(d)
  BY BrokerVerdicts DEF Decide
<1>4. worker'[w] = AfterBroker(f, d)
  BY <1>1 DEF BrokerStep, Goto
<1> HIDE DEF d
<1>5. /\ worker'[w].pc = IF d.allowed THEN "simulate" ELSE "audit"
      /\ worker'[w].stage = IF ~d.schema_valid THEN "schema_validation"
                            ELSE IF ~d.allowed THEN "tool_broker"
                            ELSE "simulation"
  BY <1>1, <1>4 DEF AfterBroker, FrameFields
<1>6. Advances(w)
  BY <1>1, <1>2 DEF Advances, Running, SameTurn
<1>7. StageFits(worker[w])'
  BY <1>1, <1>2, <1>3, <1>5 DEF StageFits, SameTurn, Stages
<1>8. ~PastExecution(worker[w]) /\ ~PastExecution(worker[w])'
  BY <1>1, <1>3, <1>5 DEF PastExecution
<1>9. QED
  BY <1>1, <1>2, <1>6, <1>7, <1>8, LocalAudits DEF SameTurn

\* The execution belongs to the one turn that now is past it.
LEMMA SimulateAudits ==
    ASSUME AuditInv, ReplayInv', NEW w \in Workers, Simulate(w)
    PROVE  AuditInv'
<1> DEFINE f == worker[w]
           x == Execution(w)
<1>1. /\ UNCHANGED <<outcome, audit>> /\ f.pc = "simulate"
      /\ executed' = executed \cup {x}
  BY DEF Simulate, At
<1>2. x.turn = f.turn /\ x.approval_id = f.decision.approval_id
  BY DEF Execution
<1> HIDE DEF x
<1>3. /\ TypeOK /\ DOMAIN worker = Workers /\ DOMAIN f = FrameFields
      /\ f.turn \in Turns
      /\ \A v \in Workers : v # w => worker'[v] = worker[v]
  BY <1>1 DEF AuditInv, ReplayInv, TypeOK, WorkersOK, FrameOK, Simulate, Goto
<1>4. worker'[w] = [f EXCEPT !.pc = "mark"]
  BY <1>3, SimulateMoves
<1>5. /\ worker'[w].pc = "mark" /\ worker'[w].stage = f.stage
      /\ worker'[w].turn = f.turn /\ worker'[w].path = f.path
      /\ worker'[w].decision = f.decision
  BY <1>3, <1>4 DEF FrameFields
<1>6. Turns' = Turns /\ \A t : EventsOf(t)' = EventsOf(t)
  BY <1>1 DEF Turns, EventsOf
<1>7. f.stage = "simulation" /\ ~Ended(f.turn) /\ Running(w)
  BY <1>1 DEF AuditInv, StagesFit, StageFits, ReplayInv, TurnsDistinct, Running
<1>8. StageFits(worker[w])' /\ ReportFits(worker[w])' /\ RanFits(worker[w])'
  <2>1. ReportFits(f)
    BY DEF AuditInv, Reported
  <2>2. ReportFits(worker[w])'
    BY <1>1, <1>5, <1>6, <2>1 DEF ReportFits
  <2>3. RanFits(worker[w])'
    BY <1>1, <1>2, <1>5, <1>7 DEF RanFits, PastExecution
  <2>4. QED
    BY <1>5, <1>7, <2>2, <2>3 DEF StageFits
<1>9. ASSUME NEW v \in Workers, v # w
      PROVE  StageFits(worker[v])' /\ ReportFits(worker[v])' /\ RanFits(worker[v])'
  <2>1. CASE Running(v)
    <3>1. worker[v].turn # f.turn
      BY <1>7, <1>9, <2>1 DEF AuditInv, ReplayInv, TurnsDistinct
    <3>2. QED
      BY <1>1, <1>2, <1>3, <1>6, <1>9, <3>1, StandsStill
  <2>2. CASE ~Running(v)
    BY <1>3, <1>9, <2>2
       DEF Running, StageFits, ReportFits, RanFits, PastExecution
  <2>3. QED
    BY <2>1, <2>2
<1>10. EventsKnown' /\ ErrorsFit'
  BY <1>1, <1>6 DEF AuditInv, EventsKnown, ErrorsFit
<1>11. AuditMatchesOutcome'
  BY <1>1, <1>6, AuditedKept DEF AuditInv, AuditMatchesOutcome
<1>12. AuditMatchesExecution'
  <2>1. \A t \in Turns : outcome[t].status = "answered" => t # f.turn
    BY <1>7 DEF Ended
  <2>2. QED
    BY <1>1, <1>2, <1>6, <2>1 DEF AuditInv, AuditMatchesExecution
<1>13. QED
  BY <1>8, <1>9, <1>10, <1>11, <1>12 DEF AuditInv, StagesFit, Reported, Ran

\* The event a turn appends is its only one and describes it.
LEMMA WriteAudits ==
    ASSUME AuditInv, ReplayInv', NEW w \in Workers, WriteAudit(w)
    PROVE  AuditInv'
<1> DEFINE f == worker[w]
           event == AuditEvent(f)
<1>0. PICK n, mine : n = Len(audit) + 1 /\ mine = f.turn
  OBVIOUS
<1>1. /\ UNCHANGED <<outcome, executed>> /\ f.pc = "audit"
      /\ audit' = Append(audit, event)
  BY DEF WriteAudit, At
<1>2. /\ event.turn = f.turn /\ event.event_type = EventType(f)
      /\ event.approval_id = EventApprovalId(f)
  BY DEF AuditEvent
<1> HIDE DEF event
<1>3. /\ TypeOK /\ DOMAIN worker = Workers /\ DOMAIN f = FrameFields
      /\ f.turn \in Turns /\ IsSeq(audit)
      /\ \A v \in Workers : v # w => worker'[v] = worker[v]
  BY <1>1 DEF AuditInv, ReplayInv, TypeOK, StoreOK, WorkersOK, FrameOK,
     WriteAudit, Goto
<1>4. worker'[w] = [f EXCEPT !.pc = "return"]
  BY <1>3, WriteAuditMoves
<1>5. /\ worker'[w].pc = "return" /\ worker'[w].stage = f.stage
      /\ worker'[w].turn = f.turn /\ worker'[w].path = f.path
      /\ worker'[w].decision = f.decision /\ worker'[w].request = f.request
      /\ worker'[w].token = f.token /\ worker'[w].model_turn = f.model_turn
  BY <1>3, <1>4 DEF FrameFields
<1>6. /\ n \notin DOMAIN audit /\ DOMAIN audit' = DOMAIN audit \cup {n}
      /\ audit'[n] = event /\ \A i \in DOMAIN audit : audit'[i] = audit[i]
  BY <1>0, <1>1, <1>3, AppendSeq, SeqDomain
<1>7. Turns' = Turns /\ \A t : t # f.turn => EventsOf(t)' = EventsOf(t)
  BY <1>1, <1>2, <1>6 DEF Turns, EventsOf
<1>8. EventsOf(f.turn) = {} /\ ~Ended(f.turn) /\ Running(w)
  BY <1>1 DEF AuditInv, Reported, ReportFits, ReplayInv, TurnsDistinct, Running
<1>9. EventsOf(mine)' = {n}
  BY <1>0, <1>2, <1>6, <1>8 DEF EventsOf
<1>10. StageFits(worker[w])' /\ ReportFits(worker[w])' /\ RanFits(worker[w])'
  <2>1. StageFits(f) /\ ReportFits(f) /\ RanFits(f)
    BY DEF AuditInv, StagesFit, Reported, Ran
  <2>2. audit'[n] = AuditEvent(worker'[w])
    BY <1>5, <1>6, EventOfFrame DEF event
  <2>3. ReportFits(worker[w])'
    BY <1>0, <1>1, <1>5, <1>6, <1>9, <2>1, <2>2 DEF ReportFits, Written
  <2>4. StageFits(worker[w])'
    BY <1>1, <1>5, <2>1 DEF StageFits
  <2>5. RanFits(worker[w])'
    BY <1>1, <1>5, <2>1 DEF RanFits, PastExecution, Executed
  <2>6. QED
    BY <2>3, <2>4, <2>5
<1>11. ASSUME NEW v \in Workers, v # w
       PROVE  StageFits(worker[v])' /\ ReportFits(worker[v])' /\ RanFits(worker[v])'
  <2>1. CASE Running(v)
    <3>1. worker[v].turn # f.turn
      BY <1>8, <1>11, <2>1 DEF AuditInv, ReplayInv, TurnsDistinct
    <3>2. QED
      BY <1>1, <1>3, <1>6, <1>7, <1>11, <3>1, StandsStill
  <2>2. CASE ~Running(v)
    BY <1>3, <1>11, <2>2
       DEF Running, StageFits, ReportFits, RanFits, PastExecution
  <2>3. QED
    BY <2>1, <2>2
<1>12. EventsKnown' /\ ErrorsFit'
  BY <1>1, <1>2, <1>3, <1>6, <1>7 DEF AuditInv, EventsKnown, ErrorsFit
<1>13. AuditMatchesOutcome'
  <2>1. AuditedAs(mine, outcome[mine])'
    <3>1. outcome[mine].status = "running" /\ outcome[mine].error = None
      BY <1>0, <1>3, <1>8 DEF AuditInv, ErrorsFit, Ended
    <3>2. QED
      BY <1>1, <1>9, <3>1, NoneIsNoString DEF AuditedAs
  <2>2. ASSUME NEW t \in Turns, t # f.turn PROVE AuditedAs(t, outcome[t])'
    BY <1>1, <1>6, <1>7, <2>2, AuditedKept DEF AuditInv, AuditMatchesOutcome
  <2>3. QED
    BY <1>0, <1>1, <1>7, <2>1, <2>2 DEF AuditMatchesOutcome
<1>14. AuditMatchesExecution'
  <2>1. StageFits(f) /\ RanFits(f) /\ f.path \in Paths
    BY <1>1 DEF AuditInv, StagesFit, Ran, ReplayInv, TypeOK, WorkersOK, FrameOK
  <2>2. f.stage \in Stages
    BY <1>1, <2>1 DEF StageFits, Stages
  <2>3. event.event_type = "tool_allowed" =>
           \E e \in executed : e.turn = event.turn /\ e.approval_id = event.approval_id
    BY <1>1, <1>2, <2>1, <2>2, EventTypes DEF RanFits, PastExecution
  <2>4. QED
    BY <1>1, <1>6, <1>7, <2>3 DEF AuditInv, AuditMatchesExecution
<1>15. QED
  BY <1>10, <1>11, <1>12, <1>13, <1>14 DEF AuditInv, StagesFit, Reported, Ran

\* A turn that ends with an outcome its events and its executions agree with.
LEMMA FinishAudits ==
    ASSUME AuditInv, ReplayInv', NEW w \in Workers, worker[w].pc # "idle",
           NEW final, Finish(w, final), UNCHANGED <<audit, executed>>,
           final.status # "raised" => final.error = None,
           AuditedAs(worker[w].turn, final),
           final.status = "answered" =>
              (final.result.tool_executed <=> Executed(worker[w].turn))
    PROVE  AuditInv'
<1> DEFINE f == worker[w]
<1>0. PICK mine : mine = f.turn
  OBVIOUS
<1>1. /\ DOMAIN worker = Workers /\ f.turn \in Turns /\ Running(w)
  BY DEF AuditInv, ReplayInv, TypeOK, WorkersOK, FrameOK, Running
<1>2. /\ worker'[w].pc = "idle"
      /\ \A v \in Workers : v # w => worker'[v] = worker[v]
  BY <1>1 DEF Finish, Goto, IdleFrame
<1>3. /\ Turns' = Turns /\ outcome'[f.turn] = final
      /\ \A t \in Turns : t # f.turn => outcome'[t] = outcome[t]
  BY <1>1 DEF Finish, Turns
<1>4. \A t : EventsOf(t)' = EventsOf(t)
  BY DEF EventsOf
<1>5. ASSUME NEW v \in Workers
      PROVE  StageFits(worker[v])' /\ ReportFits(worker[v])' /\ RanFits(worker[v])'
  <2>1. CASE v # w /\ Running(v)
    <3>1. worker[v].turn # f.turn /\ worker[v].turn \in Turns
      BY <1>1, <2>1 DEF AuditInv, ReplayInv, TurnsDistinct, TypeOK, WorkersOK,
         FrameOK, Running
    <3>2. QED
      BY <1>2, <1>3, <1>4, <2>1, <3>1, StandsStill
  <2>2. CASE v = w \/ ~Running(v)
    <3>1. worker'[v].pc = "idle"
      BY <1>2, <2>2 DEF Running
    <3>2. QED
      BY <3>1 DEF StageFits, ReportFits, RanFits, PastExecution
  <2>3. QED
    BY <2>1, <2>2
<1>6. EventsKnown' /\ ErrorsFit'
  BY <1>3 DEF AuditInv, EventsKnown, ErrorsFit
<1>7. AuditMatchesOutcome'
  <2>1. AuditedAs(mine, outcome[mine])'
    BY <1>0, <1>3, <1>4 DEF AuditedAs
  <2>2. ASSUME NEW t \in Turns, t # f.turn PROVE AuditedAs(t, outcome[t])'
    BY <1>3, <1>4, <2>2, AuditedKept DEF AuditInv, AuditMatchesOutcome
  <2>3. QED
    BY <1>0, <1>3, <2>1, <2>2 DEF AuditMatchesOutcome
<1>8. AuditMatchesExecution'
  BY <1>3 DEF AuditInv, AuditMatchesExecution, Executed
<1>9. QED
  BY <1>5, <1>6, <1>7, <1>8 DEF AuditInv, StagesFit, Reported, Ran

\* An exception that leaves a turn before its audit write leaves no event.
LEMMA RaiseAudits ==
    ASSUME AuditInv, ReplayInv', NEW w \in Workers, NEW path, NEW tenant, NEW error,
           worker[w].pc \in {"load", "generate", "audit"},
           error = "LLMAdapterError" => path = "vulnerable",
           Finish(w, Outcome("raised", path, tenant, error, None)),
           UNCHANGED <<audit, executed>>
    PROVE  AuditInv'
<1> DEFINE final == Outcome("raised", path, tenant, error, None)
<1>1. /\ final.status = "raised" /\ final.error = error /\ final.path = path
  BY DEF Outcome
<1> HIDE DEF final
<1>2. EventsOf(worker[w].turn) = {}
  BY DEF AuditInv, Reported, ReportFits
<1>3. AuditedAs(worker[w].turn, final)
  BY <1>1, <1>2 DEF AuditedAs
<1>4. QED
  BY <1>1, <1>3, FinishAudits DEF final

\* A turn on the vulnerable path without a tool call is answered unaudited.
LEMMA PlainVulnerableAudits ==
    ASSUME AuditInv, ReplayInv', NEW w \in Workers, NEW turn,
           worker[w].pc = "generate", worker[w].path = "vulnerable",
           Finish(w, Closing([worker[w] EXCEPT !.model_turn = turn,
                                               !.stage = "complete"])),
           UNCHANGED <<audit, executed>>
    PROVE  AuditInv'
<1> DEFINE g == [worker[w] EXCEPT !.model_turn = turn, !.stage = "complete"]
           final == Closing(g)
<1>1. g.stage = "complete" /\ g.path = "vulnerable"
  BY DEF AuditInv, ReplayInv, TypeOK, WorkersOK, FrameOK, FrameFields
<1> HIDE DEF g
<1>2. /\ final.status = "answered" /\ final.error = None
      /\ final.path = "vulnerable" /\ final.result = PipelineResult(g)
  BY <1>1 DEF Closing, Outcome
<1> HIDE DEF final
<1>3. /\ final.result.stage = "complete"
      /\ final.result.tool_executed = (g.stage = "simulation")
  BY <1>1, <1>2 DEF PipelineResult
<1>4. EventsOf(worker[w].turn) = {} /\ ~Executed(worker[w].turn)
  BY DEF AuditInv, Reported, ReportFits, Ran, RanFits, PastExecution
<1>5. AuditedAs(worker[w].turn, final)
  BY <1>2, <1>3, <1>4 DEF AuditedAs
<1>6. Finish(w, final) /\ worker[w].pc # "idle"
  BY DEF final, g
<1>7. QED
  BY <1>1, <1>2, <1>3, <1>4, <1>5, <1>6, FinishAudits

\* The caller is told what the turn's one event says.
LEMMA ReturnAudits ==
    ASSUME AuditInv, ReplayInv', NEW w \in Workers, Return(w) PROVE AuditInv'
<1> DEFINE f == worker[w]
           final == Closing(f)
<1>1. /\ f.pc = "return" /\ UNCHANGED <<audit, executed>> /\ Finish(w, final)
  BY DEF Return, At
<1>2. StageFits(f) /\ ReportFits(f) /\ RanFits(f) /\ f.path \in Paths
  BY <1>1 DEF AuditInv, StagesFit, Reported, Ran, ReplayInv, TypeOK, WorkersOK,
     FrameOK
<1>3. /\ f.path = "protected" \/ f.stage = "vulnerable_simulation"
      /\ f.stage = "llm_adapter" => f.path = "protected"
      /\ f.stage \in Stages
  BY <1>1, <1>2 DEF StageFits, Stages
<1>4. PICK i \in DOMAIN audit : EventsOf(f.turn) = {i} /\ audit[i] = AuditEvent(f)
  BY <1>1, <1>2 DEF ReportFits, Written
<1>5. /\ audit[i].stage = f.stage /\ audit[i].allowed = Allowed(f)
      /\ audit[i].policy_reason = Reason(f) /\ audit[i].event_type = EventType(f)
  BY <1>4 DEF AuditEvent
<1>6. CASE f.stage = "llm_adapter"
  <2>1. /\ final.status = "raised" /\ final.error = "LLMAdapterError"
        /\ final.path = "protected"
    BY <1>3, <1>6 DEF Closing, Outcome
  <2> HIDE DEF final
  <2>2. AuditedAs(f.turn, final)
    BY <1>3, <1>4, <1>5, <1>6, <2>1, EventTypes DEF AuditedAs
  <2>3. QED
    BY <1>1, <2>1, <2>2, FinishAudits
<1>7. CASE f.stage # "llm_adapter"
  <2>1. /\ final.status = "answered" /\ final.error = None
        /\ final.path = f.path /\ final.result = PipelineResult(f)
    BY <1>7 DEF Closing, Outcome
  <2> HIDE DEF final
  <2>2. /\ final.result.stage = f.stage /\ final.result.allowed = Allowed(f)
        /\ final.result.reason = Reason(f)
        /\ final.result.tool_executed = (f.stage = "simulation")
    BY <2>1 DEF PipelineResult
  <2>3. AuditedAs(f.turn, final)
    BY <1>3, <1>4, <1>5, <2>1, <2>2, NoneIsNoString DEF AuditedAs
  <2>4. f.stage = "simulation" <=> Executed(f.turn)
    BY <1>1, <1>2 DEF RanFits, PastExecution, Executed
  <2>5. QED
    BY <1>1, <2>1, <2>2, <2>3, <2>4, FinishAudits
<1>8. QED
  BY <1>6, <1>7

\* Every step of a turn keeps the invariant.
LEMMA TurnStepAudits ==
    ASSUME AuditInv, ReplayInv', NEW w \in Workers, TurnStep(w)
    PROVE  AuditInv'
<1> DEFINE f == worker[w]
<1>1. TypeOK /\ DOMAIN worker = Workers /\ DOMAIN f = FrameFields
  BY DEF AuditInv, ReplayInv, TypeOK, WorkersOK, FrameOK
<1>2. CASE LoadPolicyStep(w)
  <2>1. /\ Advances(w) /\ f.pc = "load" /\ worker'[w].pc = "generate"
        /\ worker'[w].path = f.path /\ UNCHANGED <<executed, outcome, audit>>
    BY <1>1, <1>2 DEF LoadPolicyStep, At, Goto, Advances, Running, FrameFields
  <2>2. QED
    BY <2>1, LocalAudits DEF StageFits, PastExecution
<1>3. CASE LoadPolicyFails(w)
  BY <1>3, RaiseAudits DEF LoadPolicyFails, At
<1>4. CASE GenerateProtected(w)
  BY <1>4, GenerateAudits
<1>5. CASE GenerateVulnerable(w)
  <2>1. /\ f.pc = "generate" /\ f.path = "vulnerable"
        /\ UNCHANGED <<executed, audit>>
    BY <1>5 DEF GenerateVulnerable, At
  <2>2. CASE Finish(w, Outcome("raised", "vulnerable", f.request.tenant_id,
                             "LLMAdapterError", None))
    BY <2>1, <2>2, RaiseAudits
  <2>3. CASE \E turn : Finish(w, Closing([f EXCEPT !.model_turn = turn,
                                                    !.stage = "complete"]))
    BY <2>1, <2>3, PlainVulnerableAudits
  <2>4. CASE /\ \E turn : Goto(w, [f EXCEPT !.pc = "audit", !.model_turn = turn,
                                            !.stage = "vulnerable_simulation"])
             /\ UNCHANGED outcome
    <3>1. /\ Advances(w) /\ worker'[w].pc = "audit" /\ worker'[w].path = f.path
          /\ worker'[w].stage = "vulnerable_simulation"
      BY <1>1, <2>1, <2>4 DEF Goto, Advances, Running, FrameFields
    <3>2. QED
      BY <2>1, <2>4, <3>1, LocalAudits DEF StageFits, PastExecution
  <2>5. QED
    BY <1>5, <2>2, <2>3, <2>4 DEF GenerateVulnerable
<1>6. CASE BrokerStep(w)
  BY <1>6, BrokerAudits
<1>7. CASE Simulate(w)
  BY <1>7, SimulateAudits
<1>8. CASE MarkUsed(w)
  <2>1. /\ Advances(w) /\ f.pc = "mark" /\ worker'[w].pc = "audit"
        /\ worker'[w].path = f.path /\ worker'[w].stage = f.stage
        /\ worker'[w].decision = f.decision
        /\ UNCHANGED <<executed, outcome, audit>>
    BY <1>1, <1>8 DEF MarkUsed, At, Goto, Advances, Running, FrameFields
  <2>2. f.path = "protected" /\ f.stage = "simulation"
    BY <2>1 DEF AuditInv, StagesFit, StageFits, ReplayInv, TypeOK, WorkersOK,
       FrameOK
  <2>3. QED
    BY <2>1, <2>2, LocalAudits DEF StageFits, PastExecution, Stages
<1>9. CASE WriteAudit(w)
  BY <1>9, WriteAudits
<1>10. CASE WriteAuditFails(w)
  BY <1>10, RaiseAudits DEF WriteAuditFails, At
<1>11. CASE Return(w)
  BY <1>11, ReturnAudits
<1>12. QED
  BY <1>2, <1>3, <1>4, <1>5, <1>6, <1>7, <1>8, <1>9, <1>10, <1>11 DEF TurnStep

\* The invariant is inductive.
LEMMA NextAuditInv == AuditInv /\ [Next]_vars => AuditInv'
<1> SUFFICES ASSUME AuditInv, [Next]_vars PROVE AuditInv'
  OBVIOUS
<1>1. ReplayInv'
  BY NextReplayInv DEF AuditInv
<1>2. CASE UNCHANGED vars \/ Tick \/ EditPolicy \/ MintToken \/ Quiet
  <2>1. UNCHANGED <<worker, executed, outcome, audit>>
    BY <1>2 DEF vars, Tick, EditPolicy, MintToken, Quiet
  <2>2. QED
    BY <1>1, <2>1, AsideAudits
<1>3. CASE Restart
  BY <1>1, <1>3, RestartAudits
<1>4. ASSUME NEW w \in Workers, BeginTurn(w) \/ TurnStep(w) PROVE AuditInv'
  BY <1>1, <1>4, BeginAudits, TurnStepAudits
<1>5. QED
  BY <1>2, <1>3, <1>4 DEF Next

LEMMA AuditInvariant == Spec => []AuditInv
BY InitAuditInv, NextAuditInv, PTL DEF Spec

\* Every turn's audit events say what its caller was told, and nothing is
\* answered or re-raised unaudited on the protected path (run_protected, its
\* audit writes and its exceptions), under any schedule, audit fault and
\* restart.
THEOREM AuditTellsOutcome == Spec => []AuditMatchesOutcome
<1>1. AuditInv => AuditMatchesOutcome
  BY DEF AuditInv
<1>2. QED
  BY <1>1, AuditInvariant, PTL

\* A tool_allowed event and an answer that reports an execution stand for an
\* execution of that turn (simulate_tool_execution), and an answered turn that
\* executed reports it.
THEOREM AuditTellsExecution == Spec => []AuditMatchesExecution
<1>1. AuditInv => AuditMatchesExecution
  BY DEF AuditInv
<1>2. QED
  BY <1>1, AuditInvariant, PTL

-----------------------------------------------------------------------------
(* How denials are classified *)

\* _blocked_event_type says approval_denied for the approval gate's reasons.
LEMMA ApprovalReasons ==
    ASSUME NEW reason
    PROVE  /\ BlockedEventType(reason) = "approval_denied"
                 <=> reason \in ApprovalTokenReasons \cup HumanApprovalReasons
           /\ \A decision :
                 reason \in ApprovalTokenReasons \cup HumanApprovalReasons =>
                    ApprovalRequiredFromReason(reason, decision)
BY DEF BlockedEventType, ApprovalRequiredFromReason, ApprovalTokenReasons,
   HumanApprovalReasons

\* The event of a turn whose stage fits is classified.
LEMMA EventClassified ==
    ASSUME NEW f, f.stage \in Stages,
           f.stage = "tool_broker" => DenialFits(f.decision)
    PROVE  LET event == AuditEvent(f) IN
           /\ (event.event_type = "approval_denied")
                 <=> (event.stage = "tool_broker" /\ event.approval_decision = "denied")
           /\ event.event_type = "approval_denied" => event.human_approval_required
           /\ event.event_type \in {"provenance_denied", "cross_tenant_blocked",
                                    "tool_blocked"} => event.approval_decision = None
<1> DEFINE event == AuditEvent(f)
           reason == f.decision.reason
<1>1. /\ event.event_type = EventType(f) /\ event.stage = f.stage
      /\ event.human_approval_required = HumanApprovalRequired(f)
      /\ f.stage = "tool_broker" =>
            event.approval_decision = f.decision.approval_decision
  BY DEF AuditEvent
<1> HIDE DEF event
<1>2. CASE f.stage = "tool_broker"
  <2>1. /\ EventType(f) = BlockedEventType(reason)
        /\ HumanApprovalRequired(f) =
              ApprovalRequiredFromReason(reason, f.decision.policy_decision)
    BY <1>2 DEF EventType, HumanApprovalRequired
  <2>2. /\ event.approval_decision \in {"denied", None}
        /\ event.approval_decision = "denied" <=>
              reason \in ApprovalTokenReasons \cup HumanApprovalReasons
    BY <1>1, <1>2 DEF DenialFits
  <2> HIDE DEF reason
  <2>3. QED
    BY <1>1, <1>2, <2>1, <2>2, ApprovalReasons DEF event
<1>3. CASE f.stage # "tool_broker"
  BY <1>1, <1>3, EventTypes DEF event
<1>4. QED
  BY <1>2, <1>3

\* The log grows only by the event of a turn at its audit write.
LEMMA LogSteps ==
    ASSUME [Next]_vars
    PROVE  UNCHANGED audit \/ \E w \in Workers : WriteAudit(w)
<1>1. CASE UNCHANGED vars \/ Tick \/ EditPolicy \/ MintToken \/ Restart \/ Quiet
  BY <1>1 DEF vars, Tick, EditPolicy, MintToken, Restart, Quiet
<1>2. ASSUME NEW w \in Workers, BeginTurn(w) \/ TurnStep(w)
      PROVE  UNCHANGED audit \/ WriteAudit(w)
  BY <1>2 DEF BeginTurn, TurnStep, LoadPolicyStep, LoadPolicyFails,
     GenerateProtected, GenerateVulnerable, BrokerStep, Simulate, MarkUsed,
     WriteAuditFails, Return
<1>3. QED
  BY <1>1, <1>2 DEF Next

\* The event type that _blocked_event_type derives from the wording of the
\* reason names the control that denied: whatever the policy, the token and
\* the call, approval_denied stands for the approval gate and for nothing else.
THEOREM DenialsAreClassified == Spec => []DenialsClassified
<1>1. Init => DenialsClassified
  BY DEF Init, DenialsClassified
<1>2. AuditInv /\ DenialsClassified /\ [Next]_vars => DenialsClassified'
  <2> SUFFICES ASSUME AuditInv, DenialsClassified, [Next]_vars
               PROVE  DenialsClassified'
    OBVIOUS
  <2>1. CASE UNCHANGED audit
    BY <2>1 DEF DenialsClassified
  <2>2. ASSUME NEW w \in Workers, WriteAudit(w) PROVE DenialsClassified'
    <3> DEFINE f == worker[w]
               event == AuditEvent(f)
    <3>1. IsSeq(audit) /\ audit' = Append(audit, event) /\ f.pc = "audit"
      BY <2>2 DEF WriteAudit, At, AuditInv, ReplayInv, TypeOK, StoreOK
    <3>2. StageFits(f) /\ f.path \in Paths
      BY <3>1 DEF AuditInv, StagesFit, ReplayInv, TypeOK, WorkersOK, FrameOK
    <3>3. f.stage \in Stages /\ (f.stage = "tool_broker" => DenialFits(f.decision))
      BY <3>1, <3>2 DEF StageFits, Stages
    <3>4. /\ (event.event_type = "approval_denied")
                <=> (event.stage = "tool_broker" /\ event.approval_decision = "denied")
          /\ event.event_type = "approval_denied" => event.human_approval_required
          /\ event.event_type \in {"provenance_denied", "cross_tenant_blocked",
                                   "tool_blocked"} => event.approval_decision = None
      BY <3>3, EventClassified
    <3> HIDE DEF event
    <3>5. \A i \in DOMAIN audit' :
             audit'[i] = event \/ (i \in DOMAIN audit /\ audit'[i] = audit[i])
      BY <3>1, AppendSeq
    <3>6. QED
      BY <3>4, <3>5 DEF DenialsClassified
  <2>3. QED
    BY <2>1, <2>2, LogSteps
<1>3. QED
  BY <1>1, <1>2, AuditInvariant, PTL DEF Spec

-----------------------------------------------------------------------------
(* What callers are shown *)

\* The severity of every finding blocks it from the internal display.
LEMMA DisplayBlocks ==
    ASSUME NEW text, NEW context, NEW structured,
           context.destination = "internal_display",
           Findings(text, context, structured) # {}
    PROVE  ShouldBlock(Findings(text, context, structured), context)
<1> DEFINE findings == Findings(text, context, structured)
<1>1. PICK type \in findings : TRUE
  OBVIOUS
<1>2. findings \subseteq DOMAIN FindingTable
  BY DEF Findings, SchemaFindings, PatternFindings, PatternTypes,
     TenantMarkerFindings, ClassificationFindings, SourceSensitivityFindings,
     FindingTable
<1>3. FindingTable[type].severity \in {"critical", "high", "medium"}
  BY <1>1, <1>2 DEF FindingTable
<1> HIDE DEF findings
<1>4. FindingTable[type].severity \in Severities(findings)
  BY <1>1 DEF Severities
<1>5. QED
  BY <1>3, <1>4 DEF ShouldBlock, findings

\* Whatever the filter hands to the internal display may be shown to the
\* context's tenant.
LEMMA DisplayIsClean ==
    ASSUME NEW text, NEW context, NEW structured,
           context.destination = "internal_display"
    PROVE  ShowableTo(context.tenant_id,
                      FilterOutput(text, context, structured).filtered_text)
<1> DEFINE findings == Findings(text, context, structured)
           shown == FilterOutput(text, context, structured).filtered_text
<1>1. CASE findings = {}
  <2>1. shown = text
    BY <1>1 DEF FilterOutput, OutputFilterResult
  <2>2. /\ PatternFindings(text) = {} /\ ClassificationFindings(text) = {}
        /\ TenantMarkerFindings(text, context) = {}
    BY <1>1 DEF Findings
  <2>3. ASSUME NEW marker \in text
        PROVE  marker.type \notin PatternTypes \cup {"sensitive_classification"}
    <3>1. marker.type \in MarkerTypes(text)
      BY DEF MarkerTypes
    <3>2. QED
      BY <2>2, <3>1 DEF PatternFindings, ClassificationFindings
  <2>4. ASSUME NEW marker \in text, marker.type = "tenant_marker",
               context.tenant_id # None
        PROVE  marker.tenant = context.tenant_id
    BY <2>2, <2>4 DEF TenantMarkerFindings
  <2>5. QED
    BY <2>1, <2>3, <2>4 DEF ShowableTo
<1>2. CASE findings # {}
  <2>1. ShouldBlock(findings, context)
    BY <1>2, DisplayBlocks
  <2>2. shown = {}
    BY <1>2, <2>1 DEF FilterOutput, OutputFilterResult
  <2>3. QED
    BY <2>2 DEF ShowableTo
<1>3. QED
  BY <1>1, <1>2

\* Only a turn at its return is answered on the protected path, with its own
\* result; every other step leaves such answers alone.
LEMMA AnswerSteps ==
    ASSUME ReplayInv, [Next]_vars, NEW t \in Turns',
           outcome'[t].status = "answered", outcome'[t].path = "protected"
    PROVE  \/ t \in Turns /\ outcome'[t] = outcome[t]
           \/ \E w \in Workers :
                 /\ worker[w].path = "protected"
                 /\ outcome'[t].tenant = worker[w].request.tenant_id
                 /\ outcome'[t].result = PipelineResult(worker[w])
<1>1. TypeOK /\ DOMAIN worker = Workers /\ IsSeq(outcome)
  BY DEF ReplayInv, TypeOK, TurnsOK, WorkersOK
<1>2. CASE UNCHANGED outcome
  BY <1>2 DEF Turns
<1>3. CASE Restart
  <2>1. Turns' = Turns
    BY <1>3 DEF Restart, Turns
  <2>2. DOMAIN outcome[t] = {"status", "path", "tenant", "error", "result"}
    BY <2>1 DEF ReplayInv, TypeOK, TurnsOK
  <2>3. ~Ended(t) => outcome'[t].status = "lost"
    BY <1>3, <2>1, <2>2 DEF Restart
  <2>4. QED
    BY <1>3, <2>1, <2>3 DEF Restart
<1>4. ASSUME NEW w \in Workers, BeginTurn(w)
      PROVE  t \in Turns /\ outcome'[t] = outcome[t]
  <2>1. PICK path, tenant :
           outcome' = Append(outcome, Outcome("running", path, tenant, None, None))
    BY <1>4 DEF BeginTurn
  <2>2. /\ Turns' = Turns \cup {Len(outcome) + 1}
        /\ outcome'[Len(outcome) + 1].status = "running"
        /\ \A u \in Turns : outcome'[u] = outcome[u]
    BY <1>1, <2>1, AppendSeq DEF Turns, Outcome
  <2>3. QED
    BY <2>2
<1>5. ASSUME NEW w \in Workers, NEW final, Finish(w, final), worker[w].pc # "idle",
             \/ final.status = "raised" \/ final.path = "vulnerable"
             \/ /\ final.path = worker[w].path
                /\ final.tenant = worker[w].request.tenant_id
                /\ final.result = PipelineResult(worker[w])
      PROVE  \/ t \in Turns /\ outcome'[t] = outcome[t]
             \/ /\ worker[w].path = "protected"
                /\ outcome'[t].tenant = worker[w].request.tenant_id
                /\ outcome'[t].result = PipelineResult(worker[w])
  <2>1. /\ worker[w].turn \in Turns /\ Turns' = Turns
        /\ outcome'[worker[w].turn] = final
        /\ \A u \in Turns : u # worker[w].turn => outcome'[u] = outcome[u]
    BY <1>1, <1>5 DEF Finish, Turns, TypeOK, WorkersOK, FrameOK
  <2>2. QED
    BY <1>5, <2>1
<1>6. ASSUME NEW w \in Workers, GenerateVulnerable(w)
      PROVE  \/ UNCHANGED outcome
             \/ \E final : Finish(w, final) /\ final.path = "vulnerable"
  <2> DEFINE f == worker[w]
  <2>1. PICK turn \in Candidates(config.llm_adapter_mode, f.request) :
           \/ Finish(w, Outcome("raised", "vulnerable", f.request.tenant_id,
                             "LLMAdapterError", None))
           \/ Finish(w, Closing([f EXCEPT !.model_turn = turn, !.stage = "complete"]))
           \/ UNCHANGED outcome
    BY <1>6 DEF GenerateVulnerable
  <2>2. Outcome("raised", "vulnerable", f.request.tenant_id,
                             "LLMAdapterError", None).path = "vulnerable"
    BY DEF Outcome
  <2>3. Closing([f EXCEPT !.model_turn = turn, !.stage = "complete"]).path
           = "vulnerable"
    <3> DEFINE g == [f EXCEPT !.model_turn = turn, !.stage = "complete"]
    <3>1. g.path = "vulnerable"
      BY <1>6 DEF GenerateVulnerable, ReplayInv, TypeOK, WorkersOK, FrameOK,
         FrameFields
    <3> HIDE DEF g
    <3>2. Closing(g).path = "vulnerable"
      BY <3>1 DEF Closing, Outcome
    <3>3. QED
      BY <3>2 DEF g
  <2>4. QED
    BY <2>1, <2>2, <2>3
<1>7. ASSUME NEW w \in Workers, LoadPolicyFails(w) \/ WriteAuditFails(w)
      PROVE  \E final : Finish(w, final) /\ final.status = "raised"
  BY <1>7 DEF LoadPolicyFails, WriteAuditFails, Outcome
<1>8. ASSUME NEW w \in Workers, Return(w)
      PROVE  \E final : /\ Finish(w, final)
                        /\ \/ final.status = "raised"
                           \/ /\ final.path = worker[w].path
                              /\ final.tenant = worker[w].request.tenant_id
                              /\ final.result = PipelineResult(worker[w])
  <2>1. Finish(w, Closing(worker[w]))
    BY <1>8 DEF Return
  <2>2. \/ Closing(worker[w]).status = "raised"
        \/ /\ Closing(worker[w]).path = worker[w].path
           /\ Closing(worker[w]).tenant = worker[w].request.tenant_id
           /\ Closing(worker[w]).result = PipelineResult(worker[w])
    BY DEF Closing, Outcome
  <2>3. QED
    BY <2>1, <2>2
<1>9. ASSUME NEW w \in Workers, TurnStep(w)
      PROVE  \/ t \in Turns /\ outcome'[t] = outcome[t]
             \/ /\ worker[w].path = "protected"
                /\ outcome'[t].tenant = worker[w].request.tenant_id
                /\ outcome'[t].result = PipelineResult(worker[w])
  <2>1. worker[w].pc # "idle"
    BY <1>9 DEF TurnStep, At, LoadPolicyStep, LoadPolicyFails, GenerateProtected,
       GenerateVulnerable, BrokerStep, Simulate, MarkUsed, WriteAudit,
       WriteAuditFails, Return
  <2>2. CASE LoadPolicyFails(w) \/ WriteAuditFails(w)
    BY <1>5, <1>7, <2>1, <2>2
  <2>3. CASE GenerateVulnerable(w)
    BY <1>2, <1>5, <1>6, <2>1, <2>3 DEF Turns
  <2>4. CASE Return(w)
    BY <1>5, <1>8, <2>1, <2>4
  <2>5. CASE \/ LoadPolicyStep(w) \/ GenerateProtected(w) \/ BrokerStep(w)
             \/ Simulate(w) \/ MarkUsed(w) \/ WriteAudit(w)
    BY <2>5 DEF LoadPolicyStep, GenerateProtected, BrokerStep, Simulate, MarkUsed,
       WriteAudit, Turns
  <2>6. QED
    BY <1>9, <2>2, <2>3, <2>4, <2>5 DEF TurnStep
<1>10. CASE Tick \/ EditPolicy \/ MintToken \/ Quiet \/ UNCHANGED vars
  BY <1>2, <1>10 DEF Tick, EditPolicy, MintToken, Quiet, vars
<1>11. QED
  BY <1>3, <1>4, <1>9, <1>10 DEF Next

\* The text a protected turn shows its caller holds no secret, token, key,
\* encoded or random-looking string, no classification label and no other
\* tenant's name, whatever the model said and the request retrieved.
THEOREM ShownTextStaysClean == Spec => []ShownTextIsClean
<1>1. Init => ShownTextIsClean
  BY DEF Init, ShownTextIsClean, Turns
<1>2. ASSUME NEW f, f.path = "protected"
      PROVE  ShowableTo(f.request.tenant_id, PipelineResult(f).filtered_output)
  <2>1. PipelineResult(f).filtered_output = Filtered(f).filtered_text
    BY <1>2 DEF PipelineResult
  <2>2. /\ FilterContext(f).destination = "internal_display"
        /\ FilterContext(f).tenant_id = f.request.tenant_id
    BY DEF FilterContext, BuildFilterContextFromRequest
  <2>3. ShowableTo(FilterContext(f).tenant_id, Filtered(f).filtered_text)
    BY <2>2, DisplayIsClean DEF Filtered
  <2>4. QED
    BY <2>1, <2>2, <2>3
<1>3. ReplayInv /\ ShownTextIsClean /\ [Next]_vars => ShownTextIsClean'
  <2> SUFFICES ASSUME ReplayInv, ShownTextIsClean, [Next]_vars,
                      NEW t \in Turns', outcome'[t].status = "answered",
                      outcome'[t].path = "protected"
               PROVE  ShowableTo(outcome'[t].tenant,
                                 outcome'[t].result.filtered_output)
    BY DEF ShownTextIsClean, ShowableTo
  <2>1. CASE t \in Turns /\ outcome'[t] = outcome[t]
    BY <2>1 DEF ShownTextIsClean
  <2>2. ASSUME NEW w \in Workers, worker[w].path = "protected",
               outcome'[t].tenant = worker[w].request.tenant_id,
               outcome'[t].result = PipelineResult(worker[w])
        PROVE  ShowableTo(outcome'[t].tenant, outcome'[t].result.filtered_output)
    BY <1>2, <2>2
  <2>3. QED
    BY <2>1, <2>2, AnswerSteps
<1>4. Spec => []ReplayInv
  BY InitReplayInv, NextReplayInv, PTL DEF Spec
<1>5. QED
  BY <1>1, <1>3, <1>4, PTL DEF Spec

-----------------------------------------------------------------------------
(* What is never rewritten *)

\* A sequence is a prefix of itself and of what is appended to it.
LEMMA PrefixKept ==
    ASSUME NEW s, IsSeq(s)
    PROVE  /\ Len(s) <= Len(s) /\ SubSeq(s, 1, Len(s)) = s
           /\ \A x : /\ Len(s) <= Len(Append(s, x))
                     /\ SubSeq(Append(s, x), 1, Len(s)) = s
<1>1. Len(s) \in Nat /\ SubSeq(s, 1, Len(s)) = s
  BY DEF IsSeq
<1>2. ASSUME NEW x PROVE SubSeq(Append(s, x), 1, Len(s)) = s
  <2> DEFINE S == {s[i] : i \in DOMAIN s} \cup {x}
  <2>1. s \in Seq(S) /\ x \in S
    BY DEF IsSeq
  <2> HIDE DEF S
  <2>2. Append(s, x) \in Seq(S) /\ Len(Append(s, x)) = Len(s) + 1
    BY <2>1, AppendSeq
  <2>3. QED
    BY <2>1, <2>2
<1>3. QED
  BY <1>1, <1>2, AppendSeq

\* Every step keeps the history, the ended turns because a step of a turn ends
\* only the turn it runs, which has not ended.
LEMMA NextKeepsHistory == ReplayInv /\ [Next]_vars => KeepsHistory
<1> SUFFICES ASSUME ReplayInv, [Next]_vars PROVE KeepsHistory
  OBVIOUS
<1>1. TypeOK /\ IsSeq(audit) /\ IsSeq(outcome) /\ epoch \in Nat
  BY DEF ReplayInv, TypeOK, StoreOK, TurnsOK
<1>2. Len(audit) <= Len(audit') /\ SubSeq(audit', 1, Len(audit)) = audit
  <2>1. ASSUME NEW w \in Workers, WriteAudit(w)
        PROVE  audit' = Append(audit, AuditEvent(worker[w]))
    BY <2>1 DEF WriteAudit
  <2>2. UNCHANGED audit \/ \E x : audit' = Append(audit, x)
    BY <2>1, LogSteps
  <2>3. QED
    BY <1>1, <2>2, PrefixKept
<1>3. /\ \A t \in Turns : Ended(t) => outcome'[t] = outcome[t]
      /\ epoch' = epoch => used \subseteq used'
  <2>1. CASE UNCHANGED <<outcome, used>>
    BY <2>1
  <2>2. CASE Restart
    BY <1>1, <2>2 DEF Restart
  <2>3. ASSUME NEW w \in Workers, BeginTurn(w)
        PROVE  UNCHANGED used /\ \A t \in Turns : outcome'[t] = outcome[t]
    BY <1>1, <2>3, AppendSeq DEF BeginTurn, Turns
  <2>4. ASSUME NEW w \in Workers, worker[w].pc # "idle", NEW final,
               Finish(w, final)
        PROVE  \A t \in Turns : Ended(t) => outcome'[t] = outcome[t]
    <3>1. ~Ended(worker[w].turn)
      BY <2>4 DEF ReplayInv, TurnsDistinct, Running
    <3>2. QED
      BY <2>4, <3>1 DEF Finish, Turns
  <2>5. ASSUME NEW w \in Workers, TurnStep(w)
        PROVE  /\ used \subseteq used'
               /\ UNCHANGED outcome \/ \E final : Finish(w, final)
               /\ worker[w].pc # "idle"
    BY <2>5 DEF TurnStep, At, LoadPolicyStep, LoadPolicyFails, GenerateProtected,
       GenerateVulnerable, BrokerStep, Simulate, MarkUsed, WriteAudit,
       WriteAuditFails, Return
  <2>6. CASE Tick \/ EditPolicy \/ MintToken \/ Quiet \/ UNCHANGED vars
    BY <2>1, <2>6 DEF Tick, EditPolicy, MintToken, Quiet, vars
  <2>7. QED
    BY <2>2, <2>3, <2>4, <2>5, <2>6 DEF Next
<1>4. QED
  BY <1>2, <1>3 DEF KeepsHistory

\* Nothing but a restart forgets: events are appended and never rewritten, a
\* turn that ended keeps its outcome, a used approval id stays in
\* _USED_APPROVAL_IDS while the process lives.
THEOREM HistoryIsKept == Spec => OnlyRestartForgets
<1>1. ReplayInv /\ [Next]_vars => [KeepsHistory]_vars
  BY NextKeepsHistory
<1>2. Spec => []ReplayInv
  BY InitReplayInv, NextReplayInv, PTL DEF Spec
<1>3. QED
  BY <1>1, <1>2, PTL DEF Spec, OnlyRestartForgets

=============================================================================
