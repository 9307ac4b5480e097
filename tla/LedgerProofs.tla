---------------------------- MODULE LedgerProofs ----------------------------
(***************************************************************************)
(* A pipeline that serves one request at a time spends every approval once *)
(* and implements the approval ledger, for any policy files, requests,     *)
(* model output, tokens, restarts and audit faults.                        *)
(*                                                                         *)
(* Whatever was executed under an approval is in the registry or about to  *)
(* be put there by a worker at its mark (Recorded), for any number of      *)
(* workers.  With one worker nobody is at the mark while a turn is in the  *)
(* broker, so a turn let through is the first of its approval (Unspent).   *)
(***************************************************************************)
EXTENDS ReplayProofs, LedgerRefinement

\* One request at a time.
Serial == \A v, w \in Workers : v = w

\* An approval is named only where one was needed and a token given.
Needs(e) ==
    e.approval_id # None =>
        /\ ApprovalRequired(PolicyOf(e).tools[ToolOf(e).tool_name])
        /\ e.token # None

AtMark(w, id) ==
    /\ worker[w].pc = "mark"
    /\ worker[w].token # None
    /\ worker[w].token.approval_id = id

Recorded ==
    \A e \in executed : Spends(e) =>
        \/ e.approval_id \in used
        \/ \E w \in Workers : AtMark(w, e.approval_id)

Unspent ==
    \A w \in Workers :
        worker[w].pc = "simulate" /\ worker[w].decision.approval_id # None =>
            \A e \in executed :
                Spends(e) => e.approval_id # worker[w].decision.approval_id

LedgerInv ==
    /\ AuthorityInv /\ ReplayInv
    /\ \A e \in executed \cup Upcoming : Needs(e)
    /\ Recorded /\ Unspent /\ OneTimeUse

\* What the proofs below show of every step.
LedgerStep ==
    /\ \A e \in executed' \cup Upcoming' : Needs(e)'
    /\ Recorded' /\ Unspent' /\ OneTimeUse'

-----------------------------------------------------------------------------
(* The invariant *)

\* Initially nothing has been executed.
LEMMA InitLedgerInv == Init => LedgerInv
<1> SUFFICES ASSUME Init PROVE LedgerInv
  OBVIOUS
<1>1. executed = {} /\ \A w \in Workers : worker[w].pc = "idle"
  BY DEF Init, IdleFrame
<1>2. QED
  BY <1>1, InitAuthorityInv, InitReplayInv
     DEF LedgerInv, Upcoming, Recorded, Unspent, OneTimeUse

\* The policy an execution was decided on stays in the log.
LEMMA PolicyStable ==
    ASSUME TypeOK, StoresGrow, NEW e, Authorised(e)
    PROVE  PolicyOf(e)' = PolicyOf(e) /\ ToolOf(e)' = ToolOf(e)
<1>1. e.version \in 1 .. Len(policy_log) /\ Len(policy_log) \in Nat
  BY DEF Authorised, TypeOK, StoreOK
<1>2. QED
  BY <1>1 DEF StoresGrow, PolicyOf, ToolOf

\* What needed its approval still does.
LEMMA StillNeeds ==
    ASSUME LedgerInv, StoresGrow,
           executed' \cup Upcoming' \subseteq executed \cup Upcoming
    PROVE  \A e \in executed' \cup Upcoming' : Needs(e)'
<1>1. SUFFICES ASSUME NEW e \in executed \cup Upcoming PROVE Needs(e)'
  OBVIOUS
<1>2. TypeOK /\ Authorised(e) /\ Needs(e)
  BY DEF LedgerInv, AuthorityInv
<1>3. PolicyOf(e)' = PolicyOf(e) /\ ToolOf(e)' = ToolOf(e)
  BY <1>2, PolicyStable
<1>4. QED
  BY <1>2, <1>3 DEF Needs

\* A step that leaves the turns, the executions and the registry alone.
LEMMA AsideLedger ==
    ASSUME LedgerInv, StoresGrow, UNCHANGED <<worker, executed, used, epoch>>
    PROVE  LedgerStep
<1>1. executed' \cup Upcoming' \subseteq executed \cup Upcoming
  BY DEF Upcoming, Execution
<1>2. Recorded' /\ Unspent' /\ OneTimeUse'
  BY DEF LedgerInv, Recorded, AtMark, Unspent, Spends, OneTimeUse, SameApproval
<1>3. QED
  BY <1>1, <1>2, StillNeeds DEF LedgerStep

\* In a new life of the process nothing has been spent.
LEMMA RestartLedger == ASSUME LedgerInv, StoresGrow, Restart PROVE LedgerStep
<1>1. /\ executed' = executed /\ epoch' = epoch + 1 /\ epoch \in Nat
      /\ \A w \in Workers : worker'[w].pc = "idle"
  BY DEF Restart, IdleFrame, LedgerInv, ReplayInv, TypeOK, StoreOK
<1>2. executed' \cup Upcoming' \subseteq executed \cup Upcoming
  BY <1>1 DEF Upcoming
<1>3. \A e \in executed' : ~Spends(e)'
  BY <1>1 DEF LedgerInv, ReplayInv, Marked, Spends
<1>4. Recorded' /\ Unspent'
  BY <1>1, <1>3 DEF Recorded, Unspent
<1>5. OneTimeUse'
  BY <1>1 DEF LedgerInv, OneTimeUse, SameApproval
<1>6. QED
  BY <1>2, <1>4, <1>5, StillNeeds DEF LedgerStep

\* A worker that neither leaves the mark nor arrives at an execution.
LEMMA MoveLedger ==
    ASSUME LedgerInv, StoresGrow, NEW w \in Workers, Moves(w),
           worker[w].pc # "mark", worker'[w].pc # "simulate",
           UNCHANGED <<executed, used, epoch>>
    PROVE  LedgerStep
<1>1. executed' \cup Upcoming' \subseteq executed \cup Upcoming
  BY UpcomingShrinks
<1>2. Recorded'
  BY DEF LedgerInv, Recorded, AtMark, Spends, Moves
<1>3. Unspent'
  BY DEF LedgerInv, Unspent, Spends, Moves
<1>4. OneTimeUse'
  BY DEF LedgerInv, OneTimeUse, SameApproval
<1>5. QED
  BY <1>1, <1>2, <1>3, <1>4, StillNeeds DEF LedgerStep

\* The steps of a turn outside the broker, the execution and the mark.
LEMMA OtherSteps ==
    ASSUME TypeOK, NEW w \in Workers, BeginTurn(w) \/ TurnStep(w),
           ~BrokerStep(w), ~Simulate(w), ~MarkUsed(w)
    PROVE  /\ Moves(w) /\ worker[w].pc # "mark" /\ worker'[w].pc # "simulate"
           /\ UNCHANGED <<executed, used, epoch>>
<1>1. DOMAIN worker = Workers /\ DOMAIN worker[w] = FrameFields
  BY DEF TypeOK, WorkersOK, FrameOK
<1>2. CASE BeginTurn(w)
  BY <1>1, <1>2 DEF BeginTurn, Goto, At, Moves, IdleFrame
<1>3. CASE GenerateProtected(w)
  <2>1. worker'[w].pc \in {"audit", "broker"}
    BY <1>3, GenerateProtectedMoves
  <2>2. QED
    BY <1>1, <1>3, <2>1 DEF GenerateProtected, Goto, At, Moves
<1>4. CASE GenerateVulnerable(w)
  <2>1. worker[w].pc = "generate" /\ UNCHANGED <<executed, used, epoch>>
    BY <1>4 DEF GenerateVulnerable, At
  <2>2. CASE \E final : Finish(w, final)
    BY <1>1, <2>1, <2>2 DEF Finish, Goto, Moves, IdleFrame
  <2>3. CASE \E turn : Goto(w, [worker[w] EXCEPT !.pc = "audit",
                                  !.model_turn = turn,
                                  !.stage = "vulnerable_simulation"])
    BY <1>1, <2>1, <2>3 DEF Goto, Moves, FrameFields
  <2>4. QED
    BY <1>4, <2>2, <2>3 DEF GenerateVulnerable
<1>5. CASE LoadPolicyStep(w) \/ WriteAudit(w)
  BY <1>1, <1>5 DEF LoadPolicyStep, WriteAudit, Goto, At, Moves, FrameFields
<1>6. CASE LoadPolicyFails(w) \/ WriteAuditFails(w) \/ Return(w)
  BY <1>1, <1>6 DEF LoadPolicyFails, WriteAuditFails, Return, Finish, Goto, At,
     Moves, IdleFrame
<1>7. QED
  BY <1>2, <1>3, <1>4, <1>5, <1>6 DEF TurnStep

\* An allowed decision that names an approval needed it.
LEMMA BrokerNeeds ==
    ASSUME NEW f, Decide(f).allowed, Decide(f).approval_id # None
    PROVE  ApprovalRequired(LoadPolicy(policy_log[f.version])
                               .tools[f.model_turn.tool_call.tool_name])
<1> DEFINE policy == LoadPolicy(policy_log[f.version])
           call == f.model_turn.tool_call
           tool == policy.tools[call.tool_name]
           gate == EvaluateApprovalGate(f.request, f.token, tool, call,
                      config.require_approval_token, used, now)
<1>1. Decide(f) = BrokerToolRequest(f.request, f.token, policy, call, config,
                                    used, now)
  BY DEF Decide
<1>2. gate.approval_id # None
  <2> HIDE DEF policy, call
  <2>1. QED
    BY <1>1, BrokerMediates
<1>3. ApprovalRequired(tool)
  <2> HIDE DEF tool, call
  <2>1. QED
    BY <1>2 DEF EvaluateApprovalGate, ApprovalGateResult
<1>4. QED
  BY <1>3

\* With one worker, the broker lets a turn through under an approval only if
\* nothing has been executed under it.
LEMMA BrokerLedger ==
    ASSUME Serial, LedgerInv, StoresGrow, NEW w \in Workers, BrokerStep(w)
    PROVE  LedgerStep
<1> DEFINE f == worker[w]
<1>1. TypeOK /\ DOMAIN worker = Workers
  BY DEF LedgerInv, ReplayInv, TypeOK, WorkersOK
<1>2. /\ UNCHANGED <<executed, used, epoch, policy_log>> /\ f.pc = "broker" /\ Moves(w)
  BY <1>1 DEF BrokerStep, At, Goto, Moves
<1>3. /\ worker'[w].pc \in {"simulate", "audit"}
      /\ worker'[w].decision = Decide(f)
      /\ worker'[w].model_turn = f.model_turn
      /\ worker'[w].pc = "simulate" => Decide(f).allowed
      /\ SameTurn(f, worker'[w])
  BY <1>1, BrokerStepMoves
<1>4. ASSUME NEW x, worker'[w].pc = "simulate",
             x.approval_id = Decide(f).approval_id, x.token = f.token,
             x.version = f.version, x.model_turn = f.model_turn
      PROVE  Needs(x)'
  <2>1. SUFFICES ASSUME x.approval_id # None PROVE Needs(x)'
    BY DEF Needs
  <2>2. /\ ApprovalRequired(LoadPolicy(policy_log[f.version])
                               .tools[f.model_turn.tool_call.tool_name])
        /\ f.token # None
    BY <1>3, <1>4, <2>1, BrokerNeeds, BrokerGrants
  <2>3. QED
    BY <1>2, <1>4, <2>2 DEF Needs, PolicyOf, ToolOf
<1>5. \A e \in executed' \cup Upcoming' : Needs(e)'
  <2>1. SUFFICES ASSUME NEW e \in executed' \cup Upcoming' PROVE Needs(e)'
    OBVIOUS
  <2>2. \/ e \in executed \cup Upcoming
        \/ /\ worker'[w].pc = "simulate"
           /\ e.approval_id = Decide(f).approval_id /\ e.token = f.token
           /\ e.version = f.version /\ e.model_turn = f.model_turn
    BY <1>2, <1>3 DEF Upcoming, Execution, Moves, SameTurn
  <2>3. CASE e \in executed \cup Upcoming
    <3>1. Needs(e)
      BY <2>3 DEF LedgerInv
    <3>2. QED
      BY <1>2, <3>1 DEF Needs, PolicyOf, ToolOf
  <2>4. QED
    BY <1>4, <2>2, <2>3
<1>6. Recorded'
  BY <1>2 DEF LedgerInv, Recorded, AtMark, Spends, Moves
<1>7. Unspent'
  <2>1. SUFFICES ASSUME worker'[w].pc = "simulate", Decide(f).approval_id # None,
                        NEW e \in executed, Spends(e),
                        e.approval_id = Decide(f).approval_id
                 PROVE  FALSE
    BY <1>2, <1>3 DEF Serial, Unspent, Spends
  <2>2. e.approval_id \notin used
    BY <1>3, <2>1, BrokerGrants
  <2>3. \A v \in Workers : worker[v].pc # "mark"
    BY <1>2 DEF Serial
  <2>4. QED
    BY <2>1, <2>2, <2>3 DEF LedgerInv, Recorded, AtMark
<1>8. OneTimeUse'
  BY <1>2 DEF LedgerInv, OneTimeUse, SameApproval
<1>9. QED
  BY <1>5, <1>6, <1>7, <1>8 DEF LedgerStep

\* The execution is the first under its approval, and its worker is at the mark.
LEMMA SimulateLedger ==
    ASSUME Serial, LedgerInv, StoresGrow, NEW w \in Workers, Simulate(w)
    PROVE  LedgerStep
<1> DEFINE f == worker[w]
           x == Execution(w)
<1>1. /\ UNCHANGED <<used, epoch>> /\ f.pc = "simulate"
      /\ executed' = executed \cup {x}
  BY DEF Simulate, At
<1>2. x.epoch = epoch /\ x.approval_id = f.decision.approval_id
  BY DEF Execution
<1>3. x \in Upcoming
  BY <1>1 DEF Upcoming
<1> HIDE DEF x
<1>4. /\ TypeOK /\ DOMAIN worker = Workers /\ DOMAIN f = FrameFields
  BY DEF LedgerInv, ReplayInv, TypeOK, WorkersOK, FrameOK
<1>5. worker'[w].pc = "mark" /\ worker'[w].token = f.token
  BY <1>4, SimulateMoves DEF FrameFields
<1>6. \A v \in Workers : worker'[v].pc # "simulate"
  BY <1>5 DEF Serial
<1>7. executed' \cup Upcoming' \subseteq executed \cup Upcoming
  BY <1>1, <1>3, <1>6 DEF Upcoming
<1>8. Recorded'
  <2>1. SUFFICES ASSUME NEW e \in executed', Spends(e)
                 PROVE  e.approval_id \in used \/ AtMark(w, e.approval_id)'
    BY <1>1 DEF Recorded, Spends
  <2>2. CASE e = x
    BY <1>1, <1>2, <1>5, <2>1, <2>2 DEF LedgerInv, ReplayInv, Granted, AtMark, Spends
  <2>3. CASE e \in executed
    <3>1. \A v \in Workers : worker[v].pc # "mark"
      BY <1>1 DEF Serial
    <3>2. QED
      BY <2>1, <2>3, <3>1 DEF LedgerInv, Recorded, AtMark
  <2>4. QED
    BY <1>1, <2>2, <2>3
<1>9. Unspent'
  BY <1>6 DEF Unspent
<1>10. OneTimeUse'
  <2>1. SUFFICES ASSUME NEW d \in executed', NEW e \in executed', SameApproval(d, e)
                 PROVE  FALSE
    BY DEF OneTimeUse
  <2>2. \A o \in executed : o.epoch = epoch /\ o.approval_id = x.approval_id
                               => x.approval_id = None
    BY <1>1, <1>2 DEF LedgerInv, Unspent, Spends
  <2>3. QED
    BY <1>1, <1>2, <2>1, <2>2 DEF LedgerInv, OneTimeUse, SameApproval
<1>11. QED
  BY <1>7, <1>8, <1>9, <1>10, StillNeeds DEF LedgerStep

\* The mark records what its worker has executed.
LEMMA MarkLedger ==
    ASSUME LedgerInv, StoresGrow, NEW w \in Workers, MarkUsed(w)
    PROVE  LedgerStep
<1> DEFINE f == worker[w]
<1>1. TypeOK /\ DOMAIN worker = Workers /\ DOMAIN f = FrameFields
  BY DEF LedgerInv, ReplayInv, TypeOK, WorkersOK, FrameOK
<1>2. /\ UNCHANGED <<executed, epoch>> /\ f.pc = "mark"
      /\ used \subseteq used' /\ Moves(w)
      /\ f.token # None => f.token.approval_id \in used'
  BY <1>1 DEF MarkUsed, At, Goto, Moves
<1>3. worker'[w].pc = "audit"
  BY <1>1, MarkUsedMoves DEF FrameFields
<1>4. executed' \cup Upcoming' \subseteq executed \cup Upcoming
  BY <1>2, <1>3, UpcomingShrinks
<1>5. Recorded'
  <2>1. SUFFICES ASSUME NEW e \in executed, Spends(e)
                 PROVE  \/ e.approval_id \in used'
                        \/ \E v \in Workers : AtMark(v, e.approval_id)'
    BY <1>2 DEF Recorded, Spends
  <2>2. CASE e.approval_id \in used
    BY <1>2, <2>2
  <2>3. CASE \E v \in Workers : AtMark(v, e.approval_id)
    BY <1>2, <2>3 DEF AtMark, Moves
  <2>4. QED
    BY <2>1, <2>2, <2>3 DEF LedgerInv, Recorded
<1>6. Unspent'
  BY <1>2, <1>3 DEF LedgerInv, Unspent, Spends, Moves
<1>7. OneTimeUse'
  BY <1>2 DEF LedgerInv, OneTimeUse, SameApproval
<1>8. QED
  BY <1>4, <1>5, <1>6, <1>7, StillNeeds DEF LedgerStep

\* The invariant is inductive for one worker.
LEMMA NextLedgerInv == ASSUME Serial PROVE LedgerInv /\ [Next]_vars => LedgerInv'
<1> SUFFICES ASSUME LedgerInv, [Next]_vars PROVE LedgerInv'
  OBVIOUS
<1>1. TypeOK /\ AuthorityInv' /\ ReplayInv' /\ StoresGrow
  BY NextAuthorityInv, NextReplayInv, NextGrows DEF LedgerInv, AuthorityInv
<1>2. CASE UNCHANGED vars \/ Tick \/ EditPolicy \/ MintToken \/ Quiet
  <2>1. UNCHANGED <<worker, executed, used, epoch>>
    BY <1>2 DEF vars, Tick, EditPolicy, MintToken, Quiet
  <2>2. QED
    BY <1>1, <2>1, AsideLedger DEF LedgerInv, LedgerStep
<1>3. CASE Restart
  BY <1>1, <1>3, RestartLedger DEF LedgerInv, LedgerStep
<1>4. ASSUME NEW w \in Workers, BeginTurn(w) \/ TurnStep(w) PROVE LedgerStep
  <2>1. CASE BrokerStep(w)
    BY <1>1, <2>1, BrokerLedger
  <2>2. CASE Simulate(w)
    BY <1>1, <2>2, SimulateLedger
  <2>3. CASE MarkUsed(w)
    BY <1>1, <2>3, MarkLedger
  <2>4. CASE ~BrokerStep(w) /\ ~Simulate(w) /\ ~MarkUsed(w)
    BY <1>1, <1>4, <2>4, OtherSteps, MoveLedger
  <2>5. QED
    BY <2>1, <2>2, <2>3, <2>4
<1>5. QED
  BY <1>1, <1>2, <1>3, <1>4 DEF Next, LedgerInv, LedgerStep

\* The invariant of a pipeline with one worker.
LEMMA LedgerInvariant == ASSUME Serial PROVE Spec => []LedgerInv
<1>1. Init => LedgerInv
  BY InitLedgerInv
<1>2. LedgerInv /\ [Next]_vars => LedgerInv'
  BY NextLedgerInv
<1>3. QED
  BY <1>1, <1>2, PTL DEF Spec

\* One request at a time, an approval token authorises at most one execution
\* per life of the process.
THEOREM SerialOneTimeUse == ASSUME Serial PROVE Spec => []OneTimeUse
<1>1. LedgerInv => OneTimeUse
  BY DEF LedgerInv
<1>2. QED
  BY <1>1, LedgerInvariant, PTL

-----------------------------------------------------------------------------
(* The refinement *)

\* The ledger starts empty.
LEMMA InitRefines == Init => Ledger!Init
<1> SUFFICES ASSUME Init PROVE Grants = << >> /\ Spendings = {}
  BY DEF Ledger!Init
<1>1. approvals = << >> /\ executed = {}
  BY DEF Init
<1>2. Grants = << >>
  BY <1>1 DEF Grants
<1>3. QED
  BY <1>1, <1>2 DEF Spendings, SpendingExecutions

\* What an execution spends does not change when the stores grow.
LEMMA SpendingStable ==
    ASSUME LedgerInv, StoresGrow, NEW e \in executed
    PROVE  SpendingOf(e)' = SpendingOf(e)
<1>1. PolicyOf(e)' = PolicyOf(e) /\ ToolOf(e)' = ToolOf(e)
  BY PolicyStable DEF LedgerInv, AuthorityInv
<1>2. QED
  BY <1>1 DEF SpendingOf, BoundAction

\* Steps that execute nothing spend nothing.
LEMMA SpendingsKept ==
    ASSUME LedgerInv, StoresGrow, UNCHANGED <<executed, epoch>>
    PROVE  Spendings' = Spendings
<1>1. SpendingExecutions' = SpendingExecutions
  BY DEF SpendingExecutions
<1>2. \A e \in SpendingExecutions : SpendingOf(e)' = SpendingOf(e)
  BY SpendingStable DEF SpendingExecutions
<1>3. QED
  BY <1>1, <1>2 DEF Spendings

\* Approving an action grants it.
LEMMA MintRefines ==
    ASSUME LedgerInv, StoresGrow, MintToken PROVE Ledger!Grant
<1> DEFINE tools == LoadPolicy(CurrentPolicyFile).tools
           n == Len(approvals) + 1
<1>1. PICK a \in Approvable :
         /\ a.call.tool_name \in DOMAIN tools
         /\ approvals' = Append(approvals,
               [token |-> CreateApprovalToken(n, a.request, a.call,
                             tools[a.call.tool_name], TTL, now),
                request |-> a.request, call |-> a.call])
  BY DEF MintToken
<1>2. /\ UNCHANGED <<executed, epoch>> /\ ~LoadPolicyRaises(CurrentPolicyFile)
  BY DEF MintToken
<1>3. CurrentPolicyFile \in PolicyFiles
  BY DEF CurrentPolicyFile, LedgerInv, AuthorityInv, TypeOK, StoreOK
<1>4. IsSeq(approvals) /\ Len(approvals) \in Nat /\ DOMAIN approvals = 1 .. Len(approvals)
  BY SeqDomain DEF LedgerInv, AuthorityInv, TypeOK, StoreOK
<1> DEFINE risk == tools[a.call.tool_name].risk_level
           g == Grants'[n]
<1>5. risk \in RiskLevels
  BY <1>1, <1>2, <1>3 DEF RiskLevels
<1> HIDE DEF tools
<1>6. /\ DOMAIN approvals' = 1 .. n
      /\ \A i \in 1 .. Len(approvals) : approvals'[i] = approvals[i]
      /\ approvals'[n].request = a.request /\ approvals'[n].call = a.call
      /\ approvals'[n].token = CreateApprovalToken(n, a.request, a.call,
                                  tools[a.call.tool_name], TTL, now)
  BY <1>1, <1>4
<1>7. approvals'[n].token.risk_level = risk
  BY <1>6 DEF CreateApprovalToken, CanonicalActionPayload
<1> HIDE DEF risk
<1>8. g.action = BoundAction(a.request, a.call, risk)
  BY <1>4, <1>6, <1>7 DEF Grants
<1>9. g.action \in GrantableActions
  BY <1>5, <1>8 DEF GrantableActions
<1>10. /\ Grants' = Append(Grants, g)
       /\ g \in {Grants'[i] : i \in DOMAIN Grants'}
  <2>1. /\ DOMAIN Grants' = 1 .. n /\ DOMAIN Grants = 1 .. Len(approvals)
        /\ \A i \in 1 .. Len(approvals) : Grants'[i] = Grants[i]
    BY <1>4, <1>6 DEF Grants
  <2>2. Grants \in Seq({Grants[i] : i \in DOMAIN Grants}) /\ Len(Grants) = Len(approvals)
    BY <1>4, <2>1 DEF Grants
  <2>3. Grants' = [i \in 1 .. n |-> Grants'[i]]
    BY <2>1 DEF Grants
  <2>4. QED
    BY <1>4, <2>1, <2>2, <2>3
<1>11. Spendings' = Spendings
  BY <1>2, SpendingsKept
<1> HIDE DEF g
<1>12. QED
  BY <1>9, <1>10, <1>11 DEF Ledger!Grant

\* Executing under an approval spends its grant, the first time.
LEMMA SimulateRefines ==
    ASSUME LedgerInv, StoresGrow, NEW w \in Workers, Simulate(w)
    PROVE  Ledger!Spend \/ UNCHANGED <<Grants, Spendings>>
<1> DEFINE x == Execution(w)
           id == x.approval_id
           s == SpendingOf(x)
<1>1. /\ UNCHANGED <<approvals, epoch, policy_log>> /\ executed' = executed \cup {x}
      /\ worker[w].pc = "simulate"
  BY DEF Simulate, At
<1>2. /\ x.epoch = epoch /\ id = worker[w].decision.approval_id
      /\ x \in Upcoming
  BY <1>1 DEF Execution, Upcoming
<1> HIDE DEF x
<1>3. Authorised(x) /\ Needs(x) /\ TypeOK
  BY <1>2 DEF LedgerInv, AuthorityInv
<1>4. Grants' = Grants
  BY <1>1 DEF Grants
<1>5. \A e : SpendingOf(e)' = SpendingOf(e)
  BY <1>1 DEF SpendingOf, PolicyOf, ToolOf, BoundAction
<1>6. CASE id = None
  <2>1. SpendingExecutions' = SpendingExecutions
    BY <1>1, <1>6 DEF SpendingExecutions
  <2>2. Spendings' = Spendings
    BY <1>5, <2>1 DEF Spendings
  <2>3. QED
    BY <1>4, <2>2
<1>7. CASE id # None
  <2>1. SpendingExecutions' = SpendingExecutions \cup {x}
    BY <1>1, <1>2, <1>7 DEF SpendingExecutions
  <2>2. Spendings' = Spendings \cup {s}
    BY <1>5, <2>1 DEF Spendings
  <2>3. /\ x.token # None /\ x.token \in TokensHeld
        /\ id = x.token.approval_id /\ approvals[id].token = x.token
        /\ x.checked_at <= x.token.expires_at /\ SameAction(approvals[id], x)
    BY <1>3, <1>7 DEF Needs, Authorised, Covered
  <2>4. id \in DOMAIN approvals
    BY <1>3, <2>3, HeldToken
  <2>5. s.id = id /\ s.checked_at = x.checked_at
    BY DEF SpendingOf
  <2>6. s.action = Grants[id].action /\ s.checked_at <= Grants[id].until
    BY <2>3, <2>4 DEF SameAction, SpendingOf, BoundAction, Grants
  <2>7. \A other \in Spendings : other.id # id
    BY <1>1, <1>2, <1>7
       DEF LedgerInv, Unspent, Spends, Spendings, SpendingExecutions, SpendingOf
  <2>8. DOMAIN Grants = DOMAIN approvals
    BY DEF Grants
  <2> HIDE DEF s, id
  <2>9. QED
    BY <1>4, <2>2, <2>4, <2>5, <2>6, <2>7, <2>8 DEF Ledger!Spend
<1>8. QED
  BY <1>6, <1>7

\* A new process has all grants unspent.
LEMMA RestartRefines == ASSUME LedgerInv, Restart PROVE Ledger!Forget
<1>1. UNCHANGED <<approvals, executed>> /\ epoch' = epoch + 1 /\ epoch \in Nat
  BY DEF Restart, LedgerInv, ReplayInv, TypeOK, StoreOK
<1>2. SpendingExecutions' = {}
  BY <1>1 DEF SpendingExecutions, LedgerInv, ReplayInv, Marked
<1>3. Spendings' = {} /\ Grants' = Grants
  BY <1>1, <1>2 DEF Spendings, Grants
<1>4. QED
  BY <1>3 DEF Ledger!Forget

\* Every step of the pipeline is a step of the ledger or leaves it alone.
LEMMA NextRefines ==
    ASSUME LedgerInv, [Next]_vars PROVE [Ledger!Next]_<<Grants, Spendings>>
<1>1. StoresGrow /\ TypeOK
  BY NextGrows DEF LedgerInv, AuthorityInv
<1>2. CASE MintToken
  BY <1>1, <1>2, MintRefines DEF Ledger!Next
<1>3. CASE Restart
  BY <1>3, RestartRefines DEF Ledger!Next
<1>4. CASE \E w \in Workers : Simulate(w)
  BY <1>1, <1>4, SimulateRefines DEF Ledger!Next
<1>5. CASE UNCHANGED <<approvals, executed, epoch>>
  <2>1. Grants' = Grants /\ Spendings' = Spendings
    BY <1>1, <1>5, SpendingsKept DEF Grants
  <2>2. QED
    BY <2>1
<1>6. \/ MintToken \/ Restart \/ \E w \in Workers : Simulate(w)
      \/ UNCHANGED <<approvals, executed, epoch>>
  BY DEF Next, vars, Tick, EditPolicy, Quiet, TurnStep, BeginTurn,
     LoadPolicyStep, LoadPolicyFails, GenerateProtected, GenerateVulnerable,
     BrokerStep, MarkUsed, WriteAudit, WriteAuditFails, Return
<1>7. QED
  BY <1>2, <1>3, <1>4, <1>5, <1>6

\* A pipeline that serves one request at a time implements the approval ledger.
THEOREM SerialKeepsLedger == ASSUME Serial PROVE Spec => KeepsLedger
<1>1. Init => Ledger!Init
  BY InitRefines
<1>2. LedgerInv /\ [Next]_vars => [Ledger!Next]_<<Grants, Spendings>>
  BY NextRefines
<1>3. QED
  BY <1>1, <1>2, LedgerInvariant, PTL DEF Spec, KeepsLedger, Ledger!Spec

=============================================================================
