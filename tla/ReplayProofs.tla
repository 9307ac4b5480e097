---------------------------- MODULE ReplayProofs ----------------------------
(***************************************************************************)
(* Replay is blocked, for any number of workers, turns and tokens.         *)
(*                                                                         *)
(* ReplayBlocked is not inductive: it says nothing of a turn the broker    *)
(* has let through and that has not executed yet.  The invariant adds that *)
(* such a turn carries the token its decision names (Granted) and that no  *)
(* execution under that token belongs to a turn which had ended when it    *)
(* began (NotSpentBefore).  The second holds because the execution of an   *)
(* ended turn has been marked (Marked), a turn being ended only after its  *)
(* mark; distinct workers run distinct turns that have not ended           *)
(* (TurnsDistinct, BegunBefore).                                           *)
(***************************************************************************)
EXTENDS AuthorityProofs

Running(w) == worker[w].pc # "idle"

\* Two workers never run one turn, and a turn that is run has not ended.
TurnsDistinct ==
    \A v \in Workers : Running(v) =>
        /\ ~Ended(worker[v].turn)
        /\ \A w \in Workers :
              Running(w) /\ worker[w].turn = worker[v].turn => w = v

\* The turns recorded as ended when a turn began have ended.
BegunBefore ==
    /\ \A w \in Workers : Running(w) =>
          \A t \in worker[w].begun.ended : t \in Turns /\ Ended(t)
    /\ \A e \in executed : \A t \in e.begun.ended : t \in Turns /\ Ended(t)

\* An execution under an approval in this life of the process.
Spends(e) == e.epoch = epoch /\ e.approval_id # None

\* What has been executed under an approval is marked before its turn ends.
Marked ==
    \A e \in executed :
        /\ e.epoch \in Nat /\ e.epoch <= epoch
        /\ Spends(e) =>
              /\ Ended(e.turn) => e.approval_id \in used
              /\ \A w \in Workers : Running(w) /\ worker[w].turn = e.turn =>
                    \/ /\ worker[w].pc = "mark"
                       /\ worker[w].token # None
                       /\ worker[w].token.approval_id = e.approval_id
                    \/ /\ worker[w].pc \in {"audit", "return"}
                       /\ e.approval_id \in used

\* A decision that names an approval names the one of the turn's token.
Granted ==
    \A w \in Workers :
        worker[w].pc = "simulate" /\ worker[w].decision.approval_id # None =>
            /\ worker[w].token # None
            /\ worker[w].token.approval_id = worker[w].decision.approval_id

\* A turn about to execute began before any turn that spent its approval ended.
NotSpentBefore ==
    \A w \in Workers : worker[w].pc = "simulate" =>
        \A e \in executed :
            Spends(e) /\ e.approval_id = worker[w].decision.approval_id =>
                e.turn \notin worker[w].begun.ended

ReplayInv ==
    /\ TypeOK /\ TurnsDistinct /\ BegunBefore /\ Marked /\ Granted
    /\ NotSpentBefore /\ ReplayBlocked

-----------------------------------------------------------------------------
(* The steps of the environment *)

\* Initially nothing runs and nothing has been executed.
LEMMA InitReplayInv == Init => ReplayInv
<1> SUFFICES ASSUME Init PROVE ReplayInv
  OBVIOUS
<1>1. TypeOK
  BY InitTypeOK
<1>2. executed = {} /\ \A w \in Workers : worker[w].pc = "idle"
  BY DEF Init, IdleFrame
<1>3. QED
  BY <1>1, <1>2 DEF ReplayInv, TurnsDistinct, BegunBefore, Marked, Granted,
     NotSpentBefore, ReplayBlocked, Running

\* A step that leaves turns, executions and the registry alone.
LEMMA AsideKeeps ==
    ASSUME ReplayInv, TypeOK',
           UNCHANGED <<worker, executed, outcome, used, epoch>>
    PROVE  ReplayInv'
BY DEF ReplayInv, TurnsDistinct, BegunBefore, Marked, Granted,
   NotSpentBefore, ReplayBlocked, SameApproval, Running, Ended, Turns, Spends

\* A restart starts another life, in which nothing has been spent.
LEMMA RestartKeeps == ASSUME ReplayInv, TypeOK', Restart PROVE ReplayInv'
<1>1. /\ executed' = executed /\ epoch' = epoch + 1 /\ epoch \in Nat
      /\ \A w \in Workers : worker'[w].pc = "idle"
  BY DEF Restart, IdleFrame, ReplayInv, TypeOK, StoreOK
<1>2. Turns' = Turns /\ \A t \in Turns : Ended(t) => Ended(t)'
  BY DEF Restart, Turns, Ended
<1>3. TurnsDistinct' /\ Granted' /\ NotSpentBefore'
  BY <1>1 DEF TurnsDistinct, Granted, NotSpentBefore, Running
<1>4. BegunBefore'
  BY <1>1, <1>2 DEF ReplayInv, BegunBefore, Running
<1>5. Marked'
  BY <1>1 DEF ReplayInv, Marked, Spends
<1>6. ReplayBlocked'
  BY <1>1 DEF ReplayInv, ReplayBlocked, SameApproval
<1>7. QED
  BY <1>3, <1>4, <1>5, <1>6 DEF ReplayInv

-----------------------------------------------------------------------------
(* The steps of a turn *)

\* Worker w moves on within its turn and the others stand still.
Advances(w) ==
    /\ Running(w) /\ Running(w)'
    /\ worker'[w].turn = worker[w].turn
    /\ worker'[w].begun = worker[w].begun
    /\ worker'[w].token = worker[w].token
    /\ \A v \in Workers : v # w => worker'[v] = worker[v]

\* Moving on within a turn keeps turns apart.
LEMMA AdvanceKeeps ==
    ASSUME ReplayInv, NEW w \in Workers, Advances(w), UNCHANGED outcome
    PROVE  TurnsDistinct'
<1>1. \A v \in Workers : Running(v)' => Running(v) /\ worker'[v].turn = worker[v].turn
  BY DEF Advances, Running
<1>2. QED
  BY <1>1 DEF ReplayInv, TurnsDistinct, Ended

\* Steps before the broker's and after the mark.
LEMMA LocalKeeps ==
    ASSUME ReplayInv, TypeOK', NEW w \in Workers, Advances(w),
           \/ /\ worker[w].pc \in {"load", "generate"}
              /\ worker'[w].pc \in {"generate", "broker", "audit"}
           \/ worker[w].pc = "audit" /\ worker'[w].pc = "return",
           UNCHANGED <<executed, outcome, used, epoch>>
    PROVE  ReplayInv'
<1>1. TurnsDistinct'
  BY AdvanceKeeps
<1>2. BegunBefore'
  BY DEF ReplayInv, BegunBefore, Advances, Running, Ended, Turns
<1>3. Marked'
  <2>1. SUFFICES ASSUME NEW e \in executed, Spends(e), NEW v \in Workers,
                        Running(v)', worker'[v].turn = e.turn
                 PROVE  \/ /\ worker'[v].pc = "mark"
                           /\ worker'[v].token # None
                           /\ worker'[v].token.approval_id = e.approval_id
                        \/ /\ worker'[v].pc \in {"audit", "return"}
                           /\ e.approval_id \in used
    BY DEF ReplayInv, Marked, Spends, Ended
  <2>2. Running(v) /\ worker[v].turn = e.turn
    BY <2>1 DEF Advances, Running
  <2>3. CASE v # w
    BY <2>1, <2>2, <2>3 DEF ReplayInv, Marked, Advances
  <2>4. CASE v = w
    BY <2>1, <2>2, <2>4 DEF ReplayInv, Marked
  <2>5. QED
    BY <2>3, <2>4
<1>4. Granted' /\ NotSpentBefore'
  BY DEF ReplayInv, Granted, NotSpentBefore, Advances, Spends
<1>5. ReplayBlocked'
  BY DEF ReplayInv, ReplayBlocked, SameApproval
<1>6. QED
  BY <1>1, <1>2, <1>3, <1>4, <1>5 DEF ReplayInv

\* The broker allows a turn under an approval only if that is its token's and
\* the registry does not hold it.
LEMMA BrokerGrants ==
    ASSUME NEW f, Decide(f).allowed, Decide(f).approval_id # None
    PROVE  /\ f.token # None
           /\ f.token.approval_id = Decide(f).approval_id
           /\ Decide(f).approval_id \notin used
<1> DEFINE policy == LoadPolicy(policy_log[f.version])
           call == f.model_turn.tool_call
           tool == policy.tools[call.tool_name]
           gate == EvaluateApprovalGate(f.request, f.token, tool, call,
                      config.require_approval_token, used, now)
<1>1. gate.allowed /\ Decide(f).approval_id = gate.approval_id
  <2>1. BrokerToolRequest(f.request, f.token, policy, call, config, used, now).allowed
    BY DEF Decide
  <2> HIDE DEF policy, call
  <2>2. /\ gate.allowed
        /\ BrokerToolRequest(f.request, f.token, policy, call, config, used,
                             now).approval_id = gate.approval_id
    BY <2>1, BrokerMediates
  <2>3. QED
    BY <2>2 DEF Decide, policy, call
<1>2. /\ f.token # None
      /\ gate.approval_id = f.token.approval_id
      /\ VerifyApprovalToken(f.token, f.request, call, tool.risk_level, used, now)
            = "approval_token_valid"
  <2> HIDE DEF tool, call
  <2>1. QED
    BY <1>1, GateSound
<1>3. f.token.approval_id \notin used
  <2> HIDE DEF tool, call
  <2>1. QED
    BY <1>2, VerifiedToken
<1>4. QED
  BY <1>1, <1>2, <1>3

\* A turn the broker lets through under an approval is the first to spend it
\* among those that had ended when it began.
LEMMA BrokerStepKeeps ==
    ASSUME ReplayInv, TypeOK', NEW w \in Workers, BrokerStep(w)
    PROVE  ReplayInv'
<1> DEFINE f == worker[w]
<1>1. UNCHANGED <<executed, outcome, used, epoch>> /\ f.pc = "broker"
  BY DEF BrokerStep, At
<1>2. /\ worker'[w].pc \in {"simulate", "audit"}
      /\ worker'[w].decision = Decide(f)
      /\ worker'[w].pc = "simulate" => Decide(f).allowed
      /\ SameTurn(f, worker'[w])
  BY BrokerStepMoves DEF ReplayInv
<1>3. Advances(w)
  BY <1>1, <1>2 DEF Advances, Running, SameTurn, BrokerStep, Goto, ReplayInv,
     TypeOK, WorkersOK
<1>4. TurnsDistinct'
  BY <1>1, <1>3, AdvanceKeeps
<1>5. BegunBefore'
  BY <1>1, <1>3 DEF ReplayInv, BegunBefore, Advances, Running, Ended, Turns
<1>6. Marked'
  <2>1. \A e \in executed : Spends(e) => e.turn # f.turn
    BY <1>1 DEF ReplayInv, Marked, Running
  <2>2. QED
    BY <1>1, <1>3, <2>1 DEF ReplayInv, Marked, Advances, Running, Ended, Spends
<1>7. Granted'
  BY <1>2, <1>3, BrokerGrants DEF ReplayInv, Granted, Advances, SameTurn
<1>8. NotSpentBefore'
  <2>1. SUFFICES ASSUME NEW v \in Workers, worker'[v].pc = "simulate",
                        NEW e \in executed, Spends(e),
                        e.approval_id = worker'[v].decision.approval_id
                 PROVE  e.turn \notin worker'[v].begun.ended
    BY <1>1 DEF NotSpentBefore, Spends
  <2>2. CASE v # w
    BY <1>3, <2>1, <2>2 DEF ReplayInv, NotSpentBefore, Advances
  <2>3. CASE v = w
    <3>1. e.approval_id \notin used
      BY <1>2, <2>1, <2>3, BrokerGrants DEF Spends
    <3>2. ~Ended(e.turn)
      BY <2>1, <3>1 DEF ReplayInv, Marked
    <3>3. QED
      BY <1>1, <1>3, <2>3, <3>2 DEF ReplayInv, BegunBefore, Advances
  <2>4. QED
    BY <2>2, <2>3
<1>9. ReplayBlocked'
  BY <1>1 DEF ReplayInv, ReplayBlocked, SameApproval
<1>10. QED
  BY <1>4, <1>5, <1>6, <1>7, <1>8, <1>9 DEF ReplayInv

\* Executing under an approval leaves the turn at its mark, which will record it.
LEMMA SimulateKeeps ==
    ASSUME ReplayInv, TypeOK', NEW w \in Workers, Simulate(w)
    PROVE  ReplayInv'
<1> DEFINE f == worker[w]
           x == Execution(w)
<1>1. /\ UNCHANGED <<outcome, used, epoch>> /\ f.pc = "simulate"
      /\ executed' = executed \cup {x}
  BY DEF Simulate, At
<1>2. /\ x.turn = f.turn /\ x.epoch = epoch /\ x.begun = f.begun
      /\ x.approval_id = f.decision.approval_id
  BY DEF Execution
<1> HIDE DEF x
<1>3. TypeOK /\ DOMAIN f = FrameFields /\ DOMAIN worker = Workers /\ epoch \in Nat
  BY DEF ReplayInv, TypeOK, StoreOK, WorkersOK, FrameOK
<1>4. worker'[w] = [f EXCEPT !.pc = "mark"]
  BY <1>3, SimulateMoves
<1>5. worker'[w].pc = "mark" /\ Advances(w)
  BY <1>1, <1>3, <1>4 DEF Advances, Running, FrameFields, Simulate, Goto
<1>6. TurnsDistinct'
  BY <1>1, <1>5, AdvanceKeeps
<1>7. ~Ended(f.turn) /\ \A t \in f.begun.ended : t \in Turns /\ Ended(t)
  BY <1>1 DEF ReplayInv, TurnsDistinct, BegunBefore, Running
<1>8. BegunBefore'
  BY <1>1, <1>2, <1>5, <1>7
     DEF ReplayInv, BegunBefore, Advances, Running, Ended, Turns
<1>9. Marked'
  <2>1. SUFFICES ASSUME NEW e \in executed', Spends(e)
                 PROVE  /\ Ended(e.turn) => e.approval_id \in used
                        /\ \A v \in Workers :
                             Running(v)' /\ worker'[v].turn = e.turn =>
                               \/ /\ worker'[v].pc = "mark"
                                  /\ worker'[v].token # None
                                  /\ worker'[v].token.approval_id = e.approval_id
                               \/ /\ worker'[v].pc \in {"audit", "return"}
                                  /\ e.approval_id \in used
    BY <1>1, <1>2, <1>3 DEF ReplayInv, Marked, Spends, Ended
  <2>2. CASE e \in executed
    <3>1. e.turn # f.turn
      BY <1>1, <2>1, <2>2 DEF ReplayInv, Marked, Running
    <3>2. QED
      BY <1>5, <2>1, <2>2, <3>1 DEF ReplayInv, Marked, Advances, Running
  <2>3. CASE e = x
    <3>1. \A v \in Workers : Running(v)' /\ worker'[v].turn = e.turn => v = w
      BY <1>1, <1>2, <1>5, <2>3 DEF ReplayInv, TurnsDistinct, Advances, Running
    <3>2. f.token # None /\ f.token.approval_id = e.approval_id
      BY <1>1, <1>2, <2>1, <2>3 DEF ReplayInv, Granted, Spends
    <3>3. QED
      BY <1>2, <1>5, <1>7, <2>3, <3>1, <3>2 DEF Advances
  <2>4. QED
    BY <1>1, <2>2, <2>3
<1>10. Granted'
  BY <1>5 DEF ReplayInv, Granted, Advances
<1>11. NotSpentBefore'
  <2>1. SUFFICES ASSUME NEW v \in Workers, worker'[v].pc = "simulate",
                        NEW e \in executed', Spends(e),
                        e.approval_id = worker'[v].decision.approval_id
                 PROVE  e.turn \notin worker'[v].begun.ended
    BY <1>1 DEF NotSpentBefore, Spends
  <2>2. v # w /\ worker'[v] = worker[v]
    BY <1>5, <2>1 DEF Advances
  <2>3. CASE e \in executed
    BY <2>1, <2>2, <2>3 DEF ReplayInv, NotSpentBefore
  <2>4. CASE e = x
    BY <1>2, <1>7, <2>1, <2>2, <2>4 DEF ReplayInv, BegunBefore, Running
  <2>5. QED
    BY <1>1, <2>3, <2>4
<1>12. ReplayBlocked'
  <2>1. SUFFICES ASSUME NEW d \in executed', NEW e \in executed', SameApproval(d, e)
                 PROVE  d.turn \notin e.begun.ended
    BY DEF ReplayBlocked
  <2>2. CASE d \in executed /\ e \in executed
    BY <2>1, <2>2 DEF ReplayInv, ReplayBlocked
  <2>3. CASE d \in executed /\ e = x
    BY <1>1, <1>2, <2>1, <2>3 DEF ReplayInv, NotSpentBefore, Spends, SameApproval
  <2>4. CASE d = x /\ e \in executed
    BY <1>2, <1>7, <2>4 DEF ReplayInv, BegunBefore
  <2>5. QED
    BY <1>1, <2>1, <2>2, <2>3, <2>4 DEF SameApproval
<1>13. QED
  BY <1>6, <1>8, <1>9, <1>10, <1>11, <1>12 DEF ReplayInv

\* The mark records what the turn has executed.
LEMMA MarkUsedKeeps ==
    ASSUME ReplayInv, TypeOK', NEW w \in Workers, MarkUsed(w)
    PROVE  ReplayInv'
<1> DEFINE f == worker[w]
<1>1. /\ UNCHANGED <<outcome, executed, epoch>> /\ f.pc = "mark"
      /\ used \subseteq used'
      /\ f.token # None => f.token.approval_id \in used'
  BY DEF MarkUsed, At
<1>2. TypeOK /\ DOMAIN f = FrameFields /\ DOMAIN worker = Workers
  BY DEF ReplayInv, TypeOK, WorkersOK, FrameOK
<1>3. worker'[w] = [f EXCEPT !.pc = "audit"]
  BY <1>2, MarkUsedMoves
<1>4. worker'[w].pc = "audit" /\ Advances(w)
  BY <1>1, <1>2, <1>3 DEF Advances, Running, FrameFields, MarkUsed, Goto
<1>5. TurnsDistinct'
  BY <1>1, <1>4, AdvanceKeeps
<1>6. BegunBefore'
  BY <1>1, <1>4 DEF ReplayInv, BegunBefore, Advances, Running, Ended, Turns
<1>7. Marked'
  <2>1. SUFFICES ASSUME NEW e \in executed, Spends(e)
                 PROVE  /\ Ended(e.turn) => e.approval_id \in used'
                        /\ \A v \in Workers :
                             Running(v)' /\ worker'[v].turn = e.turn =>
                               \/ /\ worker'[v].pc = "mark"
                                  /\ worker'[v].token # None
                                  /\ worker'[v].token.approval_id = e.approval_id
                               \/ /\ worker'[v].pc \in {"audit", "return"}
                                  /\ e.approval_id \in used'
    BY <1>1 DEF ReplayInv, Marked, Spends, Ended
  <2>2. Ended(e.turn) => e.approval_id \in used'
    BY <1>1, <2>1 DEF ReplayInv, Marked
  <2>3. ASSUME NEW v \in Workers, v # w, Running(v)', worker'[v].turn = e.turn
        PROVE  \/ /\ worker'[v].pc = "mark"
                  /\ worker'[v].token # None
                  /\ worker'[v].token.approval_id = e.approval_id
               \/ /\ worker'[v].pc \in {"audit", "return"}
                  /\ e.approval_id \in used'
    BY <1>1, <1>4, <2>1, <2>3 DEF ReplayInv, Marked, Advances, Running
  <2>4. worker'[w].turn = e.turn => e.approval_id \in used'
    BY <1>1, <1>4, <2>1 DEF ReplayInv, Marked, Advances, Running
  <2>5. QED
    BY <1>4, <2>2, <2>3, <2>4
<1>8. Granted' /\ NotSpentBefore'
  BY <1>1, <1>4 DEF ReplayInv, Granted, NotSpentBefore, Advances, Spends
<1>9. ReplayBlocked'
  BY <1>1 DEF ReplayInv, ReplayBlocked, SameApproval
<1>10. QED
  BY <1>5, <1>6, <1>7, <1>8, <1>9 DEF ReplayInv

\* A turn that ends has marked what it executed.
LEMMA FinishKeeps ==
    ASSUME ReplayInv, TypeOK', NEW w \in Workers,
           worker[w].pc \in {"load", "generate", "audit", "return"},
           NEW final, Finish(w, final), UNCHANGED <<executed, used, epoch>>
    PROVE  ReplayInv'
<1> DEFINE f == worker[w]
<1>1. /\ DOMAIN worker = Workers /\ f.turn \in Turns /\ Running(w)
      /\ \A e \in executed : e.turn \in Turns
  BY DEF ReplayInv, TypeOK, TurnsOK, WorkersOK, FrameOK, Running
<1>2. /\ worker'[w].pc = "idle"
      /\ \A v \in Workers : v # w => worker'[v] = worker[v]
  BY <1>1 DEF Finish, Goto, IdleFrame
<1>3. Turns' = Turns /\ \A t \in Turns : t # f.turn => outcome'[t] = outcome[t]
  BY <1>1 DEF Finish, Turns
<1>4. \A t \in Turns : t # f.turn => (Ended(t)' <=> Ended(t))
  BY <1>3 DEF Ended
<1>5. ~Ended(f.turn)
  BY <1>1 DEF ReplayInv, TurnsDistinct
<1>6. \A v \in Workers : Running(v)' => /\ v # w /\ Running(v)
                                        /\ worker'[v] = worker[v]
                                        /\ worker[v].turn \in Turns
                                        /\ worker[v].turn # f.turn
  <2>1. \A v \in Workers : Running(v) => worker[v].turn \in Turns
    BY DEF ReplayInv, TypeOK, WorkersOK, FrameOK, Running
  <2>2. QED
    BY <1>1, <1>2, <2>1 DEF ReplayInv, TurnsDistinct, Running
<1>7. TurnsDistinct'
  BY <1>4, <1>6 DEF ReplayInv, TurnsDistinct
<1>8. BegunBefore'
  BY <1>3, <1>4, <1>5, <1>6 DEF ReplayInv, BegunBefore
<1>9. Marked'
  <2>1. SUFFICES ASSUME NEW e \in executed, Spends(e)
                 PROVE  /\ Ended(e.turn)' => e.approval_id \in used
                        /\ \A v \in Workers :
                             Running(v)' /\ worker'[v].turn = e.turn =>
                               \/ /\ worker'[v].pc = "mark"
                                  /\ worker'[v].token # None
                                  /\ worker'[v].token.approval_id = e.approval_id
                               \/ /\ worker'[v].pc \in {"audit", "return"}
                                  /\ e.approval_id \in used
    BY DEF ReplayInv, Marked, Spends
  <2>2. e.turn = f.turn => e.approval_id \in used
    BY <1>1, <2>1 DEF ReplayInv, Marked
  <2>3. Ended(e.turn)' => e.approval_id \in used
    BY <1>1, <1>4, <2>1, <2>2 DEF ReplayInv, Marked
  <2>4. QED
    BY <1>6, <2>1, <2>3 DEF ReplayInv, Marked
<1>10. Granted' /\ NotSpentBefore'
  BY <1>2 DEF ReplayInv, Granted, NotSpentBefore, Spends
<1>11. ReplayBlocked'
  BY DEF ReplayInv, ReplayBlocked, SameApproval
<1>12. QED
  BY <1>7, <1>8, <1>9, <1>10, <1>11 DEF ReplayInv

\* A turn that begins is new: nothing has been executed for it.
LEMMA BeginTurnKeeps ==
    ASSUME ReplayInv, TypeOK', NEW w \in Workers, BeginTurn(w)
    PROVE  ReplayInv'
<1>0. PICK new : new = Len(outcome) + 1
  OBVIOUS
<1>1. /\ DOMAIN worker = Workers /\ IsSeq(outcome)
      /\ \A e \in executed : e.turn \in Turns
      /\ \A v \in Workers : Running(v) => worker[v].turn \in Turns
  BY DEF ReplayInv, TypeOK, TurnsOK, WorkersOK, FrameOK, Running
<1>2. PICK path, tenant :
         /\ path \in Paths
         /\ outcome' = Append(outcome, Outcome("running", path, tenant, None, None))
         /\ \E request, token : Goto(w, [IdleFrame EXCEPT
               !.pc = IF path = "protected" THEN "load" ELSE "generate",
               !.turn = Len(outcome) + 1,
               !.path = path, !.request = request, !.token = token,
               !.begun = [version |-> Len(policy_log),
                          ended   |-> {t \in Turns : Ended(t)}]])
  BY DEF BeginTurn
<1>3. UNCHANGED <<executed, used, epoch>> /\ worker[w].pc = "idle"
  BY DEF BeginTurn, At
<1>4. /\ worker'[w].pc \in {"load", "generate"}
      /\ worker'[w].turn = new
      /\ worker'[w].begun.ended = {t \in Turns : Ended(t)}
      /\ \A v \in Workers : v # w => worker'[v] = worker[v]
  BY <1>0, <1>1, <1>2 DEF Goto, IdleFrame
<1>5. /\ new \notin Turns /\ Turns' = Turns \cup {new}
      /\ outcome'[new].status = "running"
      /\ \A t \in Turns : outcome'[t] = outcome[t]
  BY <1>0, <1>1, <1>2, AppendSeq, SeqDomain DEF Turns, Outcome
<1>6. ~Ended(new)' /\ \A t \in Turns : Ended(t)' <=> Ended(t)
  BY <1>5 DEF Ended
<1>7. TurnsDistinct'
  <2>1. \A v \in Workers : v # w /\ Running(v)' =>
           /\ Running(v) /\ worker'[v] = worker[v] /\ worker[v].turn \in Turns
           /\ worker[v].turn # new
    BY <1>1, <1>4, <1>5 DEF Running
  <2>2. QED
    BY <1>4, <1>6, <2>1 DEF ReplayInv, TurnsDistinct
<1>8. BegunBefore'
  BY <1>3, <1>4, <1>5, <1>6 DEF ReplayInv, BegunBefore, Running
<1>9. Marked'
  BY <1>1, <1>3, <1>4, <1>5, <1>6 DEF ReplayInv, Marked, Running, Spends
<1>10. Granted' /\ NotSpentBefore'
  BY <1>3, <1>4 DEF ReplayInv, Granted, NotSpentBefore, Spends
<1>11. ReplayBlocked'
  BY <1>3 DEF ReplayInv, ReplayBlocked, SameApproval
<1>12. QED
  BY <1>7, <1>8, <1>9, <1>10, <1>11 DEF ReplayInv

-----------------------------------------------------------------------------
(* The theorem *)

\* Every step of a turn keeps the invariant.
LEMMA TurnStepKeeps ==
    ASSUME ReplayInv, TypeOK', NEW w \in Workers, TurnStep(w)
    PROVE  ReplayInv'
<1> DEFINE f == worker[w]
<1>1. TypeOK /\ DOMAIN worker = Workers /\ DOMAIN f = FrameFields
  BY DEF ReplayInv, TypeOK, WorkersOK, FrameOK
<1>2. CASE LoadPolicyStep(w)
  <2>1. /\ Advances(w) /\ f.pc = "load" /\ worker'[w].pc = "generate"
        /\ UNCHANGED <<executed, outcome, used, epoch>>
    BY <1>1, <1>2 DEF LoadPolicyStep, At, Goto, Advances, Running, FrameFields
  <2>2. QED
    BY <2>1, LocalKeeps
<1>3. CASE LoadPolicyFails(w)
  BY <1>3, FinishKeeps DEF LoadPolicyFails, At
<1>4. CASE GenerateProtected(w)
  <2>1. /\ f.pc = "generate" /\ UNCHANGED <<executed, outcome, used, epoch>>
        /\ \A v \in Workers : v # w => worker'[v] = worker[v]
    BY <1>1, <1>4 DEF GenerateProtected, At, Goto
  <2>2. Advances(w) /\ worker'[w].pc \in {"audit", "broker"}
    BY <1>1, <1>4, <2>1, GenerateProtectedMoves DEF Advances, Running, SameTurn
  <2>3. QED
    BY <2>1, <2>2, LocalKeeps
<1>5. CASE GenerateVulnerable(w)
  <2>1. f.pc = "generate" /\ UNCHANGED <<executed, used, epoch>>
    BY <1>5 DEF GenerateVulnerable, At
  <2>2. CASE \E final : Finish(w, final)
    BY <2>1, <2>2, FinishKeeps
  <2>3. CASE /\ \E turn : Goto(w, [f EXCEPT !.pc = "audit", !.model_turn = turn,
                                            !.stage = "vulnerable_simulation"])
             /\ UNCHANGED outcome
    <3>1. Advances(w) /\ worker'[w].pc = "audit"
      BY <1>1, <2>1, <2>3 DEF Goto, Advances, Running, FrameFields
    <3>2. QED
      BY <2>1, <2>3, <3>1, LocalKeeps
  <2>4. QED
    BY <1>5, <2>2, <2>3 DEF GenerateVulnerable
<1>6. CASE BrokerStep(w)
  BY <1>6, BrokerStepKeeps
<1>7. CASE Simulate(w)
  BY <1>7, SimulateKeeps
<1>8. CASE MarkUsed(w)
  BY <1>8, MarkUsedKeeps
<1>9. CASE WriteAudit(w)
  <2>1. /\ Advances(w) /\ f.pc = "audit" /\ worker'[w].pc = "return"
        /\ UNCHANGED <<executed, outcome, used, epoch>>
    BY <1>1, <1>9 DEF WriteAudit, At, Goto, Advances, Running, FrameFields
  <2>2. QED
    BY <2>1, LocalKeeps
<1>10. CASE WriteAuditFails(w)
  BY <1>10, FinishKeeps DEF WriteAuditFails, At
<1>11. CASE Return(w)
  BY <1>11, FinishKeeps DEF Return, At
<1>12. QED
  BY <1>2, <1>3, <1>4, <1>5, <1>6, <1>7, <1>8, <1>9, <1>10, <1>11 DEF TurnStep

\* The invariant is inductive.
LEMMA NextReplayInv == ReplayInv /\ [Next]_vars => ReplayInv'
<1> SUFFICES ASSUME ReplayInv, [Next]_vars PROVE ReplayInv'
  OBVIOUS
<1>1. TypeOK'
  BY NextTyped DEF ReplayInv
<1>2. CASE UNCHANGED vars \/ Tick \/ EditPolicy \/ MintToken \/ Quiet
  <2>1. UNCHANGED <<worker, executed, outcome, used, epoch>>
    BY <1>2 DEF vars, Tick, EditPolicy, MintToken, Quiet
  <2>2. QED
    BY <1>1, <2>1, AsideKeeps
<1>3. CASE Restart
  BY <1>1, <1>3, RestartKeeps
<1>4. ASSUME NEW w \in Workers, BeginTurn(w) \/ TurnStep(w) PROVE ReplayInv'
  BY <1>1, <1>4, BeginTurnKeeps, TurnStepKeeps
<1>5. QED
  BY <1>2, <1>3, <1>4 DEF Next

\* A turn that begins after a turn which executed under an approval has ended
\* never executes under that approval in the same life of the process, for
\* any number of workers, turns, tokens and audit faults.
THEOREM ReplayIsBlocked == Spec => []ReplayBlocked
<1>1. Spec => []ReplayInv
  BY InitReplayInv, NextReplayInv, PTL DEF Spec
<1>2. ReplayInv => ReplayBlocked
  BY DEF ReplayInv
<1>3. QED
  BY <1>1, <1>2, PTL

=============================================================================
