--------------------------- MODULE PipelineProofs ---------------------------
(***************************************************************************)
(* Proofs about the pipeline for any number of workers and turns, any      *)
(* policy files, requests and model output.                                *)
(***************************************************************************)
EXTENDS PipelineProperties, TLAPS

-----------------------------------------------------------------------------
(* Sequences of values of no particular type *)

\* A sequence over any set is a sequence over the values it holds.
LEMMA SelfTyped == ASSUME NEW S, NEW s \in Seq(S) PROVE IsSeq(s)
<1>1. \A i \in 1 .. Len(s) : s[i] \in {s[j] : j \in DOMAIN s}
  OBVIOUS
<1>2. QED
  BY <1>1 DEF IsSeq

\* A sequence's domain is 1 .. Len.
LEMMA SeqDomain ==
    ASSUME NEW s, IsSeq(s)
    PROVE  Len(s) \in Nat /\ DOMAIN s = 1 .. Len(s)
BY DEF IsSeq

\* Append keeps what was there and adds one element at the end.
LEMMA AppendSeq ==
    ASSUME NEW s, IsSeq(s), NEW x
    PROVE  /\ IsSeq(Append(s, x))
           /\ Len(Append(s, x)) = Len(s) + 1
           /\ DOMAIN Append(s, x) = DOMAIN s \cup {Len(s) + 1}
           /\ Append(s, x)[Len(s) + 1] = x
           /\ \A i \in DOMAIN s : Append(s, x)[i] = s[i]
<1> DEFINE S == {s[i] : i \in DOMAIN s} \cup {x}
<1>1. s \in Seq(S)
  BY DEF IsSeq
<1>2. /\ Append(s, x) \in Seq(S)
      /\ Len(Append(s, x)) = Len(s) + 1
      /\ Append(s, x)[Len(s) + 1] = x
      /\ \A i \in DOMAIN s : Append(s, x)[i] = s[i]
  BY <1>1
<1>3. DOMAIN Append(s, x) = DOMAIN s \cup {Len(s) + 1}
  BY <1>1, <1>2
<1>4. QED
  BY <1>2, <1>3, SelfTyped

\* Overwriting one element keeps the length and the others.
LEMMA ExceptSeq ==
    ASSUME NEW s, IsSeq(s), NEW i \in DOMAIN s, NEW x
    PROVE  /\ IsSeq([s EXCEPT ![i] = x])
           /\ DOMAIN [s EXCEPT ![i] = x] = DOMAIN s
<1> DEFINE S == {s[j] : j \in DOMAIN s} \cup {x}
<1>1. s \in Seq(S)
  BY DEF IsSeq
<1>2. [s EXCEPT ![i] = x] \in Seq(S)
  BY <1>1
<1>3. QED
  BY <1>2, SelfTyped

\* A function on the domain of a sequence is a sequence.
LEMMA MapSeq ==
    ASSUME NEW s, IsSeq(s), NEW r, DOMAIN r = DOMAIN s,
           r = [i \in DOMAIN r |-> r[i]]
    PROVE  IsSeq(r)
<1>1. DOMAIN r = 1 .. Len(s) /\ Len(s) \in Nat
  BY SeqDomain
<1>2. r \in Seq({r[i] : i \in DOMAIN r})
  BY <1>1
<1>3. QED
  BY <1>2 DEF IsSeq

-----------------------------------------------------------------------------
(* Type correctness *)

\* Growing the policy log, the turns and the approvals keeps a frame typed.
LEMMA FrameStable ==
    ASSUME TypeOK,
           Len(policy_log') \in Nat, Len(policy_log) <= Len(policy_log'),
           Turns \subseteq Turns', TokensHeld \subseteq TokensHeld',
           NEW v \in Workers, worker'[v] = worker[v]
    PROVE  FrameOK(worker[v])'
<1>1. FrameOK(worker[v]) /\ Len(policy_log) \in Nat
  BY DEF TypeOK, StoreOK, WorkersOK
<1>2. QED
  BY <1>1 DEF FrameOK

\* A step that moves one worker to a typed frame and keeps the stores.
LEMMA GotoTyped ==
    ASSUME TypeOK, NEW w \in Workers, NEW g, Goto(w, g),
           UNCHANGED <<policy_log, approvals>>, Turns \subseteq Turns',
           FrameOK(worker[w])'
    PROVE  WorkersOK'
<1>1. DOMAIN worker = Workers
  BY DEF TypeOK, WorkersOK
<1>2. /\ DOMAIN worker' = Workers
      /\ \A v \in Workers : v # w => worker'[v] = worker[v]
  BY <1>1 DEF Goto
<1>3. Len(policy_log) \in Nat
  BY DEF TypeOK, StoreOK
<1>4. TokensHeld' = TokensHeld
  BY DEF TokensHeld
<1>5. \A v \in Workers : v # w => FrameOK(worker[v])'
  BY <1>2, <1>3, <1>4, FrameStable
<1>6. QED
  BY <1>2, <1>5 DEF WorkersOK

\* g is a frame of the same turn as f.
SameTurn(f, g) ==
    /\ DOMAIN g = FrameFields
    /\ g.turn = f.turn /\ g.path = f.path /\ g.request = f.request
    /\ g.token = f.token /\ g.begun = f.begun /\ g.version = f.version

\* Moving on within a turn keeps its frame typed.
LEMMA SameTurnTyped ==
    ASSUME TypeOK, NEW w \in Workers, worker[w].pc \notin {"idle", "load"},
           SameTurn(worker[w], worker'[w]),
           worker'[w].pc \in {"broker", "simulate", "mark", "audit", "return"},
           worker'[w].pc \in {"broker", "simulate", "mark"} =>
              worker[w].path = "protected",
           worker'[w].stage \in Stages \cup {None},
           UNCHANGED <<policy_log, approvals, outcome>>
    PROVE  FrameOK(worker[w])'
<1>1. FrameOK(worker[w]) /\ TokensHeld' = TokensHeld /\ Turns' = Turns
  BY DEF TypeOK, WorkersOK, TokensHeld, Turns
<1>2. QED
  BY <1>1 DEF FrameOK, SameTurn, ProgramCounters

\* A turn that ends with a well-formed outcome keeps the types.
LEMMA FinishTyped ==
    ASSUME TypeOK, NEW w \in Workers, worker[w].pc # "idle",
           NEW final, Finish(w, final),
           DOMAIN final = {"status", "path", "tenant", "error", "result"},
           final.status \in Statuses,
           UNCHANGED <<config, policy_log, now, approvals, used, audit,
                       executed, epoch>>
    PROVE  TypeOK'
<1>1. worker[w].turn \in DOMAIN outcome /\ IsSeq(outcome)
  BY DEF TypeOK, TurnsOK, WorkersOK, FrameOK, Turns
<1>2. outcome' = [outcome EXCEPT ![worker[w].turn] = final]
  BY DEF Finish
<1>3. IsSeq(outcome') /\ DOMAIN outcome' = DOMAIN outcome
  BY <1>1, <1>2, ExceptSeq
<1>4. TurnsOK'
  BY <1>2, <1>3 DEF TypeOK, TurnsOK, Turns
<1>5. StoreOK'
  BY DEF TypeOK, StoreOK
<1>6. Goto(w, IdleFrame) /\ worker'[w] = IdleFrame
  BY DEF Finish, Goto, TypeOK, WorkersOK
<1>7. FrameOK(worker[w])'
  BY <1>5, <1>6 DEF FrameOK, IdleFrame, FrameFields, ProgramCounters, StoreOK
<1>8. WorkersOK'
  BY <1>3, <1>6, <1>7, GotoTyped DEF Turns
<1>9. QED
  BY <1>4, <1>5, <1>8 DEF TypeOK

\* A step within a turn that changes no store keeps the types.
LEMMA LocalStepTyped ==
    ASSUME TypeOK, NEW w \in Workers, NEW g, Goto(w, g),
           UNCHANGED <<config, policy_log, now, approvals, used, audit,
                       executed, outcome, epoch>>,
           FrameOK(worker[w])'
    PROVE  TypeOK'
<1>1. StoreOK' /\ TurnsOK'
  BY DEF TypeOK, StoreOK, TurnsOK, Turns
<1>2. WorkersOK'
  BY GotoTyped DEF Turns
<1>3. QED
  BY <1>1, <1>2 DEF TypeOK

\* The initial state is well typed.
LEMMA InitTypeOK == Init => TypeOK
<1> SUFFICES ASSUME Init PROVE TypeOK
  OBVIOUS
<1> USE DEF Init
<1>1. << >> \in Seq(Nat)
  OBVIOUS
<1>2. IsSeq(<< >>)
  BY <1>1, SelfTyped
<1>3. policy_log \in Seq(PolicyFiles) /\ policy_log # << >> /\ Len(policy_log) = 1
  OBVIOUS
<1>4. \A w \in Workers : FrameOK(worker[w])
  BY <1>3 DEF FrameOK, IdleFrame, FrameFields, ProgramCounters
<1>5. QED
  BY <1>2, <1>3, <1>4 DEF TypeOK, StoreOK, TurnsOK, WorkersOK, Turns

\* Environment steps keep the types: the stores only grow.
LEMMA TickTyped == TypeOK /\ Tick => TypeOK'
<1> SUFFICES ASSUME TypeOK, Tick PROVE TypeOK'
  OBVIOUS
<1>1. UNCHANGED <<policy_log, approvals, outcome, worker, executed>> /\ now' \in Nat
  BY DEF Tick, TypeOK, StoreOK
<1>2. QED
  BY <1>1 DEF Tick, TypeOK, StoreOK, TurnsOK, WorkersOK, FrameOK, Turns, TokensHeld

\* Editing the policy file appends a version the log may hold.
LEMMA EditPolicyTyped == TypeOK /\ EditPolicy => TypeOK'
<1> SUFFICES ASSUME TypeOK, EditPolicy PROVE TypeOK'
  OBVIOUS
<1>1. PICK file \in PolicyFiles : policy_log' = Append(policy_log, file)
  BY DEF EditPolicy
<1>2. policy_log \in Seq(PolicyFiles)
  BY DEF TypeOK, StoreOK
<1>3. /\ policy_log' \in Seq(PolicyFiles) /\ policy_log' # << >>
      /\ Len(policy_log) \in Nat /\ Len(policy_log') = Len(policy_log) + 1
  BY <1>1, <1>2
<1>4. UNCHANGED <<config, now, approvals, used, audit, executed, outcome,
                  worker, epoch>>
  BY DEF EditPolicy
<1>5. StoreOK'
  BY <1>3, <1>4 DEF TypeOK, StoreOK
<1>6. TurnsOK'
  BY <1>3, <1>4 DEF TypeOK, TurnsOK, Turns
<1>7. Turns' = Turns /\ TokensHeld' = TokensHeld
  BY <1>4 DEF Turns, TokensHeld
<1>8. \A v \in Workers : FrameOK(worker[v])'
  BY <1>3, <1>4, <1>7, FrameStable
<1>9. QED
  BY <1>4, <1>5, <1>6, <1>8 DEF TypeOK, WorkersOK

\* A minted token carries the next approval id and an expiry time.
LEMMA MintTokenTyped == TypeOK /\ MintToken => TypeOK'
<1> SUFFICES ASSUME TypeOK, MintToken PROVE TypeOK'
  OBVIOUS
<1> DEFINE tools == LoadPolicy(CurrentPolicyFile).tools
<1>1. PICK a \in Approvable :
         approvals' = Append(approvals,
            [token |-> CreateApprovalToken(Len(approvals) + 1, a.request,
                          a.call, tools[a.call.tool_name], TTL, now),
             request |-> a.request, call |-> a.call])
  BY DEF MintToken
<1>2. UNCHANGED <<config, policy_log, now, used, audit, executed, outcome,
                  worker, epoch>>
  BY DEF MintToken
<1>3. IsSeq(approvals) /\ now \in Nat /\ TTL \in Nat /\ Len(approvals) \in Nat
  BY SeqDomain, BoundsAssumption DEF TypeOK, StoreOK
<1>4. /\ IsSeq(approvals')
      /\ DOMAIN approvals' = DOMAIN approvals \cup {Len(approvals) + 1}
      /\ \A i \in DOMAIN approvals : approvals'[i] = approvals[i]
      /\ approvals'[Len(approvals) + 1].token =
            CreateApprovalToken(Len(approvals) + 1, a.request,
                          a.call, tools[a.call.tool_name], TTL, now)
  <2> HIDE DEF tools
  <2>1. QED
    BY <1>1, <1>3, AppendSeq
<1>5. /\ approvals'[Len(approvals) + 1].token.approval_id = Len(approvals) + 1
      /\ approvals'[Len(approvals) + 1].token.expires_at = now + TTL
  <2> HIDE DEF tools
  <2>1. QED
    BY <1>4 DEF CreateApprovalToken
<1>6. StoreOK'
  BY <1>2, <1>3, <1>4, <1>5 DEF TypeOK, StoreOK
<1>7. Turns' = Turns /\ TokensHeld \subseteq TokensHeld'
  BY <1>2, <1>4 DEF Turns, TokensHeld
<1>8. TurnsOK'
  BY <1>2 DEF TypeOK, TurnsOK, Turns
<1>9. Len(policy_log) \in Nat
  BY DEF TypeOK, StoreOK
<1>10. \A v \in Workers : FrameOK(worker[v])'
  BY <1>2, <1>7, <1>9, FrameStable
<1>11. QED
  BY <1>2, <1>6, <1>8, <1>10 DEF TypeOK, WorkersOK

\* A restart empties the registry and frees the workers; turns keep their type.
LEMMA RestartTyped == TypeOK /\ Restart => TypeOK'
<1> SUFFICES ASSUME TypeOK, Restart PROVE TypeOK'
  OBVIOUS
<1>1. UNCHANGED <<config, policy_log, now, approvals, audit, executed>>
  BY DEF Restart
<1>2. StoreOK'
  BY <1>1 DEF Restart, TypeOK, StoreOK
<1>3. /\ DOMAIN outcome' = DOMAIN outcome
      /\ outcome' = [t \in DOMAIN outcome' |-> outcome'[t]]
      /\ IsSeq(outcome)
  BY DEF Restart, TypeOK, TurnsOK, Turns
<1>4. IsSeq(outcome')
  BY <1>3, MapSeq
<1>5. \A t \in Turns : /\ DOMAIN outcome'[t] = {"status", "path", "tenant", "error", "result"}
                       /\ outcome'[t].status \in Statuses
  BY DEF Restart, TypeOK, TurnsOK, Statuses
<1>6. TurnsOK'
  BY <1>1, <1>3, <1>4, <1>5 DEF TypeOK, TurnsOK, Turns
<1>7. Len(policy_log) \in Nat
  BY DEF TypeOK, StoreOK
<1>8. \A w \in Workers : worker'[w] = IdleFrame
  BY DEF Restart
<1>9. \A w \in Workers : FrameOK(worker[w])'
  BY <1>1, <1>7, <1>8 DEF FrameOK, IdleFrame, FrameFields, ProgramCounters
<1>10. DOMAIN worker' = Workers
  BY DEF Restart
<1>11. QED
  BY <1>2, <1>6, <1>9, <1>10 DEF TypeOK, WorkersOK

\* A worker's own steps keep the types.
LEMMA BeginTurnTyped ==
    ASSUME TypeOK, NEW w \in Workers, BeginTurn(w) PROVE TypeOK'
<1>1. PICK request \in Requests, token \in TokensHeld \cup {None}, path \in Paths :
         /\ outcome' = Append(outcome,
               Outcome("running", path, request.tenant_id, None, None))
         /\ Goto(w, [IdleFrame EXCEPT
               !.pc = IF path = "protected" THEN "load" ELSE "generate",
               !.turn = Len(outcome) + 1,
               !.path = path, !.request = request, !.token = token,
               !.begun = [version |-> Len(policy_log),
                          ended   |-> {t \in Turns : Ended(t)}]])
  BY DEF BeginTurn
<1>2. UNCHANGED <<config, policy_log, now, approvals, used, audit, executed, epoch>>
  BY DEF BeginTurn
<1>3. IsSeq(outcome) /\ Len(policy_log) \in Nat /\ DOMAIN worker = Workers
  BY DEF TypeOK, StoreOK, TurnsOK, WorkersOK
<1>4. /\ IsSeq(outcome')
      /\ DOMAIN outcome' = DOMAIN outcome \cup {Len(outcome) + 1}
      /\ outcome'[Len(outcome) + 1]
            = Outcome("running", path, request.tenant_id, None, None)
      /\ \A t \in DOMAIN outcome : outcome'[t] = outcome[t]
  BY <1>1, <1>3, AppendSeq
<1>5. StoreOK'
  BY <1>2 DEF TypeOK, StoreOK
<1>6. TurnsOK'
  BY <1>2, <1>4 DEF TypeOK, TurnsOK, Turns, Outcome, Statuses
<1>7. worker'[w] = [IdleFrame EXCEPT
               !.pc = IF path = "protected" THEN "load" ELSE "generate",
               !.turn = Len(outcome) + 1,
               !.path = path, !.request = request, !.token = token,
               !.begun = [version |-> Len(policy_log),
                          ended   |-> {t \in Turns : Ended(t)}]]
  BY <1>1, <1>3 DEF Goto
<1>8. /\ DOMAIN worker'[w] = FrameFields
      /\ worker'[w].pc \in {"load", "generate"}
      /\ worker'[w].pc = "load" => path = "protected"
      /\ path = "protected" => worker'[w].pc = "load"
      /\ worker'[w].turn = Len(outcome) + 1
      /\ worker'[w].path = path /\ worker'[w].request = request
      /\ worker'[w].token = token /\ worker'[w].version = 0
      /\ worker'[w].stage = None
  BY <1>7 DEF IdleFrame, FrameFields
<1>9. TokensHeld' = TokensHeld /\ Len(outcome) + 1 \in Turns' /\ Turns \subseteq Turns'
  BY <1>2, <1>4 DEF TokensHeld, Turns
<1>10. FrameOK(worker[w])'
  BY <1>2, <1>3, <1>8, <1>9 DEF FrameOK, ProgramCounters
<1>11. WorkersOK'
  BY <1>1, <1>2, <1>9, <1>10, GotoTyped
<1>12. QED
  BY <1>5, <1>6, <1>11 DEF TypeOK

\* load_policy leaves a turn with a policy the file has held, or ends it.
LEMMA LoadTyped ==
    ASSUME TypeOK, NEW w \in Workers, LoadPolicyStep(w) \/ LoadPolicyFails(w)
    PROVE  TypeOK'
<1>1. CASE LoadPolicyFails(w)
  BY <1>1, FinishTyped DEF LoadPolicyFails, At, Outcome, Statuses
<1>2. CASE LoadPolicyStep(w)
  <2>1. /\ DOMAIN worker = Workers /\ FrameOK(worker[w])
        /\ Len(policy_log) \in Nat /\ Len(policy_log) > 0
    BY DEF TypeOK, StoreOK, WorkersOK
  <2>2. worker'[w] = [worker[w] EXCEPT !.pc = "generate", !.version = Len(policy_log)]
    BY <1>2, <2>1 DEF LoadPolicyStep, Goto
  <2>3. UNCHANGED <<policy_log, approvals, outcome>>
    BY <1>2 DEF LoadPolicyStep
  <2>4. FrameOK(worker[w])'
    BY <1>2, <2>1, <2>2, <2>3
       DEF LoadPolicyStep, At, FrameOK, FrameFields, ProgramCounters, Turns, TokensHeld
  <2>5. QED
    BY <1>2, <2>4, LocalStepTyped DEF LoadPolicyStep
<1>3. QED
  BY <1>1, <1>2

\* Filtering moves a protected turn to its audit event or to the broker.
LEMMA GenerateProtectedMoves ==
    ASSUME TypeOK, NEW w \in Workers, GenerateProtected(w)
    PROVE  /\ SameTurn(worker[w], worker'[w])
           /\ worker'[w].pc \in {"audit", "broker"}
           /\ worker'[w].stage \in Stages \cup {None}
<1> DEFINE f == worker[w]
<1>1. PICK turn \in Candidates(config.llm_adapter_mode, f.request) :
         Goto(w, IF turn = LLMAdapterError
                 THEN [f EXCEPT !.pc = "audit", !.stage = "llm_adapter"]
                 ELSE AfterOutputFilter([f EXCEPT !.model_turn = turn]))
  BY DEF GenerateProtected
<1>2. /\ DOMAIN worker = Workers
      /\ DOMAIN f = FrameFields /\ f.stage \in Stages \cup {None}
  BY DEF TypeOK, WorkersOK, FrameOK
<1>3. CASE turn = LLMAdapterError
  <2>1. worker'[w] = [f EXCEPT !.pc = "audit", !.stage = "llm_adapter"]
    BY <1>1, <1>2, <1>3 DEF Goto
  <2>2. QED
    BY <1>2, <2>1 DEF SameTurn, FrameFields, Stages
<1>4. CASE turn # LLMAdapterError
  <2> DEFINE g == [f EXCEPT !.model_turn = turn]
  <2>1. worker'[w] = AfterOutputFilter(g)
    BY <1>1, <1>2, <1>4 DEF Goto
  <2>2. DOMAIN g = FrameFields /\ SameTurn(f, g) /\ g.stage = f.stage
    BY <1>2 DEF SameTurn, FrameFields
  <2>3. \/ worker'[w] = [g EXCEPT !.pc = "audit", !.stage = "output_filter"]
        \/ worker'[w] = [g EXCEPT !.pc = "audit", !.stage = "complete"]
        \/ worker'[w] = [g EXCEPT !.pc = "broker"]
    <3> HIDE DEF g
    <3>1. QED
      BY <2>1 DEF AfterOutputFilter
  <2>4. QED
    <3> HIDE DEF g
    <3>1. QED
      BY <1>2, <2>2, <2>3 DEF SameTurn, FrameFields, Stages
<1>5. QED
  BY <1>3, <1>4

\* Generating and filtering the model turn keeps the types.
LEMMA GenerateProtectedTyped ==
    ASSUME TypeOK, NEW w \in Workers, GenerateProtected(w) PROVE TypeOK'
<1>1. FrameOK(worker[w])'
  BY GenerateProtectedMoves, SameTurnTyped DEF GenerateProtected, At
<1>2. PICK g : Goto(w, g)
  BY DEF GenerateProtected
<1>3. QED
  BY <1>1, <1>2, LocalStepTyped DEF GenerateProtected

\* The vulnerable path keeps the types.
LEMMA GenerateVulnerableTyped ==
    ASSUME TypeOK, NEW w \in Workers, GenerateVulnerable(w) PROVE TypeOK'
<1> DEFINE f == worker[w]
<1>1. PICK turn \in Candidates(config.llm_adapter_mode, f.request) :
         \/ Finish(w, Outcome("raised", "vulnerable", f.request.tenant_id,
                             "LLMAdapterError", None))
         \/ Finish(w, Closing([f EXCEPT !.model_turn = turn, !.stage = "complete"]))
         \/ /\ Goto(w, [f EXCEPT !.pc = "audit", !.model_turn = turn,
                                 !.stage = "vulnerable_simulation"])
            /\ UNCHANGED outcome
  BY DEF GenerateVulnerable
<1>2. UNCHANGED <<config, policy_log, now, approvals, used, audit, executed, epoch>>
  BY DEF GenerateVulnerable
<1>3. f.pc = "generate" /\ f.path = "vulnerable"
  BY DEF GenerateVulnerable, At
<1>4. CASE Finish(w, Outcome("raised", "vulnerable", f.request.tenant_id,
                             "LLMAdapterError", None))
  BY <1>2, <1>3, <1>4, FinishTyped DEF Outcome, Statuses
<1>5. CASE Finish(w, Closing([f EXCEPT !.model_turn = turn, !.stage = "complete"]))
  <2> DEFINE final == Closing([f EXCEPT !.model_turn = turn, !.stage = "complete"])
  <2>1. /\ DOMAIN final = {"status", "path", "tenant", "error", "result"}
        /\ final.status \in Statuses
    BY DEF Closing, Outcome, Statuses
  <2> HIDE DEF final
  <2>2. QED
    BY <1>2, <1>3, <1>5, <2>1, FinishTyped DEF final
<1>6. CASE /\ Goto(w, [f EXCEPT !.pc = "audit", !.model_turn = turn,
                                !.stage = "vulnerable_simulation"])
           /\ UNCHANGED outcome
  <2>1. DOMAIN worker = Workers /\ DOMAIN f = FrameFields
    BY DEF TypeOK, WorkersOK, FrameOK
  <2>2. worker'[w] = [f EXCEPT !.pc = "audit", !.model_turn = turn,
                               !.stage = "vulnerable_simulation"]
    BY <1>6, <2>1 DEF Goto
  <2>3. /\ SameTurn(f, worker'[w]) /\ worker'[w].pc = "audit"
        /\ worker'[w].stage \in Stages
    BY <2>1, <2>2 DEF SameTurn, FrameFields, Stages
  <2>4. FrameOK(worker[w])'
    BY <1>2, <1>3, <1>6, <2>3, SameTurnTyped
  <2>5. QED
    BY <1>2, <1>6, <2>4, LocalStepTyped
<1>7. QED
  BY <1>1, <1>4, <1>5, <1>6

\* The broker's verdict takes a turn to its execution or to its audit event.
LEMMA BrokerStepMoves ==
    ASSUME TypeOK, NEW w \in Workers, BrokerStep(w)
    PROVE  /\ SameTurn(worker[w], worker'[w])
           /\ worker'[w].pc \in {"simulate", "audit"}
           /\ worker'[w].stage \in Stages
           /\ worker'[w].decision = Decide(worker[w])
           /\ worker'[w].checked_at = now
           /\ worker'[w].model_turn = worker[w].model_turn
           /\ worker'[w].pc = "simulate" => Decide(worker[w]).allowed
<1> DEFINE f == worker[w]
           d == Decide(f)
<1>1. DOMAIN worker = Workers /\ DOMAIN f = FrameFields
  BY DEF TypeOK, WorkersOK, FrameOK
<1>2. worker'[w] = AfterBroker(f, d)
  BY <1>1 DEF BrokerStep, Goto
<1>3. QED
  <2> HIDE DEF d, f
  <2>1. QED
    BY <1>1, <1>2 DEF AfterBroker, SameTurn, FrameFields, Stages, d, f

\* Deciding in the broker keeps the types.
LEMMA BrokerStepTyped ==
    ASSUME TypeOK, NEW w \in Workers, BrokerStep(w) PROVE TypeOK'
<1>1. worker[w].path = "protected" /\ worker[w].pc = "broker"
  BY DEF TypeOK, WorkersOK, FrameOK, BrokerStep, At
<1>2. FrameOK(worker[w])'
  BY <1>1, BrokerStepMoves, SameTurnTyped DEF BrokerStep
<1>3. QED
  BY <1>2, LocalStepTyped DEF BrokerStep

\* After the execution comes the mark.
LEMMA SimulateMoves ==
    ASSUME TypeOK, NEW w \in Workers, Simulate(w)
    PROVE  worker'[w] = [worker[w] EXCEPT !.pc = "mark"]
BY DEF TypeOK, WorkersOK, Simulate, Goto

\* Executing records a turn that exists, on a policy the file has held.
LEMMA SimulateTyped ==
    ASSUME TypeOK, NEW w \in Workers, Simulate(w) PROVE TypeOK'
<1> DEFINE f == worker[w]
<1>1. FrameOK(f) /\ f.pc = "simulate"
  BY DEF TypeOK, WorkersOK, Simulate, At
<1>2. f.turn \in Turns /\ f.version \in 1 .. Len(policy_log) /\ f.path = "protected"
  BY <1>1 DEF FrameOK, TypeOK, StoreOK
<1>3. Execution(w).turn = f.turn /\ Execution(w).version = f.version
  BY DEF Execution
<1>4. UNCHANGED <<config, policy_log, now, approvals, used, audit, outcome, epoch>>
  BY DEF Simulate
<1>5. TurnsOK' /\ StoreOK'
  BY <1>2, <1>3, <1>4 DEF TypeOK, StoreOK, TurnsOK, Simulate, Turns
<1>6. /\ SameTurn(f, worker'[w]) /\ worker'[w].pc = "mark"
      /\ worker'[w].stage = f.stage
  BY <1>1, SimulateMoves DEF SameTurn, FrameOK, FrameFields
<1>7. FrameOK(worker[w])'
  BY <1>1, <1>2, <1>4, <1>6, SameTurnTyped DEF FrameOK
<1>8. WorkersOK'
  BY <1>4, <1>7, GotoTyped DEF Simulate, Turns
<1>9. QED
  BY <1>5, <1>8 DEF TypeOK

\* The token of a frame is an approval's, so its id is that approval's place.
LEMMA TokenIsHeld ==
    ASSUME TypeOK, NEW w \in Workers, worker[w].token # None
    PROVE  worker[w].token.approval_id \in DOMAIN approvals
BY DEF TypeOK, StoreOK, WorkersOK, FrameOK, TokensHeld

\* After the mark comes the audit event.
LEMMA MarkUsedMoves ==
    ASSUME TypeOK, NEW w \in Workers, MarkUsed(w)
    PROVE  worker'[w] = [worker[w] EXCEPT !.pc = "audit"]
BY DEF TypeOK, WorkersOK, MarkUsed, Goto

\* Marking adds the id of an approval to the registry.
LEMMA MarkUsedTyped ==
    ASSUME TypeOK, NEW w \in Workers, MarkUsed(w) PROVE TypeOK'
<1> DEFINE f == worker[w]
<1>1. FrameOK(f) /\ f.pc = "mark"
  BY DEF TypeOK, WorkersOK, MarkUsed, At
<1>2. UNCHANGED <<config, policy_log, now, approvals, audit, executed, outcome, epoch>>
  BY DEF MarkUsed
<1>3. used' \subseteq DOMAIN approvals
  BY TokenIsHeld DEF MarkUsed, TypeOK, StoreOK
<1>4. TurnsOK' /\ StoreOK'
  BY <1>2, <1>3 DEF TypeOK, StoreOK, TurnsOK, Turns
<1>5. /\ SameTurn(f, worker'[w]) /\ worker'[w].pc = "audit"
      /\ worker'[w].stage = f.stage
  BY <1>1, MarkUsedMoves DEF SameTurn, FrameOK, FrameFields
<1>6. FrameOK(worker[w])'
  BY <1>1, <1>2, <1>5, SameTurnTyped DEF FrameOK
<1>7. WorkersOK'
  BY <1>2, <1>6, GotoTyped DEF MarkUsed, Turns
<1>8. QED
  BY <1>4, <1>7 DEF TypeOK

\* After the audit event comes the answer.
LEMMA WriteAuditMoves ==
    ASSUME TypeOK, NEW w \in Workers, WriteAudit(w)
    PROVE  worker'[w] = [worker[w] EXCEPT !.pc = "return"]
BY DEF TypeOK, WorkersOK, WriteAudit, Goto

\* Appending an audit event keeps the types.
LEMMA WriteAuditTyped ==
    ASSUME TypeOK, NEW w \in Workers, WriteAudit(w) PROVE TypeOK'
<1> DEFINE f == worker[w]
<1>1. FrameOK(f) /\ f.pc = "audit"
  BY DEF TypeOK, WorkersOK, WriteAudit, At
<1>2. UNCHANGED <<config, policy_log, now, approvals, used, executed, outcome, epoch>>
  BY DEF WriteAudit
<1>3. IsSeq(audit')
  BY AppendSeq DEF WriteAudit, TypeOK, StoreOK
<1>4. TurnsOK' /\ StoreOK'
  BY <1>2, <1>3 DEF TypeOK, StoreOK, TurnsOK, Turns
<1>5. /\ SameTurn(f, worker'[w]) /\ worker'[w].pc = "return"
      /\ worker'[w].stage = f.stage
  BY <1>1, WriteAuditMoves DEF SameTurn, FrameOK, FrameFields
<1>6. FrameOK(worker[w])'
  BY <1>1, <1>2, <1>5, SameTurnTyped DEF FrameOK
<1>7. WorkersOK'
  BY <1>2, <1>6, GotoTyped DEF WriteAudit, Turns
<1>8. QED
  BY <1>4, <1>7 DEF TypeOK

\* A failed audit write and an answer end a turn with an outcome.
LEMMA EndTyped ==
    ASSUME TypeOK, NEW w \in Workers, WriteAuditFails(w) \/ Return(w)
    PROVE  TypeOK'
<1>1. CASE WriteAuditFails(w)
  BY <1>1, FinishTyped DEF WriteAuditFails, At, Outcome, Statuses
<1>2. CASE Return(w)
  <2>1. /\ DOMAIN Closing(worker[w]) = {"status", "path", "tenant", "error", "result"}
        /\ Closing(worker[w]).status \in Statuses
    BY DEF Closing, Outcome, Statuses
  <2>2. QED
    BY <1>2, <2>1, FinishTyped DEF Return, At
<1>3. QED
  BY <1>1, <1>2

\* Every step keeps the types.
LEMMA NextTyped == TypeOK /\ [Next]_vars => TypeOK'
<1> SUFFICES ASSUME TypeOK, [Next]_vars PROVE TypeOK'
  OBVIOUS
<1>1. CASE UNCHANGED vars
  BY <1>1 DEF vars, TypeOK, StoreOK, TurnsOK, WorkersOK, FrameOK, Turns, TokensHeld
<1>2. CASE Tick \/ EditPolicy \/ MintToken \/ Restart
  BY <1>2, TickTyped, EditPolicyTyped, MintTokenTyped, RestartTyped
<1>3. ASSUME NEW w \in Workers, BeginTurn(w) \/ TurnStep(w) PROVE TypeOK'
  BY <1>3, BeginTurnTyped, LoadTyped, GenerateProtectedTyped,
     GenerateVulnerableTyped, BrokerStepTyped, SimulateTyped, MarkUsedTyped,
     WriteAuditTyped, EndTyped DEF TurnStep
<1>4. QED
  BY <1>1, <1>2, <1>3 DEF Next, Quiet

\* Type correctness of the pipeline, for any number of workers and turns.
THEOREM TypeCorrect == Spec => []TypeOK
BY InitTypeOK, NextTyped, PTL DEF Spec

=============================================================================
