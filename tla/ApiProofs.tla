----------------------------- MODULE ApiProofs -----------------------------
(***************************************************************************)
(* The HTTP service, for any configuration that validates, any messages,   *)
(* workers, restarts and audit faults: it drives the pipeline through the  *)
(* pipeline's own steps, so what is proved of the pipeline holds behind    *)
(* the API; no approval token gets through; and only admitted requests     *)
(* become turns, each of them once.                                        *)
(***************************************************************************)
EXTENDS ApiProperties, AuditProofs

-----------------------------------------------------------------------------
(* The service implements the pipeline *)

\* What serving a request does to the pipeline: a step of it, or nothing.
LEMMA ServeRefines ==
    ASSUME NEW w \in Workers, ServeStep(w)
    PROVE  BeginTurn(w) \/ TurnStep(w) \/ UNCHANGED vars
BY DEF ServeStep, RejectLength, LimitBody, LimitBodyFails, PassMiddleware,
   Health, RejectJson, Refuse, RefuseFails, SendRefusal, RejectBody, RunTurn,
   Respond

\* Every step of the service is a step of the pipeline or leaves it alone.
LEMMA ApiNextRefines == ASSUME [ApiNext]_allVars PROVE [Next]_vars
<1>1. CASE UNCHANGED allVars
  BY <1>1 DEF allVars
<1>2. CASE Tick \/ EditPolicy \/ MintToken
  BY <1>2 DEF Next
<1>3. CASE ApiRestart
  BY <1>3 DEF ApiRestart, Next
<1>4. CASE \E w \in Workers : Receive(w)
  BY <1>4 DEF Receive
<1>5. CASE \E w \in Workers : ServeStep(w)
  BY <1>5, ServeRefines DEF Next
<1>6. QED
  BY <1>1, <1>2, <1>3, <1>4, <1>5 DEF ApiNext, ApiQuiet

\* The service is an implementation of the pipeline's specification.
THEOREM ServiceImplementsPipeline == ApiSpec => ImplementsPipeline
<1>1. ApiInit => Init
  BY DEF ApiInit
<1>2. [ApiNext]_allVars => [Next]_vars
  BY ApiNextRefines
<1>3. QED
  BY <1>1, <1>2, PTL DEF ApiSpec, ImplementsPipeline, Spec

\* So the pipeline's invariants hold behind the API.
LEMMA ServiceAudits == ApiSpec => []AuditInv
BY ServiceImplementsPipeline, AuditInvariant, PTL DEF ImplementsPipeline

LEMMA ServiceAuthority == ApiSpec => []AuthorityInv
BY ServiceImplementsPipeline, AuthorityInvariant, PTL DEF ImplementsPipeline

-----------------------------------------------------------------------------
(* Only admitted requests become turns *)

ExchangeFields == {"message", "token", "status", "detail", "turn", "correlation_id"}

\* The length its client declared is within the limit.
Fits(message) ==
    message.method = "POST" /\ Declared(message) =>
        message.content_length <= cfg.max_request_body_bytes

\* The client presented an accepted key, and the body fits.
Admitted(message) ==
    /\ cfg.require_api_auth =>
          \/ message.x_api_key \in cfg.api_keys
          \/ /\ message.x_api_key \in {None, Blank}
             /\ message.authorization.scheme = "bearer"
             /\ message.authorization.token \in cfg.api_keys
    /\ Declared(message) => message.content_length <= cfg.max_request_body_bytes

ExchangesOK ==
    /\ IsSeq(exchange)
    /\ \A x \in Exchanges : /\ DOMAIN exchange[x] = ExchangeFields
                            /\ exchange[x].message \in Messages
                            /\ exchange[x].turn \in Turns \cup {0}

\* Workers serve different exchanges, which become turns only once they are
\* past the body limit.
ServersOK ==
    /\ DOMAIN http = Workers
    /\ \A w \in Workers : DOMAIN http[w] = {"pc", "x"}
    /\ \A w \in Workers : http[w].pc # "idle" =>
          /\ http[w].x \in Exchanges
          /\ \A v \in Workers : http[v].pc # "idle" /\ http[v].x = http[w].x => v = w
    /\ \A w \in Workers : http[w].pc \in {"middleware", "handler"} =>
          exchange[http[w].x].turn = 0
    /\ \A w \in Workers : http[w].pc = "handler" => Fits(exchange[http[w].x].message)

\* Turns and the exchanges that began them correspond.
Begun ==
    /\ \A x \in Exchanges : exchange[x].turn # 0 => Admitted(exchange[x].message)
    /\ \A x, y \in Exchanges :
          exchange[x].turn = exchange[y].turn /\ exchange[x].turn # 0 => x = y
    /\ \A t \in Turns : \E x \in Exchanges : exchange[x].turn = t

AdmissionInv ==
    /\ cfg.max_request_body_bytes \in Int
    /\ ExchangesOK /\ ServersOK /\ Begun

\* Initially nothing has been sent.
LEMMA InitAdmission == ApiInit => AdmissionInv
<1> SUFFICES ASSUME ApiInit PROVE AdmissionInv
  OBVIOUS
<1>1. PICK app \in Apps : cfg = app.config
  BY DEF ApiInit
<1>2. cfg.max_request_body_bytes \in Int
  BY <1>1, AppsValidated DEF SettingsOk
<1>3. exchange = << >> /\ outcome = << >> /\ http = [w \in Workers |-> IdleHttp]
  BY DEF ApiInit, Init
<1>4. IsSeq(exchange)
  BY <1>3 DEF IsSeq
<1>5. QED
  BY <1>2, <1>3, <1>4
     DEF AdmissionInv, ExchangesOK, ServersOK, Begun, Exchanges, Turns, IdleHttp

\* A step that begins no turn and under which every worker is free again,
\* stays, or moves on with its exchange.
LEMMA ServingAdmission ==
    ASSUME AdmissionInv, cfg' = cfg, Turns' = Turns,
           IsSeq(exchange'), DOMAIN exchange' = DOMAIN exchange,
           \A x \in Exchanges : /\ DOMAIN exchange'[x] = ExchangeFields
                                /\ exchange'[x].message = exchange[x].message
                                /\ exchange'[x].turn = exchange[x].turn,
           DOMAIN http' = Workers,
           \A w \in Workers :
              /\ DOMAIN http'[w] = {"pc", "x"}
              /\ \/ http'[w] = http[w]
                 \/ http'[w].pc = "idle"
                 \/ /\ http[w].pc # "idle" /\ http'[w].x = http[w].x
                    /\ http'[w].pc \in {"401", "413"}
                 \/ /\ http[w].pc = "middleware" /\ http'[w].x = http[w].x
                    /\ http'[w].pc = "handler"
                    /\ Fits(exchange[http[w].x].message)
    PROVE  AdmissionInv'
<1>1. ExchangesOK'
  BY DEF AdmissionInv, ExchangesOK, Exchanges
<1>2. ServersOK'
  <2>1. \A w \in Workers : http'[w].pc # "idle" =>
           http[w].pc # "idle" /\ http'[w].x = http[w].x
    OBVIOUS
  <2>2. \A w \in Workers : http'[w].pc # "idle" =>
           /\ http'[w].x \in Exchanges'
           /\ \A v \in Workers :
                 http'[v].pc # "idle" /\ http'[v].x = http'[w].x => v = w
    BY <2>1 DEF AdmissionInv, ServersOK, Exchanges
  <2>3. \A w \in Workers : http'[w].pc \in {"middleware", "handler"} =>
           exchange'[http'[w].x].turn = 0
    BY <2>1 DEF AdmissionInv, ServersOK, Exchanges
  <2>4. \A w \in Workers : http'[w].pc = "handler" =>
           Fits(exchange[http[w].x].message)
    BY DEF AdmissionInv, ServersOK
  <2>5. \A w \in Workers : http'[w].pc = "handler" =>
           Fits(exchange[http[w].x].message)'
    BY <2>1, <2>4 DEF AdmissionInv, ServersOK, Exchanges, Fits, Declared
  <2>6. QED
    BY <2>1, <2>2, <2>3, <2>5 DEF ServersOK
<1>3. Begun'
  BY DEF AdmissionInv, Begun, Exchanges, Admitted, Declared
<1>4. QED
  BY <1>1, <1>2, <1>3 DEF AdmissionInv

\* A response frees the worker and settles its exchange.
LEMMA ReplyAdmission ==
    ASSUME AdmissionInv, cfg' = cfg, Turns' = Turns,
           NEW w \in Workers, http[w].pc # "idle",
           NEW status, NEW detail, Reply(w, status, detail)
    PROVE  AdmissionInv'
<1> DEFINE i == http[w].x
<1>1. /\ IsSeq(exchange) /\ i \in DOMAIN exchange /\ DOMAIN http = Workers
      /\ \A x \in Exchanges : DOMAIN exchange[x] = ExchangeFields
      /\ \A v \in Workers : DOMAIN http[v] = {"pc", "x"}
  BY DEF AdmissionInv, ExchangesOK, ServersOK, Exchanges
<1>2. exchange' = [exchange EXCEPT ![i].status = status, ![i].detail = detail]
  BY DEF Reply
<1>3. /\ DOMAIN exchange' = DOMAIN exchange
      /\ exchange' = [x \in DOMAIN exchange' |-> exchange'[x]]
  BY <1>2
<1>4. IsSeq(exchange')
  BY <1>1, <1>3, MapSeq
<1>5. \A x \in Exchanges : x # i => exchange'[x] = exchange[x]
  BY <1>2 DEF Exchanges
<1>6. /\ DOMAIN exchange'[i] = ExchangeFields
      /\ exchange'[i].message = exchange[i].message
      /\ exchange'[i].turn = exchange[i].turn
  BY <1>1, <1>2 DEF Exchanges, ExchangeFields
<1>7. /\ DOMAIN http' = Workers /\ http'[w] = IdleHttp
      /\ \A v \in Workers : v # w => http'[v] = http[v]
  BY <1>1 DEF Reply
<1>8. /\ IdleHttp.pc = "idle" /\ DOMAIN IdleHttp = {"pc", "x"}
  BY DEF IdleHttp
<1> HIDE DEF i
<1>9. \A x \in Exchanges : /\ DOMAIN exchange'[x] = ExchangeFields
                            /\ exchange'[x].message = exchange[x].message
                            /\ exchange'[x].turn = exchange[x].turn
  BY <1>1, <1>5, <1>6
<1>10. \A v \in Workers : /\ DOMAIN http'[v] = {"pc", "x"}
                          /\ (http'[v] = http[v] \/ http'[v].pc = "idle")
  BY <1>1, <1>7, <1>8
<1>11. QED
  BY <1>3, <1>4, <1>7, <1>9, <1>10, ServingAdmission

\* A worker goes on to a refusal, or past the body limit.
LEMMA ProceedAdmission ==
    ASSUME AdmissionInv, cfg' = cfg, Turns' = Turns, exchange' = exchange,
           NEW w \in Workers, http[w].pc # "idle", NEW pc, Proceed(w, pc),
           \/ pc \in {"401", "413"}
           \/ /\ http[w].pc = "middleware" /\ pc = "handler"
              /\ Fits(exchange[http[w].x].message)
    PROVE  AdmissionInv'
<1>1. /\ IsSeq(exchange) /\ DOMAIN http = Workers
      /\ \A x \in Exchanges : DOMAIN exchange[x] = ExchangeFields
      /\ \A v \in Workers : DOMAIN http[v] = {"pc", "x"}
  BY DEF AdmissionInv, ExchangesOK, ServersOK
<1>2. /\ DOMAIN http' = Workers /\ DOMAIN http'[w] = {"pc", "x"}
      /\ http'[w].pc = pc /\ http'[w].x = http[w].x
      /\ \A v \in Workers : v # w => http'[v] = http[v]
  BY <1>1 DEF Proceed
<1>3. IsSeq(exchange')
  BY <1>1
<1>4. QED
  BY <1>1, <1>2, <1>3, ServingAdmission

\* A step that leaves the service's own state alone, and begins no turn.
LEMMA QuietAdmission ==
    ASSUME AdmissionInv, UNCHANGED apiVars, Turns' = Turns PROVE AdmissionInv'
<1>1. /\ IsSeq(exchange) /\ DOMAIN http = Workers
      /\ \A x \in Exchanges : DOMAIN exchange[x] = ExchangeFields
      /\ \A v \in Workers : DOMAIN http[v] = {"pc", "x"}
  BY DEF AdmissionInv, ExchangesOK, ServersOK
<1>2. IsSeq(exchange') /\ cfg' = cfg /\ exchange' = exchange /\ http' = http
  BY <1>1 DEF apiVars
<1>3. QED
  BY <1>1, <1>2, ServingAdmission

\* A restart frees every worker.
LEMMA RestartAdmission == ASSUME AdmissionInv, ApiRestart PROVE AdmissionInv'
<1>1. /\ IsSeq(exchange)
      /\ \A x \in Exchanges : DOMAIN exchange[x] = ExchangeFields
  BY DEF AdmissionInv, ExchangesOK
<1>2. /\ DOMAIN exchange' = DOMAIN exchange
      /\ exchange' = [x \in DOMAIN exchange' |-> exchange'[x]]
  BY DEF ApiRestart
<1>3. IsSeq(exchange')
  BY <1>1, <1>2, MapSeq
<1>4. \A x \in Exchanges : /\ DOMAIN exchange'[x] = ExchangeFields
                            /\ exchange'[x].message = exchange[x].message
                            /\ exchange'[x].turn = exchange[x].turn
  BY <1>1 DEF ApiRestart, Exchanges, ExchangeFields
<1>5. /\ DOMAIN http' = Workers
      /\ \A w \in Workers : DOMAIN http'[w] = {"pc", "x"} /\ http'[w].pc = "idle"
  BY DEF ApiRestart, IdleHttp
<1>6. Turns' = Turns /\ cfg' = cfg
  BY DEF ApiRestart, Restart, Turns
<1>7. QED
  BY <1>2, <1>3, <1>4, <1>5, <1>6, ServingAdmission

\* A worker takes a request that is no turn yet.
LEMMA ReceiveAdmission ==
    ASSUME AdmissionInv, NEW w \in Workers, Receive(w) PROVE AdmissionInv'
<1>1. /\ IsSeq(exchange) /\ DOMAIN http = Workers /\ Len(exchange) \in Nat
      /\ DOMAIN exchange = 1 .. Len(exchange)
  BY SeqDomain DEF AdmissionInv, ExchangesOK, ServersOK
<1>2. PICK message \in Messages, token \in TokensHeld \cup {None} :
         exchange' = Append(exchange, Exchange(message, token))
  BY DEF Receive
<1> DEFINE n == Len(exchange) + 1
<1>3. /\ IsSeq(exchange') /\ DOMAIN exchange' = DOMAIN exchange \cup {n}
      /\ exchange'[n] = Exchange(message, token)
      /\ \A x \in DOMAIN exchange : exchange'[x] = exchange[x]
  BY <1>1, <1>2, AppendSeq
<1>4. n \notin DOMAIN exchange
  BY <1>1
<1>5. /\ http'[w] = [pc |-> "middleware", x |-> n] /\ DOMAIN http' = Workers
      /\ \A v \in Workers : v # w => http'[v] = http[v]
  BY <1>1 DEF Receive
<1>6. cfg' = cfg /\ Turns' = Turns
  BY DEF Receive, vars, Turns
<1> HIDE DEF n
<1>7. /\ DOMAIN exchange'[n] = ExchangeFields /\ exchange'[n].message = message
      /\ exchange'[n].turn = 0
  BY <1>3 DEF Exchange, ExchangeFields
<1>8. ExchangesOK'
  BY <1>3, <1>6, <1>7 DEF AdmissionInv, ExchangesOK, Exchanges
<1>9. ServersOK'
  <2>1. DOMAIN http' = Workers /\ \A v \in Workers : DOMAIN http'[v] = {"pc", "x"}
    BY <1>5 DEF AdmissionInv, ServersOK
  <2>2. http'[w].pc = "middleware" /\ http'[w].x = n
    BY <1>5
  <2>3. \A v \in Workers : v # w /\ http'[v].pc # "idle" =>
           http'[v] = http[v] /\ http'[v].x \in DOMAIN exchange /\ http'[v].x # n
    BY <1>4, <1>5 DEF AdmissionInv, ServersOK, Exchanges
  <2>4. \A v \in Workers : http'[v].pc # "idle" =>
           /\ http'[v].x \in Exchanges'
           /\ \A u \in Workers :
                 http'[u].pc # "idle" /\ http'[u].x = http'[v].x => u = v
    BY <1>3, <2>2, <2>3 DEF AdmissionInv, ServersOK, Exchanges
  <2>5. \A v \in Workers : http'[v].pc \in {"middleware", "handler"} =>
           exchange'[http'[v].x].turn = 0
    BY <1>3, <1>7, <2>2, <2>3 DEF AdmissionInv, ServersOK
  <2>6. \A v \in Workers : http'[v].pc = "handler" => Fits(exchange[http[v].x].message)'
    BY <1>3, <1>6, <2>2, <2>3 DEF AdmissionInv, ServersOK, Fits, Declared
  <2>7. QED
    BY <2>1, <2>4, <2>5, <2>6 DEF ServersOK
<1>10. Begun'
  BY <1>3, <1>6, <1>7 DEF AdmissionInv, Begun, Exchanges, Admitted, Declared
<1>11. QED
  BY <1>6, <1>8, <1>9, <1>10 DEF AdmissionInv

\* An exchange that is let through becomes the next turn.
LEMMA RunAdmission ==
    ASSUME AdmissionInv, TypeOK, NEW w \in Workers, RunTurn(w) PROVE AdmissionInv'
<1> DEFINE i == http[w].x
           t == Len(outcome) + 1
<1>1. /\ IsSeq(exchange) /\ i \in DOMAIN exchange /\ DOMAIN http = Workers
      /\ \A x \in Exchanges : DOMAIN exchange[x] = ExchangeFields
      /\ http[w].pc = "handler" /\ exchange[i].turn = 0
      /\ Fits(exchange[i].message)
  BY DEF AdmissionInv, ExchangesOK, ServersOK, Exchanges, RunTurn, Runnable, Doing
<1>2. Admitted(exchange[i].message)
  <2>1. exchange[i].message.method = "POST" /\ Authorized(exchange[i].message)
    BY DEF RunTurn, Runnable, Message
  <2>2. QED
    BY <1>1, <2>1 DEF Admitted, Authorized, ExtractApiKey, Fits
<1>3. /\ IsSeq(outcome) /\ Len(outcome) \in Nat /\ DOMAIN outcome = 1 .. Len(outcome)
  BY SeqDomain DEF TypeOK, TurnsOK
<1>4. PICK path, tenant :
         outcome' = Append(outcome, Outcome("running", path, tenant, None, None))
  BY DEF RunTurn, BeginTurn
<1>5. Turns' = Turns \cup {t} /\ t \notin Turns /\ t # 0
  BY <1>3, <1>4, AppendSeq DEF Turns
<1>6. PICK id : exchange' = [exchange EXCEPT ![i].turn = t, ![i].correlation_id = id]
  BY DEF RunTurn, StartExchange
<1>7. /\ DOMAIN exchange' = DOMAIN exchange
      /\ exchange' = [x \in DOMAIN exchange' |-> exchange'[x]]
  BY <1>6
<1>8. IsSeq(exchange')
  BY <1>1, <1>7, MapSeq
<1>9. \A x \in Exchanges : x # i => exchange'[x] = exchange[x]
  BY <1>6 DEF Exchanges
<1>10. /\ DOMAIN exchange'[i] = ExchangeFields
       /\ exchange'[i].message = exchange[i].message /\ exchange'[i].turn = t
  BY <1>1, <1>6 DEF Exchanges, ExchangeFields
<1>11. /\ DOMAIN http' = Workers /\ http'[w] = [http[w] EXCEPT !.pc = "turn"]
       /\ \A v \in Workers : v # w => http'[v] = http[v]
  BY <1>1 DEF RunTurn, StartExchange, Proceed
<1>12. cfg' = cfg
  BY DEF RunTurn
<1> HIDE DEF i, t
<1>13. ExchangesOK'
  BY <1>1, <1>5, <1>7, <1>8, <1>9, <1>10 DEF AdmissionInv, ExchangesOK, Exchanges
<1>14. ServersOK'
  <2>1. \A v \in Workers : DOMAIN http'[v] = {"pc", "x"} /\ http'[v].x = http[v].x
    BY <1>11 DEF AdmissionInv, ServersOK
  <2>2. http'[w].pc = "turn"
    BY <1>11 DEF AdmissionInv, ServersOK
  <2>3. \A v \in Workers : v # w /\ http[v].pc # "idle" => http[v].x # i
    BY <1>1 DEF AdmissionInv, ServersOK, i
  <2>4. \A v \in Workers : http'[v].pc # "idle" => http[v].pc # "idle"
    BY <1>1, <1>11
  <2>5. \A v \in Workers : http'[v].pc \in {"middleware", "handler"} =>
           /\ v # w /\ http'[v] = http[v] /\ http[v].x \in Exchanges
           /\ exchange'[http'[v].x] = exchange[http[v].x]
    BY <1>9, <1>11, <2>2, <2>3 DEF AdmissionInv, ServersOK
  <2>6. \A v \in Workers : http'[v].pc # "idle" =>
           /\ http'[v].x \in Exchanges'
           /\ \A u \in Workers :
                 http'[u].pc # "idle" /\ http'[u].x = http'[v].x => u = v
    BY <1>7, <2>1, <2>4 DEF AdmissionInv, ServersOK, Exchanges
  <2>7. \A v \in Workers : http'[v].pc \in {"middleware", "handler"} =>
           exchange'[http'[v].x].turn = 0
    BY <2>5 DEF AdmissionInv, ServersOK
  <2>8. \A v \in Workers : http'[v].pc = "handler" => Fits(exchange[http[v].x].message)'
    BY <1>12, <2>5 DEF AdmissionInv, ServersOK, Fits, Declared
  <2>9. QED
    BY <1>11, <2>1, <2>6, <2>7, <2>8 DEF ServersOK
<1>15. Begun'
  <2>1. \A x \in Exchanges : exchange'[x].turn # 0 => Admitted(exchange'[x].message)
    BY <1>2, <1>9, <1>10 DEF AdmissionInv, Begun
  <2>2. \A x \in Exchanges : exchange'[x].turn # 0 => Admitted(exchange[x].message)'
    BY <1>12, <2>1 DEF Admitted, Declared
  <2>3. \A x, y \in Exchanges : exchange'[x].turn = exchange'[y].turn
                                /\ exchange'[x].turn # 0 => x = y
    BY <1>5, <1>9, <1>10 DEF AdmissionInv, Begun, ExchangesOK
  <2>4. \A s \in Turns' : \E x \in Exchanges : exchange'[x].turn = s
    <3>1. i \in Exchanges
      BY <1>1 DEF Exchanges
    <3>2. ASSUME NEW s \in Turns PROVE \E x \in Exchanges : exchange'[x].turn = s
      <4>1. PICK x \in Exchanges : exchange[x].turn = s
        BY DEF AdmissionInv, Begun
      <4>2. s # 0
        BY <1>3 DEF Turns
      <4>3. QED
        BY <1>1, <1>9, <4>1, <4>2
    <3>3. QED
      BY <1>5, <1>10, <3>1, <3>2
  <2>5. QED
    BY <1>7, <2>2, <2>3, <2>4 DEF Begun, Exchanges
<1>16. QED
  BY <1>12, <1>13, <1>14, <1>15 DEF AdmissionInv

\* A message the middleware passes on declares no more than the limit.
LEMMA PassedFits ==
    ASSUME AdmissionInv, NEW w \in Workers, PassMiddleware(w)
    PROVE  Fits(exchange[http[w].x].message)
<1> DEFINE m == exchange[http[w].x].message
<1>1. m \in Messages
  BY DEF AdmissionInv, ExchangesOK, ServersOK, PassMiddleware, Doing
<1>2. m.content_length \in {None, Garbled} \/ m.content_length \in Int
  BY <1>1, LengthsAssumption
<1>3. ~TooLarge(m) /\ (Limited(m) => m.content_length # Garbled)
  BY DEF PassMiddleware, Message
<1>4. cfg.max_request_body_bytes \in Int
  BY DEF AdmissionInv
<1>5. QED
  BY <1>2, <1>3, <1>4 DEF Fits, Declared, TooLarge, Limited

\* Steps inside a turn begin no other.
LEMMA TurnStepTurns == ASSUME NEW w \in Workers, TurnStep(w) PROVE Turns' = Turns
BY DEF TurnStep, Turns, LoadPolicyStep, LoadPolicyFails, GenerateProtected,
   GenerateVulnerable, BrokerStep, Simulate, MarkUsed, WriteAudit,
   WriteAuditFails, Return, Finish

\* Every step keeps the correspondence of turns and admitted exchanges.
LEMMA NextAdmission ==
    TypeOK /\ AdmissionInv /\ [ApiNext]_allVars => AdmissionInv'
<1> SUFFICES ASSUME TypeOK, AdmissionInv, [ApiNext]_allVars PROVE AdmissionInv'
  OBVIOUS
<1>1. CASE UNCHANGED allVars
  BY <1>1, QuietAdmission DEF allVars, vars, Turns
<1>2. CASE (Tick \/ EditPolicy \/ MintToken) /\ UNCHANGED apiVars
  BY <1>2, QuietAdmission DEF Tick, EditPolicy, MintToken, Turns
<1>3. CASE ApiRestart
  BY <1>3, RestartAdmission
<1>4. ASSUME NEW w \in Workers, Receive(w) PROVE AdmissionInv'
  BY <1>4, ReceiveAdmission
<1>5. ASSUME NEW w \in Workers, ServeStep(w) PROVE AdmissionInv'
  <2>1. CASE RunTurn(w)
    BY <2>1, RunAdmission
  <2>2. CASE TurnStep(w) /\ UNCHANGED apiVars
    BY <2>2, QuietAdmission, TurnStepTurns
  <2>3. CASE PassMiddleware(w)
    BY <2>3, PassedFits, ProceedAdmission DEF PassMiddleware, Doing, vars, Turns
  <2>4. CASE LimitBody(w) \/ Refuse(w)
    BY <2>4, ProceedAdmission DEF LimitBody, Refuse, Unauthorized, Doing, vars, Turns
  <2>5. CASE RejectLength(w) \/ LimitBodyFails(w) \/ Health(w) \/ RejectJson(w)
             \/ RefuseFails(w) \/ SendRefusal(w) \/ RejectBody(w) \/ Respond(w)
    <3>1. /\ cfg' = cfg /\ Turns' = Turns /\ http[w].pc # "idle"
          /\ \E status, detail : Reply(w, status, detail)
      BY <2>5 DEF RejectLength, LimitBodyFails, Health, RejectJson, RefuseFails,
         SendRefusal, RejectBody, Respond, ReplyError, ReplyInvalid,
         Unauthorized, Doing, vars, Turns
    <3>2. QED
      BY <3>1, ReplyAdmission
  <2>6. QED
    BY <1>5, <2>1, <2>2, <2>3, <2>4, <2>5 DEF ServeStep
<1>6. QED
  BY <1>1, <1>2, <1>3, <1>4, <1>5 DEF ApiNext, ApiQuiet

\* Every turn belongs to exactly one exchange, which presented an accepted key
\* where keys are required and declared no more than the body limit.
THEOREM TurnsAdmitted == ApiSpec => []TurnsAreAdmitted
<1>1. AdmissionInv /\ TypeOK => TurnsAreAdmitted
  <2> SUFFICES ASSUME AdmissionInv, TypeOK, NEW t \in Turns
               PROVE  \E x \in Exchanges :
                         /\ \A y \in Exchanges : exchange[y].turn = t <=> y = x
                         /\ Admitted(exchange[x].message)
    BY DEF TurnsAreAdmitted, Admitted
  <2>1. t # 0
    BY SeqDomain DEF TypeOK, TurnsOK, Turns
  <2>2. QED
    BY <2>1 DEF AdmissionInv, Begun
<1>2. AuthorityInv => TypeOK
  BY DEF AuthorityInv
<1>3. QED
  BY <1>1, <1>2, InitAdmission, NextAdmission, ServiceAuthority, PTL DEF ApiSpec

-----------------------------------------------------------------------------
(* What the steps of the service change *)

HttpCounters == {"idle", "middleware", "handler", "401", "413", "turn"}

\* An exchange is pending exactly as long as a worker serves it, and the
\* pipeline only runs the turns of the exchanges that are served.
Serving ==
    /\ \A x \in Exchanges :
          /\ exchange[x].status \in HttpStatuses \cup {"pending", "lost"}
          /\ exchange[x].status = "pending" <=> \E w \in Workers : http[w].x = x
    /\ \A w \in Workers : /\ http[w].pc \in HttpCounters
                          /\ http[w].pc = "idle" <=> http[w].x = 0
    /\ \A w \in Workers : worker[w].pc # "idle" =>
          /\ http[w].pc = "turn"
          /\ worker[w].turn = exchange[http[w].x].turn

\* The exchange a worker serves, and no other worker.
LEMMA Served ==
    ASSUME AdmissionInv, Serving, NEW w \in Workers, http[w].pc # "idle"
    PROVE  /\ http[w].x \in Exchanges
           /\ DOMAIN exchange[http[w].x] = ExchangeFields
           /\ exchange[http[w].x].message \in Messages
           /\ exchange[http[w].x].status = "pending"
           /\ \A v \in Workers : v # w => http[v].x # http[w].x
<1>1. http[w].x \in Exchanges /\ http[w].x # 0
  BY DEF AdmissionInv, ServersOK, Serving
<1>2. \A v \in Workers : v # w => http[v].x # http[w].x
  BY <1>1 DEF AdmissionInv, ServersOK, Serving
<1>3. QED
  BY <1>1, <1>2 DEF AdmissionInv, ExchangesOK, Serving

\* A response frees the worker and settles its exchange.
LEMMA ReplyFacts ==
    ASSUME AdmissionInv, NEW w \in Workers, http[w].pc # "idle",
           NEW status, NEW detail, Reply(w, status, detail)
    PROVE  LET i == http[w].x IN
           /\ Exchanges' = Exchanges
           /\ \A x \in Exchanges : x # i => exchange'[x] = exchange[x]
           /\ exchange'[i].status = status /\ exchange'[i].detail = detail
           /\ exchange'[i].message = exchange[i].message
           /\ exchange'[i].turn = exchange[i].turn
           /\ exchange'[i].correlation_id = exchange[i].correlation_id
           /\ http'[w].pc = "idle" /\ http'[w].x = 0
           /\ \A v \in Workers : v # w => http'[v] = http[v]
<1> DEFINE i == http[w].x
<1>1. /\ i \in Exchanges /\ DOMAIN http = Workers
      /\ DOMAIN exchange[i] = ExchangeFields
  BY DEF AdmissionInv, ExchangesOK, ServersOK
<1>2. exchange' = [exchange EXCEPT ![i].status = status, ![i].detail = detail]
  BY DEF Reply
<1>3. /\ Exchanges' = Exchanges
      /\ \A x \in Exchanges : x # i => exchange'[x] = exchange[x]
  BY <1>2 DEF Exchanges
<1>4. /\ exchange'[i].status = status /\ exchange'[i].detail = detail
      /\ exchange'[i].message = exchange[i].message
      /\ exchange'[i].turn = exchange[i].turn
      /\ exchange'[i].correlation_id = exchange[i].correlation_id
  BY <1>1, <1>2 DEF Exchanges, ExchangeFields
<1>5. /\ http'[w].pc = "idle" /\ http'[w].x = 0
      /\ \A v \in Workers : v # w => http'[v] = http[v]
  BY <1>1 DEF Reply, IdleHttp
<1>6. QED
  BY <1>3, <1>4, <1>5

\* A worker goes on with its exchange.
LEMMA ProceedFacts ==
    ASSUME AdmissionInv, NEW w \in Workers, NEW pc, Proceed(w, pc)
    PROVE  /\ http'[w].pc = pc /\ http'[w].x = http[w].x
           /\ \A v \in Workers : v # w => http'[v] = http[v]
BY DEF AdmissionInv, ServersOK, Proceed

\* A request is taken by a worker that was free.
LEMMA ReceiveFacts ==
    ASSUME AdmissionInv, NEW w \in Workers, Receive(w)
    PROVE  LET n == Len(exchange) + 1 IN
           /\ n \notin Exchanges /\ n # 0 /\ Exchanges' = Exchanges \cup {n}
           /\ \A x \in Exchanges : exchange'[x] = exchange[x]
           /\ exchange'[n].status = "pending" /\ exchange'[n].turn = 0
           /\ http[w].pc = "idle" /\ http'[w].pc = "middleware" /\ http'[w].x = n
           /\ \A v \in Workers : v # w => http'[v] = http[v]
           /\ UNCHANGED vars /\ UNCHANGED <<cfg, ops>>
<1> DEFINE n == Len(exchange) + 1
<1>1. /\ IsSeq(exchange) /\ DOMAIN http = Workers /\ Len(exchange) \in Nat
      /\ DOMAIN exchange = 1 .. Len(exchange)
  BY SeqDomain DEF AdmissionInv, ExchangesOK, ServersOK
<1>2. PICK message \in Messages, token \in TokensHeld \cup {None} :
         exchange' = Append(exchange, Exchange(message, token))
  BY DEF Receive
<1>3. /\ DOMAIN exchange' = DOMAIN exchange \cup {n}
      /\ exchange'[n] = Exchange(message, token)
      /\ \A x \in DOMAIN exchange : exchange'[x] = exchange[x]
  BY <1>1, <1>2, AppendSeq
<1>4. n \notin DOMAIN exchange /\ n # 0
  BY <1>1
<1>5. exchange'[n].status = "pending" /\ exchange'[n].turn = 0
  BY <1>3 DEF Exchange
<1>6. /\ http[w].pc = "idle" /\ http'[w].pc = "middleware" /\ http'[w].x = n
      /\ \A v \in Workers : v # w => http'[v] = http[v]
  BY <1>1 DEF Receive, Doing
<1>7. UNCHANGED vars /\ UNCHANGED <<cfg, ops>>
  BY DEF Receive
<1>8. QED
  BY <1>3, <1>4, <1>5, <1>6, <1>7 DEF Exchanges

\* An exchange that is let through becomes a turn the pipeline has not run yet.
LEMMA RunFacts ==
    ASSUME AdmissionInv, TypeOK, NEW w \in Workers, RunTurn(w)
    PROVE  LET i == http[w].x
               t == Len(outcome) + 1
           IN
           /\ http[w].pc = "handler" /\ t # 0 /\ t \notin Turns
           /\ exchange[i].message.body \notin {Garbled, None}
           /\ Exchanges' = Exchanges
           /\ \A x \in Exchanges : x # i => exchange'[x] = exchange[x]
           /\ exchange'[i].status = exchange[i].status
           /\ exchange'[i].detail = exchange[i].detail
           /\ exchange'[i].message = exchange[i].message
           /\ exchange'[i].turn = t
           /\ exchange'[i].correlation_id =
                 NormalizeCorrelationId(CallerId(exchange[i].message),
                                        exchange[i].message.body.request_id)
           /\ http'[w].pc = "turn" /\ http'[w].x = i
           /\ \A v \in Workers : v # w => http'[v] = http[v]
           /\ worker'[w].pc # "idle" /\ worker'[w].turn = t
           /\ \A v \in Workers : v # w => worker'[v] = worker[v]
           /\ \A u \in Turns : u \in Turns' /\ outcome'[u] = outcome[u]
           /\ UNCHANGED <<cfg, ops, audit>>
<1> DEFINE i == http[w].x
           t == Len(outcome) + 1
           id == NormalizeCorrelationId(CallerId(exchange[i].message),
                                        exchange[i].message.body.request_id)
<1>1. /\ http[w].pc = "handler" /\ DOMAIN http = Workers /\ i \in Exchanges
      /\ DOMAIN exchange[i] = ExchangeFields
      /\ exchange[i].message.body \notin {Garbled, None}
  BY DEF AdmissionInv, ExchangesOK, ServersOK, RunTurn, Runnable, Doing, Message
<1>2. /\ IsSeq(outcome) /\ Len(outcome) \in Nat /\ DOMAIN outcome = 1 .. Len(outcome)
      /\ DOMAIN worker = Workers
  BY SeqDomain DEF TypeOK, TurnsOK, WorkersOK
<1>3. t # 0 /\ t \notin Turns
  BY <1>2 DEF Turns
<1>4. exchange' = [exchange EXCEPT ![i].turn = t, ![i].correlation_id = id]
  BY DEF RunTurn, StartExchange, Message
<1> HIDE DEF id
<1>5. /\ Exchanges' = Exchanges
      /\ \A x \in Exchanges : x # i => exchange'[x] = exchange[x]
  BY <1>4 DEF Exchanges
<1>6. /\ exchange'[i].status = exchange[i].status
      /\ exchange'[i].detail = exchange[i].detail
      /\ exchange'[i].message = exchange[i].message
      /\ exchange'[i].turn = t /\ exchange'[i].correlation_id = id
  BY <1>1, <1>4 DEF Exchanges, ExchangeFields
<1>7. /\ http'[w].pc = "turn" /\ http'[w].x = i
      /\ \A v \in Workers : v # w => http'[v] = http[v]
  BY ProceedFacts DEF RunTurn, StartExchange
<1>8. PICK path, tenant :
         /\ outcome' = Append(outcome, Outcome("running", path, tenant, None, None))
         /\ \E request, token, begun :
               Goto(w, [IdleFrame EXCEPT
                  !.pc = IF path = "protected" THEN "load" ELSE "generate",
                  !.turn = t, !.path = path, !.request = request,
                  !.token = token, !.begun = begun])
  BY DEF RunTurn, BeginTurn
<1>9. /\ worker'[w].pc # "idle" /\ worker'[w].turn = t
      /\ \A v \in Workers : v # w => worker'[v] = worker[v]
  BY <1>2, <1>8 DEF Goto, IdleFrame
<1>10. \A u \in Turns : u \in Turns' /\ outcome'[u] = outcome[u]
  BY <1>2, <1>8, AppendSeq DEF Turns
<1>11. UNCHANGED <<cfg, ops, audit>>
  BY DEF RunTurn, BeginTurn
<1>12. QED
  BY <1>1, <1>3, <1>5, <1>6, <1>7, <1>9, <1>10, <1>11 DEF id

\* A restart frees the workers and loses what they were serving and running.
LEMMA RestartFacts ==
    ASSUME AdmissionInv, TypeOK, ApiRestart
    PROVE  /\ Exchanges' = Exchanges
           /\ \A x \in Exchanges :
                 /\ exchange'[x].message = exchange[x].message
                 /\ exchange'[x].detail = exchange[x].detail
                 /\ exchange'[x].turn = exchange[x].turn
                 /\ exchange'[x].correlation_id = exchange[x].correlation_id
                 /\ exchange'[x].status = IF exchange[x].status = "pending"
                                          THEN "lost" ELSE exchange[x].status
           /\ \A w \in Workers : http'[w].pc = "idle" /\ http'[w].x = 0
           /\ \A w \in Workers : worker'[w].pc = "idle"
           /\ Turns' = Turns
           /\ \A t \in Turns : outcome[t].status # "running" => outcome'[t] = outcome[t]
           /\ UNCHANGED <<cfg, ops, audit>>
<1>1. /\ Exchanges' = Exchanges
      /\ \A x \in Exchanges : exchange'[x] =
            IF exchange[x].status = "pending"
            THEN [exchange[x] EXCEPT !.status = "lost"] ELSE exchange[x]
  BY DEF ApiRestart, Exchanges
<1>2. \A x \in Exchanges :
         /\ exchange'[x].message = exchange[x].message
         /\ exchange'[x].detail = exchange[x].detail
         /\ exchange'[x].turn = exchange[x].turn
         /\ exchange'[x].correlation_id = exchange[x].correlation_id
         /\ exchange'[x].status = IF exchange[x].status = "pending"
                                  THEN "lost" ELSE exchange[x].status
  BY <1>1 DEF AdmissionInv, ExchangesOK, ExchangeFields
<1>3. \A w \in Workers : http'[w].pc = "idle" /\ http'[w].x = 0
  BY DEF ApiRestart, IdleHttp
<1>4. \A w \in Workers : worker'[w].pc = "idle"
  BY DEF ApiRestart, Restart, IdleFrame
<1>5. /\ Turns' = Turns
      /\ \A t \in Turns : outcome[t].status # "running" => outcome'[t] = outcome[t]
  BY DEF ApiRestart, Restart, Turns, Ended
<1>6. UNCHANGED <<cfg, ops, audit>>
  BY DEF ApiRestart, Restart
<1>7. QED
  BY <1>1, <1>2, <1>3, <1>4, <1>5, <1>6

\* A step of a turn keeps it going, or ends it with an answer or an exception.
LEMMA TurnStepFacts ==
    ASSUME TypeOK, NEW w \in Workers, TurnStep(w)
    PROVE  /\ worker[w].pc # "idle" /\ worker[w].turn \in Turns /\ Turns' = Turns
           /\ \A v \in Workers : v # w => worker'[v] = worker[v]
           /\ \A t \in Turns : t # worker[w].turn => outcome'[t] = outcome[t]
           /\ \/ /\ worker'[w].pc # "idle" /\ worker'[w].turn = worker[w].turn
                 /\ outcome' = outcome
              \/ /\ worker'[w].pc = "idle"
                 /\ outcome'[worker[w].turn].status \in {"answered", "raised"}
<1> DEFINE Ends == \E final : Finish(w, final) /\ final.status \in {"answered", "raised"}
           Stays == /\ outcome' = outcome /\ worker'[w].pc # "idle"
                    /\ worker'[w].turn = worker[w].turn
                    /\ \A v \in Workers : v # w => worker'[v] = worker[v]
<1>1. DOMAIN worker = Workers /\ DOMAIN worker[w] = FrameFields
  BY DEF TypeOK, WorkersOK, FrameOK
<1>2. worker[w].pc # "idle" /\ worker[w].turn \in Turns /\ Turns' = Turns
  <2>1. worker[w].pc # "idle"
    BY DEF TurnStep, LoadPolicyStep, LoadPolicyFails, GenerateProtected,
       GenerateVulnerable, BrokerStep, Simulate, MarkUsed, WriteAudit,
       WriteAuditFails, Return, At
  <2>2. QED
    BY <2>1, TurnStepTurns DEF TypeOK, WorkersOK, FrameOK
<1>3. ASSUME LoadPolicyStep(w) \/ Simulate(w) \/ MarkUsed(w) \/ WriteAudit(w)
      PROVE  Stays
  <2>1. CASE LoadPolicyStep(w)
    BY <1>1, <2>1 DEF LoadPolicyStep, Goto, FrameFields
  <2>2. CASE Simulate(w)
    BY <1>1, <2>2 DEF Simulate, Goto, FrameFields
  <2>3. CASE MarkUsed(w)
    BY <1>1, <2>3 DEF MarkUsed, Goto, FrameFields
  <2>4. CASE WriteAudit(w)
    BY <1>1, <2>4 DEF WriteAudit, Goto, FrameFields
  <2>5. QED
    BY <1>3, <2>1, <2>2, <2>3, <2>4
<1>4. ASSUME GenerateProtected(w) \/ BrokerStep(w) PROVE Stays
  <2>1. CASE GenerateProtected(w)
    BY <1>1, <2>1, GenerateProtectedMoves DEF GenerateProtected, Goto, SameTurn
  <2>2. CASE BrokerStep(w)
    BY <1>1, <2>2, BrokerStepMoves DEF BrokerStep, Goto, SameTurn
  <2>3. QED
    BY <1>4, <2>1, <2>2
<1>5. ASSUME LoadPolicyFails(w) \/ WriteAuditFails(w) \/ Return(w) PROVE Ends
  <2>1. CASE LoadPolicyFails(w)
    BY <2>1 DEF LoadPolicyFails, Outcome
  <2>2. CASE WriteAuditFails(w)
    BY <2>2 DEF WriteAuditFails, Outcome
  <2>3. CASE Return(w)
    BY <2>3 DEF Return, Closing, Outcome
  <2>4. QED
    BY <1>5, <2>1, <2>2, <2>3
<1>6. ASSUME GenerateVulnerable(w) PROVE Ends \/ Stays
  <2>1. PICK turn : \/ Finish(w, Outcome("raised", "vulnerable",
                                  worker[w].request.tenant_id, "LLMAdapterError", None))
                    \/ Finish(w, Closing([worker[w] EXCEPT !.model_turn = turn,
                                                           !.stage = "complete"]))
                    \/ /\ Goto(w, [worker[w] EXCEPT !.pc = "audit", !.model_turn = turn,
                                      !.stage = "vulnerable_simulation"])
                       /\ outcome' = outcome
    BY <1>6 DEF GenerateVulnerable
  <2>2. CASE Finish(w, Outcome("raised", "vulnerable",
                                  worker[w].request.tenant_id, "LLMAdapterError", None))
    BY <2>2 DEF Outcome
  <2>3. CASE Finish(w, Closing([worker[w] EXCEPT !.model_turn = turn,
                                                 !.stage = "complete"]))
    BY <2>3 DEF Closing, Outcome
  <2>4. CASE Goto(w, [worker[w] EXCEPT !.pc = "audit", !.model_turn = turn,
                         !.stage = "vulnerable_simulation"]) /\ outcome' = outcome
    BY <1>1, <2>4 DEF Goto, FrameFields
  <2>5. QED
    BY <2>1, <2>2, <2>3, <2>4
<1>7. CASE Ends
  <2>1. PICK final : Finish(w, final) /\ final.status \in {"answered", "raised"}
    BY <1>7
  <2>2. /\ outcome'[worker[w].turn] = final
        /\ \A t \in Turns : t # worker[w].turn => outcome'[t] = outcome[t]
    BY <1>2, <2>1 DEF Finish, Turns
  <2>3. /\ worker'[w].pc = "idle"
        /\ \A v \in Workers : v # w => worker'[v] = worker[v]
    BY <1>1, <2>1 DEF Finish, Goto, IdleFrame
  <2>4. QED
    BY <1>2, <2>1, <2>2, <2>3
<1>8. CASE Stays
  BY <1>2, <1>8
<1>9. QED
  BY <1>3, <1>4, <1>5, <1>6, <1>7, <1>8 DEF TurnStep

-----------------------------------------------------------------------------
(* The status of an exchange *)

\* The steps that answer a client: where they answer from, with which status
\* and which detail.
Answers(w, status, detail) ==
    \/ /\ http[w].pc = "middleware"
       /\ \/ status = "400" /\ detail = "invalid_content_length"
          \/ status = "500" /\ detail = ProductionErrorDetail(cfg)
    \/ /\ http[w].pc = "handler"
       /\ \/ status = "200" /\ exchange[http[w].x].message.method = "GET"
          \/ /\ status = "422"
             /\ detail = IF cfg.enable_debug_errors THEN "errors"
                         ELSE "validation_error"
          \/ status = "400" /\ detail = "error_parsing_body"
          \/ status = "500" /\ detail = ProductionErrorDetail(cfg)
    \/ http[w].pc = "401" /\ status = "401" /\ detail = "unauthorized"
    \/ http[w].pc = "413" /\ status = "413" /\ detail = "request_entity_too_large"
    \/ /\ http[w].pc = "turn" /\ worker[w].pc = "idle"
       /\ LET o == outcome[exchange[http[w].x].turn]
          IN  \/ o.status = "answered" /\ status = "200" /\ detail = o.result
              \/ /\ o.status # "answered" /\ status = "500"
                 /\ detail = ProductionErrorDetail(cfg)

Answering(w) ==
    /\ \E status, detail : Answers(w, status, detail) /\ Reply(w, status, detail)
    /\ UNCHANGED <<vars, cfg, ops>>

\* Refusing a request: the event is written before the refusal is sent.
Refusing(w) ==
    /\ \/ /\ http[w].pc = "middleware" /\ Proceed(w, "413")
          /\ ops' = Append(ops, OperationalEvent(http[w].x,
                       "request_body_limit_blocked", Literal("api-body-limit", 14)))
       \/ /\ http[w].pc = "handler" /\ Proceed(w, "401")
          /\ ops' = Append(ops, OperationalEvent(http[w].x,
                       "api_auth_failure", Literal("api-unauthenticated", 19)))
    /\ UNCHANGED <<vars, cfg, exchange>>

\* What serving a request can come to.
LEMMA ServeShapes ==
    ASSUME NEW w \in Workers, ServeStep(w)
    PROVE  \/ Answering(w) \/ Refusing(w) \/ PassMiddleware(w) \/ RunTurn(w)
           \/ TurnStep(w) /\ UNCHANGED apiVars
<1>1. ASSUME RejectLength(w) \/ LimitBodyFails(w) PROVE Answering(w)
  BY <1>1 DEF RejectLength, LimitBodyFails, ReplyError, Doing, Answering, Answers
<1>2. ASSUME Health(w) \/ RejectJson(w) \/ RejectBody(w) \/ RefuseFails(w)
      PROVE  Answering(w)
  BY <1>2 DEF Health, RejectJson, RejectBody, RefuseFails, Unauthorized,
     ReplyInvalid, ReplyError, Doing, Message, Answering, Answers
<1>3. ASSUME SendRefusal(w) PROVE Answering(w)
  BY <1>3 DEF SendRefusal, Doing, Answering, Answers
<1>4. ASSUME Respond(w) PROVE Answering(w)
  BY <1>4 DEF Respond, ReplyError, Doing, At, Answering, Answers
<1>5. ASSUME LimitBody(w) \/ Refuse(w) PROVE Refusing(w)
  BY <1>5 DEF LimitBody, Refuse, Unauthorized, Doing, Refusing
<1>6. QED
  BY <1>1, <1>2, <1>3, <1>4, <1>5 DEF ServeStep

\* Initially no request has been taken.
LEMMA InitServing == ApiInit => Serving
BY DEF ApiInit, Init, Serving, Exchanges, IdleHttp, IdleFrame, HttpCounters

\* Every step of the service keeps pending exchanges and workers in agreement.
LEMMA NextServing ==
    TypeOK /\ AdmissionInv /\ Serving /\ [ApiNext]_allVars => Serving'
<1> SUFFICES ASSUME TypeOK, AdmissionInv, Serving, [ApiNext]_allVars
             PROVE  Serving'
  OBVIOUS
<1>1. CASE UNCHANGED <<http, exchange, worker>>
  BY <1>1 DEF Serving, Exchanges
<1>2. CASE ApiRestart
  <2>1. \A x \in Exchanges : x # 0
    BY SeqDomain DEF AdmissionInv, ExchangesOK, Exchanges
  <2>2. \A x \in Exchanges' :
           /\ exchange'[x].status \in HttpStatuses \cup {"lost"}
           /\ ~\E w \in Workers : http'[w].x = x
    BY <1>2, <2>1, RestartFacts DEF Serving
  <2>3. QED
    BY <1>2, <2>2, RestartFacts DEF Serving, HttpStatuses, HttpCounters
<1>3. ASSUME NEW w \in Workers, Receive(w) PROVE Serving'
  <2> DEFINE n == Len(exchange) + 1
  <2>1. /\ n \notin Exchanges /\ n # 0 /\ Exchanges' = Exchanges \cup {n}
        /\ \A x \in Exchanges : exchange'[x] = exchange[x]
        /\ exchange'[n].status = "pending"
        /\ http[w].pc = "idle" /\ http'[w].pc = "middleware" /\ http'[w].x = n
        /\ \A v \in Workers : v # w => http'[v] = http[v]
        /\ worker' = worker
    BY <1>3, ReceiveFacts DEF vars
  <2> HIDE DEF n
  <2>2. http[w].x = 0 /\ 0 \notin Exchanges
    BY <2>1, SeqDomain DEF Serving, AdmissionInv, ExchangesOK, Exchanges
  <2>3. \A x \in Exchanges : (\E v \in Workers : http'[v].x = x)
                             <=> (\E v \in Workers : http[v].x = x)
    BY <2>1, <2>2
  <2>4. \A x \in Exchanges' :
           /\ exchange'[x].status \in HttpStatuses \cup {"pending", "lost"}
           /\ exchange'[x].status = "pending" <=> \E v \in Workers : http'[v].x = x
    BY <2>1, <2>3 DEF Serving
  <2>5. \A v \in Workers : /\ http'[v].pc \in HttpCounters
                           /\ http'[v].pc = "idle" <=> http'[v].x = 0
    BY <2>1 DEF Serving, HttpCounters
  <2>6. \A v \in Workers : worker'[v].pc # "idle" =>
           /\ http'[v].pc = "turn" /\ worker'[v].turn = exchange'[http'[v].x].turn
    BY <2>1 DEF Serving, AdmissionInv, ServersOK
  <2>7. QED
    BY <2>4, <2>5, <2>6 DEF Serving
<1>4. ASSUME NEW w \in Workers, Answering(w) PROVE Serving'
  <2>1. PICK status, detail : Answers(w, status, detail) /\ Reply(w, status, detail)
    BY <1>4 DEF Answering
  <2>2. http[w].pc # "idle" /\ status \in HttpStatuses /\ worker[w].pc = "idle"
    BY <2>1 DEF Answers, HttpStatuses, Serving
  <2> DEFINE i == http[w].x
  <2>3. /\ i \in Exchanges /\ Exchanges' = Exchanges
        /\ \A x \in Exchanges : x # i => exchange'[x] = exchange[x]
        /\ exchange'[i].status = status
        /\ http'[w].pc = "idle" /\ http'[w].x = 0
        /\ \A v \in Workers : v # w => http'[v] = http[v] /\ http[v].x # i
        /\ worker' = worker
    BY <1>4, <2>1, <2>2, ReplyFacts, Served DEF Answering, vars
  <2>4. i = http[w].x /\ \A x \in Exchanges : x # 0
    BY SeqDomain DEF AdmissionInv, ExchangesOK, Exchanges
  <2> HIDE DEF i
  <2>5. \A x \in Exchanges : x # i =>
           ((\E v \in Workers : http'[v].x = x) <=> (\E v \in Workers : http[v].x = x))
    BY <2>3, <2>4
  <2>6. ~\E v \in Workers : http'[v].x = i
    BY <2>3, <2>4
  <2>7. \A x \in Exchanges' :
           /\ exchange'[x].status \in HttpStatuses \cup {"pending", "lost"}
           /\ exchange'[x].status = "pending" <=> \E v \in Workers : http'[v].x = x
    BY <2>2, <2>3, <2>5, <2>6 DEF Serving, HttpStatuses
  <2>8. \A v \in Workers : /\ http'[v].pc \in HttpCounters
                           /\ http'[v].pc = "idle" <=> http'[v].x = 0
    BY <2>3 DEF Serving, HttpCounters
  <2>9. \A v \in Workers : worker'[v].pc # "idle" =>
           /\ http'[v].pc = "turn" /\ worker'[v].turn = exchange'[http'[v].x].turn
    BY <2>2, <2>3 DEF Serving, AdmissionInv, ServersOK
  <2>10. QED
    BY <2>7, <2>8, <2>9 DEF Serving
<1>5. ASSUME NEW w \in Workers, Refusing(w) \/ PassMiddleware(w) PROVE Serving'
  <2>1. /\ exchange' = exchange /\ worker' = worker /\ http[w].pc \in {"middleware", "handler"}
        /\ Proceed(w, "413") \/ Proceed(w, "401") \/ Proceed(w, "handler")
    BY <1>5 DEF Refusing, PassMiddleware, Doing, vars
  <2>2. /\ http'[w].pc \in {"413", "401", "handler"} /\ http'[w].x = http[w].x
        /\ \A v \in Workers : v # w => http'[v] = http[v]
    BY <2>1, ProceedFacts
  <2>3. \A v \in Workers : http'[v].x = http[v].x
    BY <2>2
  <2>4. \A v \in Workers : /\ http'[v].pc \in HttpCounters
                           /\ http'[v].pc = "idle" <=> http'[v].x = 0
    BY <2>1, <2>2 DEF Serving, HttpCounters
  <2>5. \A v \in Workers : worker'[v].pc # "idle" =>
           /\ http'[v].pc = "turn" /\ worker'[v].turn = exchange'[http'[v].x].turn
    BY <2>1, <2>2 DEF Serving
  <2>6. QED
    BY <2>1, <2>3, <2>4, <2>5 DEF Serving, Exchanges
<1>6. ASSUME NEW w \in Workers, RunTurn(w) PROVE Serving'
  <2> DEFINE i == http[w].x
             t == Len(outcome) + 1
  <2>1. /\ http[w].pc = "handler" /\ Exchanges' = Exchanges
        /\ \A x \in Exchanges : x # i => exchange'[x] = exchange[x]
        /\ exchange'[i].status = exchange[i].status /\ exchange'[i].turn = t
        /\ http'[w].pc = "turn" /\ http'[w].x = i
        /\ \A v \in Workers : v # w => http'[v] = http[v]
        /\ worker'[w].turn = t
        /\ \A v \in Workers : v # w => worker'[v] = worker[v]
    BY <1>6, RunFacts
  <2>2. i \in Exchanges /\ \A v \in Workers : v # w => http[v].x # i
    BY <2>1, Served
  <2>3. i = http[w].x
    OBVIOUS
  <2> HIDE DEF i, t
  <2>4. \A v \in Workers : http'[v].x = http[v].x
    BY <2>1, <2>3
  <2>5. \A x \in Exchanges : exchange'[x].status = exchange[x].status
    BY <2>1
  <2>6. \A v \in Workers : /\ http'[v].pc \in HttpCounters
                           /\ http'[v].pc = "idle" <=> http'[v].x = 0
    BY <2>1, <2>3 DEF Serving, HttpCounters
  <2>7. \A v \in Workers : worker'[v].pc # "idle" =>
           /\ http'[v].pc = "turn" /\ worker'[v].turn = exchange'[http'[v].x].turn
    BY <2>1, <2>2 DEF Serving, AdmissionInv, ServersOK
  <2>8. QED
    BY <2>1, <2>4, <2>5, <2>6, <2>7 DEF Serving
<1>7. ASSUME NEW w \in Workers, TurnStep(w), UNCHANGED apiVars PROVE Serving'
  <2>1. \A v \in Workers : worker'[v].pc # "idle" =>
           worker[v].pc # "idle" /\ worker'[v].turn = worker[v].turn
    BY <1>7, TurnStepFacts
  <2>2. QED
    BY <1>7, <2>1 DEF Serving, apiVars, Exchanges
<1>8. CASE UNCHANGED allVars \/ ((Tick \/ EditPolicy \/ MintToken) /\ UNCHANGED apiVars)
  BY <1>1, <1>8 DEF allVars, apiVars, vars, Tick, EditPolicy, MintToken
<1>9. QED
  BY <1>2, <1>3, <1>4, <1>5, <1>6, <1>7, <1>8, ServeShapes DEF ApiNext, ApiQuiet

\* The invariant all that follows rests on.
LEMMA ServiceInvariant == ApiSpec => [](TypeOK /\ AdmissionInv /\ Serving)
<1>1. AuthorityInv => TypeOK
  BY DEF AuthorityInv
<1>2. QED
  BY <1>1, InitAdmission, NextAdmission, InitServing, NextServing,
     ServiceAuthority, PTL DEF ApiSpec

\* Every worker serves at most one exchange, which is pending, and runs a turn
\* only as that exchange's turn; an exchange off the workers is over.
THEOREM ServiceTypeCorrect == ApiSpec => []ApiTypeOK
<1>1. TypeOK /\ AdmissionInv /\ Serving => ApiTypeOK
  <2> SUFFICES ASSUME TypeOK, AdmissionInv, Serving PROVE ApiTypeOK
    OBVIOUS
  <2>1. IsSeq(exchange) /\ \A x \in Exchanges : exchange[x].turn \in Turns \cup {0}
    BY DEF AdmissionInv, ExchangesOK
  <2>2. \A w \in Workers : http[w].pc # "idle" => http[w].x \in Exchanges
    BY DEF AdmissionInv, ServersOK
  <2>3. QED
    BY <2>1, <2>2 DEF Serving, HttpCounters, ApiTypeOK, At
<1>2. QED
  BY <1>1, ServiceInvariant, PTL

-----------------------------------------------------------------------------
(* What a status says *)

\* A worker waits for its exchange's turn, or goes on from what it came to;
\* a request that is refused has not become a turn.
TruthInv ==
    /\ \A w \in Workers : http[w].pc = "turn" =>
          LET t == exchange[http[w].x].turn
          IN  /\ t # 0
              /\ worker[w].pc = "idle" => outcome[t].status \in {"answered", "raised"}
    /\ \A w \in Workers : http[w].pc \in {"401", "413"} => exchange[http[w].x].turn = 0
    /\ StatusTellsTheTruth

\* Initially nobody was told anything.
LEMMA InitTruth == ApiInit => TruthInv
BY DEF ApiInit, Init, TruthInv, StatusTellsTheTruth, Exchanges, IdleHttp

\* A step that settles no exchange and changes no outcome that is final.
LEMMA TruthKept ==
    ASSUME StatusTellsTheTruth, Exchanges \subseteq Exchanges',
           \A x \in Exchanges :
              /\ exchange[x].status # "pending" => exchange'[x] = exchange[x]
              /\ exchange[x].status = "pending" =>
                    exchange'[x].status \in {"pending", "lost"},
           \A x \in Exchanges' \ Exchanges : exchange'[x].status = "pending",
           \A x \in Exchanges : exchange[x].status # "pending"
                                /\ exchange[x].turn \in Turns =>
              /\ exchange[x].turn \in Turns'
              /\ outcome[exchange[x].turn].status # "running" =>
                    outcome'[exchange[x].turn] = outcome[exchange[x].turn],
           \A x \in Exchanges : exchange[x].turn \in Turns \cup {0}
    PROVE  StatusTellsTheTruth'
<1> SUFFICES ASSUME NEW x \in Exchanges'
             PROVE  LET ex == exchange'[x] IN
                    /\ ex.status = "200" /\ ex.message.method = "POST" =>
                          /\ ex.turn \in Turns'
                          /\ outcome'[ex.turn].status = "answered"
                          /\ ex.detail = outcome'[ex.turn].result
                    /\ ex.status \in {"400", "401", "413", "422"} => ex.turn = 0
                    /\ ex.status = "500" /\ ex.turn # 0 =>
                          outcome'[ex.turn].status = "raised"
  BY DEF StatusTellsTheTruth
<1>1. CASE exchange'[x].status \in {"pending", "lost"} /\ x \notin Exchanges
  BY <1>1
<1>2. CASE x \in Exchanges /\ exchange[x].status = "pending"
  BY <1>2
<1>3. CASE x \in Exchanges /\ exchange[x].status # "pending"
  BY <1>3 DEF StatusTellsTheTruth
<1>4. QED
  BY <1>1, <1>2, <1>3

\* Every step keeps what clients were told in agreement with the turns.
LEMMA NextTruth ==
    TypeOK /\ AdmissionInv /\ Serving /\ TruthInv /\ [ApiNext]_allVars => TruthInv'
<1> SUFFICES ASSUME TypeOK, AdmissionInv, Serving, TruthInv, [ApiNext]_allVars
             PROVE  TruthInv'
  OBVIOUS
<1>1. /\ StatusTellsTheTruth /\ \A x \in Exchanges : exchange[x].turn \in Turns \cup {0}
      /\ 0 \notin Turns
  BY SeqDomain DEF TruthInv, AdmissionInv, ExchangesOK, TypeOK, TurnsOK, Turns
<1>2. CASE UNCHANGED <<http, exchange, worker, outcome>>
  BY <1>2 DEF TruthInv, StatusTellsTheTruth, Exchanges, Turns
<1>3. CASE ApiRestart
  <2>1. StatusTellsTheTruth'
    <3>1. \A x \in Exchanges : exchange[x].status # "pending" =>
             exchange'[x] = exchange[x]
      BY <1>3 DEF ApiRestart, Exchanges
    <3>2. QED
      BY <1>1, <1>3, <3>1, RestartFacts, TruthKept
  <2>2. QED
    BY <1>3, <2>1, RestartFacts DEF TruthInv
<1>4. ASSUME NEW w \in Workers, Receive(w) PROVE TruthInv'
  <2> DEFINE n == Len(exchange) + 1
  <2>1. /\ n \notin Exchanges /\ Exchanges' = Exchanges \cup {n}
        /\ \A x \in Exchanges : exchange'[x] = exchange[x]
        /\ exchange'[n].status = "pending"
        /\ http'[w].pc = "middleware"
        /\ \A v \in Workers : v # w => http'[v] = http[v]
        /\ worker' = worker /\ outcome' = outcome
    BY <1>4, ReceiveFacts DEF vars
  <2> HIDE DEF n
  <2>2. StatusTellsTheTruth'
    BY <1>1, <2>1, TruthKept DEF Turns
  <2>3. \A v \in Workers : http'[v].pc \in {"turn", "401", "413"} =>
           /\ http'[v] = http[v] /\ http[v].x \in Exchanges
           /\ exchange'[http'[v].x] = exchange[http[v].x]
    BY <2>1 DEF AdmissionInv, ServersOK
  <2>4. QED
    BY <2>1, <2>2, <2>3 DEF TruthInv
<1>5. ASSUME NEW w \in Workers, Answering(w) PROVE TruthInv'
  <2>1. PICK status, detail : Answers(w, status, detail) /\ Reply(w, status, detail)
    BY <1>5 DEF Answering
  <2> DEFINE i == http[w].x
  <2>2. http[w].pc # "idle" /\ i \in Exchanges
    BY <2>1, Served DEF Answers
  <2>3. /\ Exchanges' = Exchanges
        /\ \A x \in Exchanges : x # i => exchange'[x] = exchange[x]
        /\ exchange'[i].status = status /\ exchange'[i].detail = detail
        /\ exchange'[i].message = exchange[i].message
        /\ exchange'[i].turn = exchange[i].turn
        /\ http'[w].pc = "idle"
        /\ \A v \in Workers : v # w => http'[v] = http[v] /\ http[v].x # i
        /\ worker' = worker /\ outcome' = outcome /\ Turns' = Turns
    BY <1>5, <2>1, <2>2, ReplyFacts, Served DEF Answering, vars, Turns
  <2>4. /\ status = "200" /\ exchange[i].message.method = "POST" =>
              /\ exchange[i].turn \in Turns
              /\ outcome[exchange[i].turn].status = "answered"
              /\ detail = outcome[exchange[i].turn].result
        /\ status \in {"400", "401", "413", "422"} => exchange[i].turn = 0
        /\ status = "500" /\ exchange[i].turn # 0 =>
              outcome[exchange[i].turn].status = "raised"
    <3>1. CASE http[w].pc \in {"middleware", "handler"}
      BY <2>1, <3>1 DEF Answers, AdmissionInv, ServersOK
    <3>2. CASE http[w].pc \in {"401", "413"}
      BY <2>1, <3>2 DEF Answers, TruthInv
    <3>3. CASE http[w].pc = "turn"
      <4>1. exchange[i].turn \in Turns /\ worker[w].pc = "idle"
        BY <1>1, <2>1, <2>2, <3>3 DEF TruthInv, Answers
      <4>2. outcome[exchange[i].turn].status \in {"answered", "raised"}
        BY <3>3, <4>1 DEF TruthInv
      <4>3. QED
        BY <2>1, <3>3, <4>1, <4>2 DEF Answers
    <3>4. QED
      BY <2>2, <3>1, <3>2, <3>3 DEF Serving, HttpCounters
  <2> HIDE DEF i
  <2>5. StatusTellsTheTruth'
    BY <1>1, <2>3, <2>4 DEF StatusTellsTheTruth
  <2>6. \A v \in Workers : http'[v].pc \in {"turn", "401", "413"} =>
           /\ http'[v] = http[v] /\ http[v].x \in Exchanges
           /\ exchange'[http'[v].x] = exchange[http[v].x]
    BY <2>3 DEF AdmissionInv, ServersOK
  <2>7. QED
    BY <2>3, <2>5, <2>6 DEF TruthInv
<1>6. ASSUME NEW w \in Workers, Refusing(w) \/ PassMiddleware(w) PROVE TruthInv'
  <2>1. /\ exchange' = exchange /\ worker' = worker /\ outcome' = outcome
        /\ http[w].pc \in {"middleware", "handler"}
        /\ Proceed(w, "413") \/ Proceed(w, "401") \/ Proceed(w, "handler")
    BY <1>6 DEF Refusing, PassMiddleware, Doing, vars
  <2>2. /\ http'[w].pc \in {"413", "401", "handler"} /\ http'[w].x = http[w].x
        /\ \A v \in Workers : v # w => http'[v] = http[v]
        /\ exchange[http[w].x].turn = 0
    BY <2>1, ProceedFacts DEF AdmissionInv, ServersOK
  <2>3. StatusTellsTheTruth'
    BY <1>1, <2>1 DEF StatusTellsTheTruth, Exchanges, Turns
  <2>4. QED
    BY <2>1, <2>2, <2>3 DEF TruthInv
<1>7. ASSUME NEW w \in Workers, RunTurn(w) PROVE TruthInv'
  <2> DEFINE i == http[w].x
             t == Len(outcome) + 1
  <2>1. /\ http[w].pc = "handler" /\ t # 0 /\ Exchanges' = Exchanges
        /\ \A x \in Exchanges : x # i => exchange'[x] = exchange[x]
        /\ exchange'[i].status = exchange[i].status /\ exchange'[i].turn = t
        /\ http'[w].pc = "turn" /\ http'[w].x = i
        /\ \A v \in Workers : v # w => http'[v] = http[v]
        /\ worker'[w].pc # "idle"
        /\ \A v \in Workers : v # w => worker'[v] = worker[v]
        /\ \A u \in Turns : u \in Turns' /\ outcome'[u] = outcome[u]
    BY <1>7, RunFacts
  <2>2. /\ i \in Exchanges /\ exchange[i].status = "pending"
        /\ \A v \in Workers : v # w => http[v].x # i
    BY <2>1, Served
  <2> HIDE DEF i, t
  <2>3. StatusTellsTheTruth'
    BY <1>1, <2>1, <2>2, TruthKept
  <2>4. \A v \in Workers : v # w /\ http'[v].pc \in {"turn", "401", "413"} =>
           /\ http'[v] = http[v] /\ http[v].x \in Exchanges
           /\ exchange'[http'[v].x] = exchange[http[v].x]
    BY <2>1, <2>2 DEF AdmissionInv, ServersOK
  <2>5. \A v \in Workers : http'[v].pc = "turn" =>
           LET u == exchange'[http'[v].x].turn
           IN  /\ u # 0
               /\ worker'[v].pc = "idle" => outcome'[u].status \in {"answered", "raised"}
    BY <1>1, <2>1, <2>4 DEF TruthInv
  <2>6. \A v \in Workers : http'[v].pc \in {"401", "413"} =>
           exchange'[http'[v].x].turn = 0
    BY <2>1, <2>4 DEF TruthInv
  <2>7. QED
    BY <2>3, <2>5, <2>6 DEF TruthInv
<1>8. ASSUME NEW w \in Workers, TurnStep(w), UNCHANGED apiVars PROVE TruthInv'
  <2>1. exchange' = exchange /\ http' = http /\ Exchanges' = Exchanges
    BY <1>8 DEF apiVars, Exchanges
  <2> DEFINE i == http[w].x
  <2>2. /\ worker[w].pc # "idle" /\ Turns' = Turns /\ worker[w].turn \in Turns
        /\ \A v \in Workers : v # w => worker'[v] = worker[v]
        /\ \A t \in Turns : t # worker[w].turn => outcome'[t] = outcome[t]
        /\ \/ worker'[w].pc # "idle"
           \/ outcome'[worker[w].turn].status \in {"answered", "raised"}
    BY <1>8, TurnStepFacts
  <2>3. /\ http[w].pc = "turn" /\ worker[w].turn = exchange[i].turn
        /\ i \in Exchanges /\ exchange[i].status = "pending"
        /\ \A v \in Workers : v # w => http[v].x # i
    BY <2>2, Served DEF Serving
  <2> HIDE DEF i
  <2>4. \A x \in Exchanges : x # i /\ exchange[x].turn \in Turns =>
           outcome'[exchange[x].turn] = outcome[exchange[x].turn]
    <3>1. \A x \in Exchanges : exchange[x].turn = exchange[i].turn => x = i
      BY <1>1, <2>2, <2>3 DEF AdmissionInv, Begun
    <3>2. QED
      BY <2>2, <2>3, <3>1
  <2>5. StatusTellsTheTruth'
    BY <1>1, <2>1, <2>2, <2>3, <2>4, TruthKept
  <2>6. \A v \in Workers : http'[v].pc = "turn" =>
           LET u == exchange'[http'[v].x].turn
           IN  /\ u # 0
               /\ worker'[v].pc = "idle" => outcome'[u].status \in {"answered", "raised"}
    <3> SUFFICES ASSUME NEW v \in Workers, http[v].pc = "turn"
                 PROVE  LET u == exchange[http[v].x].turn
                        IN  /\ u # 0
                            /\ worker'[v].pc = "idle" =>
                                  outcome'[u].status \in {"answered", "raised"}
      BY <2>1
    <3>1. http[v].x \in Exchanges /\ exchange[http[v].x].turn # 0
      BY DEF AdmissionInv, ServersOK, TruthInv
    <3>2. CASE v = w
      BY <2>2, <2>3, <3>1, <3>2 DEF i
    <3>3. CASE v # w
      BY <1>1, <2>2, <2>3, <2>4, <3>1, <3>3 DEF TruthInv
    <3>4. QED
      BY <3>2, <3>3
  <2>7. QED
    BY <2>1, <2>5, <2>6 DEF TruthInv
<1>9. CASE UNCHANGED allVars \/ ((Tick \/ EditPolicy \/ MintToken) /\ UNCHANGED apiVars)
  BY <1>2, <1>9 DEF allVars, apiVars, vars, Tick, EditPolicy, MintToken
<1>10. QED
  BY <1>3, <1>4, <1>5, <1>6, <1>7, <1>8, <1>9, ServeShapes DEF ApiNext, ApiQuiet

\* Whatever restarts, audit faults and other requests interfere: 200 carries
\* the result of the client's own turn, a refusal means that nothing ran, and
\* a 500 after a turn that it raised.
THEOREM StatusIsTrue == ApiSpec => []StatusTellsTheTruth
<1>1. TruthInv => StatusTellsTheTruth
  BY DEF TruthInv
<1>2. QED
  BY <1>1, InitTruth, NextTruth, ServiceInvariant, PTL DEF ApiSpec

-----------------------------------------------------------------------------
(* Refusals in the audit log *)

\* A refusal that is about to be sent is in the log, once; an exchange that is
\* not being refused has left no event.
RefusalInv ==
    /\ IsSeq(ops) /\ \A i \in DOMAIN ops : ops[i].exchange \in Exchanges
    /\ \A w \in Workers : http[w].pc \in {"middleware", "handler", "turn"} =>
          OpsOf(http[w].x) = {}
    /\ \A w \in Workers : http[w].pc \in {"401", "413"} =>
          \E i \in DOMAIN ops : /\ OpsOf(http[w].x) = {i}
                                /\ ops[i].event_type = RefusalEvent(http[w].pc)
    /\ RefusalsAudited

\* What RefusalsAudited says of one exchange.
AuditedExchange(x) ==
    LET status == exchange[x].status IN
    IF status \in {"401", "413"}
    THEN \E i \in DOMAIN ops : /\ OpsOf(x) = {i}
                               /\ ops[i].event_type = RefusalEvent(status)
    ELSE IF status \in {"pending", "lost"}
    THEN /\ \A i, j \in OpsOf(x) : i = j
         /\ OpsOf(x) # {} => exchange[x].turn = 0
    ELSE OpsOf(x) = {}

\* Initially the log is empty.
LEMMA InitRefusal == ApiInit => RefusalInv
<1> SUFFICES ASSUME ApiInit PROVE RefusalInv
  OBVIOUS
<1>1. exchange = << >> /\ ops = << >> /\ http = [w \in Workers |-> IdleHttp]
  BY DEF ApiInit
<1>2. IsSeq(ops)
  BY <1>1 DEF IsSeq
<1>3. QED
  BY <1>1, <1>2 DEF RefusalInv, RefusalsAudited, Exchanges, IdleHttp

\* A step that writes no event, and under which every worker goes on as the
\* same kind of server or is free.
LEMMA RefusalKept ==
    ASSUME RefusalInv, ops' = ops, Exchanges \subseteq Exchanges',
           \A x \in Exchanges' : AuditedExchange(x)',
           \A w \in Workers :
              \/ http'[w] = http[w] \/ http'[w].pc = "idle"
              \/ http'[w].x \in Exchanges' \ Exchanges /\ http'[w].pc = "middleware"
              \/ /\ http[w].pc \in {"middleware", "handler"} /\ http'[w].x = http[w].x
                 /\ http'[w].pc \in {"handler", "turn"}
    PROVE  RefusalInv'
<1>1. \A x : OpsOf(x)' = OpsOf(x)
  BY DEF OpsOf
<1>2. \A x : x \notin Exchanges => OpsOf(x) = {}
  BY DEF RefusalInv, OpsOf
<1>3. IsSeq(ops') /\ \A i \in DOMAIN ops' : ops'[i].exchange \in Exchanges'
  BY DEF RefusalInv
<1>4. \A w \in Workers : http'[w].pc \in {"middleware", "handler", "turn"} =>
         OpsOf(http'[w].x) = {}
  BY <1>2 DEF RefusalInv
<1>5. \A w \in Workers : http'[w].pc \in {"401", "413"} => http'[w] = http[w]
  OBVIOUS
<1>6. \A w \in Workers : http'[w].pc \in {"401", "413"} =>
         \E i \in DOMAIN ops : /\ OpsOf(http'[w].x) = {i}
                               /\ ops[i].event_type = RefusalEvent(http'[w].pc)
  BY <1>5 DEF RefusalInv
<1>7. RefusalsAudited'
  BY DEF RefusalsAudited, AuditedExchange
<1>8. QED
  BY <1>3, <1>4, <1>6, <1>7 DEF RefusalInv, OpsOf

\* The refusal's event is the only one of its exchange.
LEMMA RefusingKept ==
    ASSUME AdmissionInv, Serving, RefusalInv, NEW w \in Workers, Refusing(w)
    PROVE  RefusalInv'
<1>0. PICK i, n : i = http[w].x /\ n = Len(ops) + 1
  OBVIOUS
<1>1. PICK pc, fallback :
         /\ pc \in {"401", "413"}
         /\ http[w].pc \in {"middleware", "handler"} /\ Proceed(w, pc)
         /\ ops' = Append(ops, OperationalEvent(i, RefusalEvent(pc), fallback))
  BY <1>0 DEF Refusing, RefusalEvent
<1> DEFINE event == OperationalEvent(i, RefusalEvent(pc), fallback)
<1>2. /\ i \in Exchanges /\ exchange[i].status = "pending"
      /\ \A v \in Workers : v # w => http[v].x # i
      /\ OpsOf(i) = {} /\ exchange[i].turn = 0
  BY <1>0, <1>1, Served DEF RefusalInv, AdmissionInv, ServersOK
<1>3. event.exchange = i /\ event.event_type = RefusalEvent(pc)
  BY DEF OperationalEvent
<1>4. exchange' = exchange /\ Exchanges' = Exchanges
  BY DEF Refusing, Exchanges
<1>5. /\ IsSeq(ops') /\ DOMAIN ops' = DOMAIN ops \cup {n} /\ ops'[n] = event
      /\ \A j \in DOMAIN ops : ops'[j] = ops[j]
  BY <1>0, <1>1, AppendSeq DEF RefusalInv
<1>6. n \notin DOMAIN ops
  BY <1>0, SeqDomain DEF RefusalInv
<1>7. /\ http'[w].pc = pc /\ http'[w].x = i
      /\ \A v \in Workers : v # w => http'[v] = http[v]
  BY <1>0, <1>1, ProceedFacts
<1> HIDE DEF event
<1>8. OpsOf(i)' = {n}
  BY <1>2, <1>3, <1>5, <1>6 DEF OpsOf
<1>9. \A x : x # i => OpsOf(x)' = OpsOf(x)
  BY <1>3, <1>5, <1>6 DEF OpsOf
<1>10. \A j \in DOMAIN ops' : ops'[j].exchange \in Exchanges'
  BY <1>2, <1>3, <1>4, <1>5 DEF RefusalInv
<1>11. \A v \in Workers : http'[v].pc \in {"middleware", "handler", "turn"} =>
          OpsOf(http[v].x)' = {}
  <2>1. \A v \in Workers : http'[v].pc \in {"middleware", "handler", "turn"} =>
           v # w /\ http'[v] = http[v] /\ http'[v].x # i
    BY <1>1, <1>2, <1>7
  <2>2. QED
    BY <1>9, <2>1 DEF RefusalInv
<1>12. \A v \in Workers : http'[v].pc \in {"401", "413"} =>
          \E j \in DOMAIN ops' : /\ OpsOf(http[v].x)' = {j}
                                 /\ ops'[j].event_type = RefusalEvent(http'[v].pc)
  <2> SUFFICES ASSUME NEW v \in Workers, http'[v].pc \in {"401", "413"}
               PROVE  \E j \in DOMAIN ops' :
                         /\ OpsOf(http[v].x)' = {j}
                         /\ ops'[j].event_type = RefusalEvent(http'[v].pc)
    OBVIOUS
  <2>1. CASE v = w
    BY <1>3, <1>5, <1>7, <1>8, <2>1
  <2>2. CASE v # w
    <3>1. PICK j \in DOMAIN ops : /\ OpsOf(http[v].x) = {j}
                                  /\ ops[j].event_type = RefusalEvent(http[v].pc)
      BY <1>7, <2>2 DEF RefusalInv
    <3>2. http'[v] = http[v] /\ http'[v].x # i
      BY <1>2, <1>7, <2>2
    <3>3. OpsOf(http[v].x)' = {j} /\ j \in DOMAIN ops' /\ ops'[j] = ops[j]
      BY <1>5, <1>9, <3>1, <3>2
    <3>4. QED
      BY <3>1, <3>2, <3>3
  <2>3. QED
    BY <2>1, <2>2
<1>13. RefusalsAudited'
  <2> SUFFICES ASSUME NEW x \in Exchanges PROVE AuditedExchange(x)'
    BY <1>4 DEF RefusalsAudited, AuditedExchange
  <2>1. AuditedExchange(x)
    BY DEF RefusalInv, RefusalsAudited, AuditedExchange
  <2>2. CASE x = i
    BY <1>2, <1>4, <1>8, <2>2 DEF AuditedExchange
  <2>3. CASE x # i
    BY <1>4, <1>5, <1>9, <2>1, <2>3 DEF AuditedExchange, OpsOf
  <2>4. QED
    BY <2>2, <2>3
<1>14. QED
  BY <1>5, <1>10, <1>11, <1>12, <1>13 DEF RefusalInv

\* A client who is refused finds the event written; any other answer goes to an
\* exchange without one.
LEMMA AnsweringKept ==
    ASSUME AdmissionInv, Serving, RefusalInv, NEW w \in Workers, Answering(w)
    PROVE  RefusalInv'
<1>1. PICK status, detail : Answers(w, status, detail) /\ Reply(w, status, detail)
  BY DEF Answering
<1>0. PICK i : i = http[w].x
  OBVIOUS
<1>2. http[w].pc # "idle" /\ i \in Exchanges
  BY <1>0, <1>1, Served DEF Answers
<1>3. /\ Exchanges' = Exchanges /\ ops' = ops
      /\ \A x \in Exchanges : x # i => exchange'[x] = exchange[x]
      /\ exchange'[i].status = status
      /\ http'[w].pc = "idle"
      /\ \A v \in Workers : v # w => http'[v] = http[v]
  BY <1>0, <1>1, <1>2, ReplyFacts DEF Answering
<1>4. \A x : OpsOf(x)' = OpsOf(x)
  BY <1>3 DEF OpsOf
<1>5. AuditedExchange(i)'
  <2>1. CASE http[w].pc \in {"middleware", "handler", "turn"}
    <3>1. status \in {"200", "400", "422", "500"} /\ OpsOf(i) = {}
      BY <1>0, <1>1, <2>1 DEF Answers, RefusalInv
    <3>2. QED
      BY <1>3, <1>4, <3>1 DEF AuditedExchange
  <2>2. CASE http[w].pc \in {"401", "413"}
    <3>1. status = http[w].pc
      BY <1>1, <2>2 DEF Answers
    <3>2. PICK j \in DOMAIN ops : OpsOf(i) = {j} /\ ops[j].event_type = RefusalEvent(status)
      BY <1>0, <2>2, <3>1 DEF RefusalInv
    <3>3. QED
      BY <1>3, <1>4, <2>2, <3>1, <3>2 DEF AuditedExchange
  <2>3. QED
    BY <1>2, <2>1, <2>2 DEF Serving, HttpCounters
<1>6. \A x \in Exchanges : x # i => AuditedExchange(x)'
  BY <1>3, <1>4 DEF RefusalInv, RefusalsAudited, AuditedExchange
<1>7. QED
  BY <1>3, <1>5, <1>6, RefusalKept

\* Every step keeps refusals and the audit log in agreement.
LEMMA NextRefusal ==
    TypeOK /\ AdmissionInv /\ Serving /\ RefusalInv /\ [ApiNext]_allVars => RefusalInv'
<1> SUFFICES ASSUME TypeOK, AdmissionInv, Serving, RefusalInv, [ApiNext]_allVars
             PROVE  RefusalInv'
  OBVIOUS
<1>1. \A x \in Exchanges : AuditedExchange(x)
  BY DEF RefusalInv, RefusalsAudited, AuditedExchange
<1>2. CASE UNCHANGED <<http, exchange, ops>>
  BY <1>2 DEF RefusalInv, RefusalsAudited, OpsOf, Exchanges
<1>3. CASE ApiRestart
  <2>1. \A x \in Exchanges : AuditedExchange(x)'
    BY <1>1, <1>3, RestartFacts DEF AuditedExchange, OpsOf
  <2>2. QED
    BY <1>3, <2>1, RestartFacts, RefusalKept
<1>4. ASSUME NEW w \in Workers, Receive(w) PROVE RefusalInv'
  <2>0. PICK n : n = Len(exchange) + 1
    OBVIOUS
  <2>1. /\ n \notin Exchanges /\ Exchanges' = Exchanges \cup {n}
        /\ \A x \in Exchanges : exchange'[x] = exchange[x]
        /\ exchange'[n].status = "pending"
        /\ http'[w].pc = "middleware" /\ http'[w].x = n
        /\ \A v \in Workers : v # w => http'[v] = http[v]
        /\ ops' = ops
    BY <1>4, <2>0, ReceiveFacts
  <2>2. OpsOf(n) = {} /\ \A x : OpsOf(x)' = OpsOf(x)
    BY <2>1 DEF RefusalInv, OpsOf
  <2>3. AuditedExchange(n)'
    BY <2>1, <2>2 DEF AuditedExchange
  <2>4. \A x \in Exchanges : AuditedExchange(x)'
    BY <1>1, <2>1, <2>2 DEF AuditedExchange
  <2>5. QED
    BY <2>1, <2>3, <2>4, RefusalKept
<1>5. ASSUME NEW w \in Workers, PassMiddleware(w) PROVE RefusalInv'
  <2>1. /\ exchange' = exchange /\ Exchanges' = Exchanges /\ ops' = ops
        /\ http[w].pc = "middleware" /\ Proceed(w, "handler")
    BY <1>5 DEF PassMiddleware, Doing, Exchanges
  <2>2. \A x \in Exchanges : AuditedExchange(x)'
    BY <1>1, <2>1 DEF AuditedExchange, OpsOf
  <2>3. QED
    BY <2>1, <2>2, ProceedFacts, RefusalKept
<1>6. ASSUME NEW w \in Workers, RunTurn(w) PROVE RefusalInv'
  <2>0. PICK i : i = http[w].x
    OBVIOUS
  <2>1. /\ http[w].pc = "handler" /\ Exchanges' = Exchanges /\ ops' = ops
        /\ \A x \in Exchanges : x # i => exchange'[x] = exchange[x]
        /\ exchange'[i].status = exchange[i].status
        /\ http'[w].pc = "turn" /\ http'[w].x = i
        /\ \A v \in Workers : v # w => http'[v] = http[v]
    BY <1>6, <2>0, RunFacts
  <2>2. exchange[i].status = "pending" /\ OpsOf(i) = {}
    BY <2>0, <2>1, Served DEF RefusalInv
  <2>3. \A x : OpsOf(x)' = OpsOf(x)
    BY <2>1 DEF OpsOf
  <2>4. AuditedExchange(i)'
    BY <2>1, <2>2, <2>3 DEF AuditedExchange
  <2>5. \A x \in Exchanges : x # i => AuditedExchange(x)'
    BY <1>1, <2>1, <2>3 DEF AuditedExchange
  <2>6. QED
    BY <2>0, <2>1, <2>4, <2>5, RefusalKept
<1>7. CASE UNCHANGED allVars \/ ((Tick \/ EditPolicy \/ MintToken) /\ UNCHANGED apiVars)
  BY <1>2, <1>7 DEF allVars, apiVars
<1>8. ASSUME NEW w \in Workers, TurnStep(w), UNCHANGED apiVars PROVE RefusalInv'
  BY <1>2, <1>8 DEF apiVars
<1>9. QED
  BY <1>3, <1>4, <1>5, <1>6, <1>7, <1>8, AnsweringKept, RefusingKept, ServeShapes
     DEF ApiNext, ApiQuiet

\* Every refusal a client was told of is in the audit log, once and as what it
\* was, and an event stands for a refusal.
THEOREM RefusalsAreAudited == ApiSpec => []RefusalsAudited
<1>1. RefusalInv => RefusalsAudited
  BY DEF RefusalInv
<1>2. QED
  BY <1>1, InitRefusal, NextRefusal, ServiceInvariant, PTL DEF ApiSpec

-----------------------------------------------------------------------------
(* What an error says *)

\* A production service does not show internals.
OpaqueInv ==
    /\ cfg.environment_mode = "production" => ~cfg.enable_debug_errors
    /\ ProductionErrorsAreOpaque

\* Every answer that is an error has an opaque detail in production.
LEMMA OpaqueAnswers ==
    ASSUME NEW w \in Workers, NEW status, NEW detail, Answers(w, status, detail),
           ~cfg.enable_debug_errors, status # "200"
    PROVE  detail \in OpaqueDetails
<1>1. ProductionErrorDetail(cfg) = "internal_error"
  BY DEF ProductionErrorDetail
<1>2. QED
  BY <1>1 DEF Answers, OpaqueDetails

\* Every step keeps the details of the answers opaque.
LEMMA NextOpaque ==
    TypeOK /\ AdmissionInv /\ Serving /\ OpaqueInv /\ [ApiNext]_allVars => OpaqueInv'
<1> SUFFICES ASSUME TypeOK, AdmissionInv, Serving, OpaqueInv, [ApiNext]_allVars
             PROVE  OpaqueInv'
  OBVIOUS
<1>1. cfg' = cfg
  BY DEF ApiNext, allVars, apiVars, ApiRestart, Receive, ServeStep, ApiQuiet,
     RejectLength, LimitBody, LimitBodyFails, PassMiddleware, Health,
     RejectJson, Refuse, RefuseFails, SendRefusal, RejectBody, RunTurn, Respond
<1>2. SUFFICES ASSUME cfg.environment_mode = "production",
                      NEW x \in Exchanges',
                      exchange'[x].status \in HttpStatuses \ {"200"}
               PROVE  exchange'[x].detail \in OpaqueDetails
  BY <1>1 DEF OpaqueInv, ProductionErrorsAreOpaque
<1>3. ASSUME x \in Exchanges, exchange'[x].status = exchange[x].status,
             exchange'[x].detail = exchange[x].detail
      PROVE  exchange'[x].detail \in OpaqueDetails
  BY <1>2, <1>3 DEF OpaqueInv, ProductionErrorsAreOpaque
<1>4. CASE UNCHANGED exchange
  BY <1>3, <1>4 DEF Exchanges
<1>5. CASE ApiRestart
  BY <1>2, <1>3, <1>5, RestartFacts DEF HttpStatuses
<1>6. ASSUME NEW w \in Workers, Receive(w)
      PROVE  exchange'[x].detail \in OpaqueDetails
  BY <1>2, <1>3, <1>6, ReceiveFacts DEF HttpStatuses
<1>7. ASSUME NEW w \in Workers, Answering(w)
      PROVE  exchange'[x].detail \in OpaqueDetails
  <2>1. PICK status, detail : Answers(w, status, detail) /\ Reply(w, status, detail)
    BY <1>7 DEF Answering
  <2>2. http[w].pc # "idle"
    BY <2>1 DEF Answers
  <2>3. CASE x = http[w].x
    <3>1. exchange'[x].status = status /\ exchange'[x].detail = detail
      BY <2>1, <2>2, <2>3, ReplyFacts
    <3>2. QED
      BY <1>2, <2>1, <3>1, OpaqueAnswers DEF OpaqueInv
  <2>4. CASE x # http[w].x
    BY <1>2, <1>3, <2>1, <2>2, <2>4, ReplyFacts
  <2>5. QED
    BY <2>3, <2>4
<1>8. ASSUME NEW w \in Workers, RunTurn(w)
      PROVE  exchange'[x].detail \in OpaqueDetails
  <2>1. /\ x \in Exchanges /\ exchange'[x].status = exchange[x].status
        /\ exchange'[x].detail = exchange[x].detail
    BY <1>8, RunFacts
  <2>2. QED
    BY <1>3, <2>1
<1>9. ASSUME NEW w \in Workers, Refusing(w) \/ PassMiddleware(w)
      PROVE  exchange'[x].detail \in OpaqueDetails
  BY <1>4, <1>9 DEF Refusing, PassMiddleware
<1>10. ASSUME UNCHANGED apiVars PROVE exchange'[x].detail \in OpaqueDetails
  BY <1>4, <1>10 DEF apiVars
<1>11. QED
  BY <1>5, <1>6, <1>7, <1>8, <1>9, <1>10, ServeShapes
     DEF ApiNext, ApiQuiet, allVars

\* No error a production service answers with carries internals, whichever
\* layer it comes from and whatever went wrong inside.
THEOREM ErrorsAreOpaque == ApiSpec => []ProductionErrorsAreOpaque
<1>1. ApiInit => OpaqueInv
  <2> SUFFICES ASSUME ApiInit PROVE OpaqueInv
    OBVIOUS
  <2>1. PICK app \in Apps : cfg = app.config
    BY DEF ApiInit
  <2>2. cfg.environment_mode = "production" => ~cfg.enable_debug_errors
    BY <2>1, AppsValidated DEF SettingsOk, ProductionSettingsOk
  <2>3. QED
    BY <2>2 DEF ApiInit, OpaqueInv, ProductionErrorsAreOpaque, Exchanges
<1>2. OpaqueInv => ProductionErrorsAreOpaque
  BY DEF OpaqueInv
<1>3. QED
  BY <1>1, <1>2, NextOpaque, ServiceInvariant, PTL DEF ApiSpec

-----------------------------------------------------------------------------
(* The ids of audit events *)

\* Normalising an id that is not blank keeps its text and makes it usable.
LEMMA NormalizedId ==
    ASSUME NEW id \in Ids, id.stripped > 0, NEW fallback
    PROVE  LET n == NormalizeCorrelationId(id, fallback)
           IN  n \in Ids /\ Usable(n) /\ n.text = id.text
<1>1. id # None /\ id.stripped \in Nat /\ id.stripped # 0
  BY IdsAssumption DEF Ids
<1>2. PICK k : /\ k \in Nat /\ k > 0 /\ k <= MAX_CORRELATION_ID_LEN
               /\ k = IF id.stripped > MAX_CORRELATION_ID_LEN
                      THEN MAX_CORRELATION_ID_LEN ELSE id.stripped
  BY <1>1 DEF MAX_CORRELATION_ID_LEN
<1>3. NormalizeCorrelationId(id, fallback) = [id EXCEPT !.length = k, !.stripped = k]
  BY <1>1, <1>2 DEF NormalizeCorrelationId
<1>4. DOMAIN id = {"text", "length", "stripped"} /\ id.text \in IdTexts
  BY DEF Ids
<1> DEFINE n == [id EXCEPT !.length = k, !.stripped = k]
<1>5. /\ n = [f \in {"text", "length", "stripped"} |-> n[f]]
      /\ n.text = id.text /\ n.length = k /\ n.stripped = k
  BY <1>4
<1> HIDE DEF n
<1>6. n \in Ids
  <2>1. n.stripped <= n.length
    BY <1>2, <1>5
  <2>2. n \in [text : IdTexts, length : Nat, stripped : Nat]
    BY <1>2, <1>4, <1>5
  <2>3. QED
    BY <2>1, <2>2 DEF Ids
<1>7. QED
  BY <1>2, <1>3, <1>5, <1>6 DEF Usable, n

\* A blank or missing id is replaced by the fallback, as it is.
LEMMA NormalizedBlank ==
    ASSUME NEW id, id = None \/ id.stripped = 0, NEW fallback
    PROVE  NormalizeCorrelationId(id, fallback) = fallback
BY DEF NormalizeCorrelationId

\* Normalising twice: the id itself where it is not blank, else the request's.
LEMMA ResolvedId ==
    ASSUME NEW id \in Ids \cup {None}, NEW requestId \in Ids
    PROVE  LET n == ResolveCorrelationId(NormalizeCorrelationId(id, requestId), requestId)
           IN  /\ Usable(n) <=> HasText(id) \/ HasText(requestId)
               /\ n.text = IF HasText(id) THEN id.text ELSE requestId.text
<1> DEFINE first == NormalizeCorrelationId(id, requestId)
           n == NormalizeCorrelationId(first, requestId)
<1>1. /\ requestId.stripped \in Nat /\ requestId # None
      /\ id # None => id.stripped \in Nat
  BY IdsAssumption DEF Ids
<1>2. CASE HasText(id)
  <2>1. first \in Ids /\ Usable(first) /\ first.text = id.text
    BY <1>2, NormalizedId DEF HasText
  <2>2. first.stripped > 0
    BY <2>1 DEF Usable
  <2> HIDE DEF first
  <2>3. Usable(n) /\ n.text = first.text
    BY <2>1, <2>2, NormalizedId
  <2>4. QED
    BY <1>2, <2>1, <2>3 DEF ResolveCorrelationId, first
<1>3. CASE ~HasText(id)
  <2>1. first = requestId
    BY <1>1, <1>3, NormalizedBlank DEF HasText
  <2>2. HasText(requestId) => Usable(n) /\ n.text = requestId.text
    BY <2>1, NormalizedId DEF HasText
  <2>3. ~HasText(requestId) => n = requestId /\ ~Usable(requestId)
    BY <1>1, <2>1, NormalizedBlank DEF HasText, Usable
  <2> HIDE DEF n
  <2>4. n = ResolveCorrelationId(NormalizeCorrelationId(id, requestId), requestId)
    BY DEF n, ResolveCorrelationId
  <2>5. QED
    BY <1>3, <2>2, <2>3, <2>4
<1>4. QED
  BY <1>2, <1>3

\* The id of an operational event is usable.
LEMMA OperationalId ==
    ASSUME NEW x, exchange[x].message \in Messages, NEW eventType, NEW text,
           NEW length \in 1 .. MAX_CORRELATION_ID_LEN
    PROVE  Usable(OperationalEvent(x, eventType, Literal(text, length)).correlation_id)
<1> DEFINE id == exchange[x].message.header_id
<1>1. id \in Ids \cup {None}
  BY IdsAssumption
<1>2. Usable(Literal(text, length))
  BY DEF Usable, Literal, MAX_CORRELATION_ID_LEN
<1> HIDE DEF id
<1>3. Usable(NormalizeCorrelationId(id, Literal(text, length)))
  <2>1. id # None => id.stripped \in Nat
    BY <1>1 DEF Ids
  <2>2. CASE id # None /\ id.stripped > 0
    BY <1>1, <2>2, NormalizedId
  <2>3. CASE id = None \/ id.stripped = 0
    BY <1>2, <2>3, NormalizedBlank
  <2>4. QED
    BY <2>1, <2>2, <2>3
<1>4. QED
  BY <1>3 DEF OperationalEvent, id

\* A turn's exchange keeps the id its handler derived from body and header.
NamedTurn(x) ==
    LET message == exchange[x].message IN
    /\ message.body \notin {None, Garbled}
    /\ exchange[x].correlation_id =
          NormalizeCorrelationId(CallerId(message), message.body.request_id)

IdInv ==
    /\ IsSeq(ops) /\ \A i \in DOMAIN ops : Usable(ops[i].correlation_id)
    /\ \A x \in Exchanges : exchange[x].turn # 0 => NamedTurn(x)

\* Initially there are no events.
LEMMA InitId == ApiInit => IdInv
<1> SUFFICES ASSUME ApiInit PROVE IdInv
  OBVIOUS
<1>1. exchange = << >> /\ ops = << >>
  BY DEF ApiInit
<1>2. IsSeq(ops)
  BY <1>1 DEF IsSeq
<1>3. QED
  BY <1>1, <1>2 DEF IdInv, Exchanges

\* Every step names its events.
LEMMA NextId ==
    TypeOK /\ AdmissionInv /\ Serving /\ IdInv /\ [ApiNext]_allVars => IdInv'
<1> SUFFICES ASSUME TypeOK, AdmissionInv, Serving, IdInv, [ApiNext]_allVars
             PROVE  IdInv'
  OBVIOUS
<1>1. ASSUME NEW x \in Exchanges, exchange'[x].message = exchange[x].message,
             exchange'[x].turn = exchange[x].turn,
             exchange'[x].correlation_id = exchange[x].correlation_id
      PROVE  exchange'[x].turn # 0 => NamedTurn(x)'
  BY <1>1 DEF IdInv, NamedTurn, CallerId, NormalizeCorrelationId
<1>2. CASE UNCHANGED <<exchange, ops>>
  BY <1>1, <1>2 DEF IdInv, Exchanges
<1>3. CASE ApiRestart
  BY <1>1, <1>3, RestartFacts DEF IdInv
<1>4. ASSUME NEW w \in Workers, Receive(w) PROVE IdInv'
  BY <1>1, <1>4, ReceiveFacts DEF IdInv
<1>5. ASSUME NEW w \in Workers, Answering(w) PROVE IdInv'
  <2>1. PICK status, detail : Answers(w, status, detail) /\ Reply(w, status, detail)
    BY <1>5 DEF Answering
  <2>2. http[w].pc # "idle" /\ ops' = ops
    BY <1>5, <2>1 DEF Answering, Answers
  <2>3. Exchanges' = Exchanges /\ \A x \in Exchanges :
           /\ exchange'[x].message = exchange[x].message
           /\ exchange'[x].turn = exchange[x].turn
           /\ exchange'[x].correlation_id = exchange[x].correlation_id
    BY <2>1, <2>2, ReplyFacts
  <2>4. QED
    BY <1>1, <2>2, <2>3 DEF IdInv
<1>6. ASSUME NEW w \in Workers, Refusing(w) PROVE IdInv'
  <2>1. PICK eventType, text, length :
           /\ length \in 1 .. MAX_CORRELATION_ID_LEN
           /\ ops' = Append(ops, OperationalEvent(http[w].x, eventType,
                                                  Literal(text, length)))
    <3>1. 14 \in 1 .. MAX_CORRELATION_ID_LEN /\ 19 \in 1 .. MAX_CORRELATION_ID_LEN
      BY DEF MAX_CORRELATION_ID_LEN
    <3>2. \/ ops' = Append(ops, OperationalEvent(http[w].x,
                   "request_body_limit_blocked", Literal("api-body-limit", 14)))
          \/ ops' = Append(ops, OperationalEvent(http[w].x,
                   "api_auth_failure", Literal("api-unauthenticated", 19)))
      BY <1>6 DEF Refusing
    <3>3. QED
      BY <3>1, <3>2
  <2> DEFINE event == OperationalEvent(http[w].x, eventType, Literal(text, length))
  <2>2. http[w].pc # "idle" /\ exchange' = exchange
    BY <1>6 DEF Refusing
  <2>3. Usable(event.correlation_id)
    BY <2>1, <2>2, Served, OperationalId
  <2> HIDE DEF event
  <2>4. /\ IsSeq(ops') /\ DOMAIN ops' = DOMAIN ops \cup {Len(ops) + 1}
        /\ ops'[Len(ops) + 1] = event
        /\ \A i \in DOMAIN ops : ops'[i] = ops[i]
    BY <2>1, AppendSeq DEF IdInv, event
  <2>5. IsSeq(ops') /\ \A i \in DOMAIN ops' : Usable(ops'[i].correlation_id)
    BY <2>3, <2>4 DEF IdInv
  <2>6. QED
    BY <1>1, <2>2, <2>5 DEF IdInv, Exchanges
<1>7. ASSUME NEW w \in Workers, RunTurn(w) PROVE IdInv'
  <2>1. PICK i : i = http[w].x
    OBVIOUS
  <2>2. /\ exchange[i].message.body \notin {Garbled, None}
        /\ Exchanges' = Exchanges /\ ops' = ops
        /\ \A x \in Exchanges : x # i => exchange'[x] = exchange[x]
        /\ exchange'[i].message = exchange[i].message
        /\ exchange'[i].correlation_id =
              NormalizeCorrelationId(CallerId(exchange[i].message),
                                     exchange[i].message.body.request_id)
    BY <1>7, <2>1, RunFacts
  <2>3. NamedTurn(i)'
    BY <2>2 DEF NamedTurn, CallerId, NormalizeCorrelationId
  <2>4. QED
    BY <1>1, <2>2, <2>3 DEF IdInv
<1>8. CASE UNCHANGED apiVars \/ \E w \in Workers : PassMiddleware(w)
  BY <1>2, <1>8 DEF apiVars, PassMiddleware
<1>9. QED
  BY <1>3, <1>4, <1>5, <1>6, <1>7, <1>8, ServeShapes DEF ApiNext, ApiQuiet, allVars

\* Operational events always have an id to be found by; a turn's event has one
\* exactly when the caller gave some id that is not blank, and it is the caller's:
\* the body's, else the header's, else the request's own.
THEOREM EventsAreFindable == ApiSpec => []EventIdsUsable
<1>1. TypeOK /\ AdmissionInv /\ EventsKnown /\ IdInv => EventIdsUsable
  <2> SUFFICES ASSUME TypeOK, AdmissionInv, EventsKnown, IdInv,
                      NEW i \in DOMAIN audit, NEW x \in Exchanges,
                      exchange[x].turn = audit[i].turn
               PROVE  LET message == exchange[x].message
                          inBody  == message.body.correlation_id
                          own     == message.body.request_id
                          eventId == TurnEventId(x)
                      IN  /\ Usable(eventId) <=> HasText(CallerId(message)) \/ HasText(own)
                          /\ HasText(inBody) => eventId.text = inBody.text
                          /\ inBody = None /\ HasText(message.header_id) =>
                                eventId.text = message.header_id.text
                          /\ ~HasText(CallerId(message)) => eventId.text = own.text
    BY DEF EventIdsUsable, IdInv
  <2> DEFINE message == exchange[x].message
             id == CallerId(message)
             requestId == message.body.request_id
  <2>1. exchange[x].turn # 0
    BY SeqDomain DEF EventsKnown, TypeOK, TurnsOK, Turns
  <2>2. NamedTurn(x) /\ message \in Messages
    BY <2>1 DEF IdInv, AdmissionInv, ExchangesOK
  <2>3. requestId \in Ids /\ id \in Ids \cup {None}
    BY <2>2, IdsAssumption DEF NamedTurn, CallerId
  <2>4. /\ message.body.correlation_id = None => id = message.header_id
        /\ HasText(message.body.correlation_id) => id = message.body.correlation_id
    <3>1. message.body.correlation_id \in Ids \cup {None}
      BY <2>2, IdsAssumption DEF NamedTurn
    <3>2. QED
      BY <3>1 DEF CallerId, HasText, Ids
  <2>5. TurnEventId(x) = ResolveCorrelationId(NormalizeCorrelationId(id, requestId),
                                              requestId)
    BY <2>2 DEF TurnEventId, NamedTurn
  <2> HIDE DEF id, requestId
  <2>6. /\ Usable(TurnEventId(x)) <=> HasText(id) \/ HasText(requestId)
        /\ TurnEventId(x).text = IF HasText(id) THEN id.text ELSE requestId.text
    BY <2>3, <2>5, ResolvedId
  <2>7. QED
    BY <2>4, <2>6 DEF id, requestId
<1>2. AuditInv => EventsKnown
  BY DEF AuditInv
<1>3. QED
  BY <1>1, <1>2, InitId, NextId, ServiceInvariant, ServiceAudits, PTL DEF ApiSpec
=============================================================================
