# Formal model of the LLM agent control plane

TLA+ modules for `src/src/agent_control_plane`, TLC runs that check them on small
instances, and TLAPS proofs of the properties that matter most for every instance.

## 1. The system

A caller sends an `AgentRequest`; a (simulated) model answers with text and perhaps
a tool call; the control plane treats both as untrusted and decides what is shown
and what is executed. Paths below are relative to `src/src/agent_control_plane`.

| Component | State | Operations | Hard parts | Correct when |
|---|---|---|---|---|
| `pipeline.py` | none of its own; uses the policy file, the token registry and the audit log | `run_protected`, `run_vulnerable` | turns on several threads share that state; exceptions between execution, mark and audit | only permitted, approved calls run; log, answers and executions agree |
| `approval_tokens.py` | `_USED_APPROVAL_IDS`, in memory, per process | mint, verify, mark used | check and mark are apart; restart empties the set; expiry; binding | a token authorises one action, once |
| `approval_gate.py` | none | `evaluate_approval_gate` | precedence of token, demand for a token, boolean flag | the flag never replaces a demanded token |
| `policy_engine.py`, `policy_types.py` | the YAML file, read on every turn | `load_policy`, `evaluate_policy` | malformed files, edits during a turn, defaults of missing keys | deny by default; the file in force decides |
| `provenance.py`, `provenance_integrity.py` | none | source rules, HMAC over the canonical form | untrusted sources posing as authority | only model, system or reviewed provenance authorises |
| `schemas.py`, `tool_broker.py` | none | `broker_tool_request` | order of the four checks | whatever it allows passed all four |
| `output_filter.py` | none | `filter_output` | severity, destination and preference rules interact | nothing flagged is released |
| `audit_logger.py` | the JSONL file | `write`, `read_events` | failing append, crash around it, redaction across fields | one event per turn, never rewritten, readable |
| `agent_core.py`, `llm_adapter.py` | none | `generate` | adapter failure; any output is possible | its failure is audited and re-raised |
| `simulator.py` | none | simulated execution | | |
| `api.py`, `observability.py` | the application instance, built on the first request | body limit, authentication, `/run`, `/health`, operational audit events | several requests at once, order of the checks, errors after a side effect, a failed construction | refusals for size or key are audited, no refusal runs anything, statuses tell what happened, errors are opaque |
| `config.py` | none after start | `load_config_from_env`, `AppConfig.validate`, key file | combinations of settings, misspelt values, files that change between check and use | an unsafe production service never comes up |
| `policy_integrity.py`, `scripts/validate_policy.py` | the recorded digest | validate, record, compare | two reads of the policy file, agreement with what the engine loads | green means recorded on purpose, and enforced |
| `prompt.py`, `demo.py`, other `scripts/`, `deploy/` | none | text layout, printing, release checks, manifests | | |

Interaction: `api.run_turn` (a synchronous FastAPI handler, so it runs on a thread
pool) or a library caller calls the pipeline. Within a turn the order is
`load_policy` → `generate` → `filter_output` → `broker_tool_request` (schema,
integrity, policy with provenance rules, approval gate) → `simulate_tool_execution`
→ `mark_approval_token_used` → `AuditLogger.write` → return. A refusal at any stage
goes to the audit log and then to the caller. Around it, `MaxBodySizeMiddleware`,
FastAPI's parsing, `require_api_key` and the body's validation decide in this order
whether a turn begins at all, and the exception handlers word the answer. Only the
refusals of the body limit and of `require_api_key` (413, 401) are audited; a 400 or a
422 is not.

## 2. Modules

| Module | Models |
|---|---|
| `Models` | shared vocabulary: `None`, the adapter's exception, `dict.get`, `sorted` |
| `ProvenanceIntegrity` | `provenance_integrity.py` |
| `ApprovalTokens` | `approval_tokens.py` without its registry, `approval_gate.py` |
| `PolicyEngine` | `policy_engine.py`, `policy_types.py`, `provenance.py` |
| `ToolBroker` | `schemas.py`, `tool_broker.py` (extends the three above) |
| `OutputFilter`, `OutputFilterProperties` | `output_filter.py`; its promises for any text, source and destination |
| `AgentCore` | `agent_core.py`, `llm_adapter.py` |
| `Pipeline` | `pipeline.py`, the registry, the audit log, `simulator.py`; composes all but `AgentCore`, whose adapter is the constant `Candidates` |
| `PipelineProperties` | the pipeline's properties |
| `ApprovalLedger` | abstract specification: grants, each spent at most once, as granted and in time |
| `LedgerRefinement` | the refinement mapping from `Pipeline` to `ApprovalLedger` |
| `AppConfig` | `config.py` |
| `PolicyIntegrity` | `policy_integrity.py` (extends `PolicyEngine`) |
| `Deployment` | two processes over the deployed files: `scripts/validate_policy.py`, and `get_app`/`create_app` starting the service |
| `Api`, `ApiProperties` | `api.py`, `observability.py`; composes `Pipeline` and `AppConfig` |
| `AuditLogger` | `audit_logger.py`, one line at a time |
| `MCPipeline`, `MCOutputFilter`, `MCDeployment`, `MCApi`, `MCAuditLogger` | instances for TLC; `MCPolicyFiles` holds the policy files' notation |
| `PipelineProofs` ← `AuthorityProofs` ← `ReplayProofs` ← `LedgerProofs`, `AuditProofs` ← `ApiProofs`; `DeploymentProofs`; `OutputFilterProofs` | theorems; an arrow points to the module extended |

The pure components are operators; `Pipeline`, `Api`, `Deployment` and `AuditLogger`
are state machines. Definitions
keep the code's names in camel case (`EvaluateApprovalGate` is
`evaluate_approval_gate`), reasons and event types keep their strings.

**State of `Pipeline`.** `policy_log` is every content the policy file has had, the
last being current; `used` is `_USED_APPROVAL_IDS`; `audit` is the log; `worker[w]`
is the frame of the turn thread `w` is running (`pc`, request, token, place of the
policy it read in `policy_log`, model turn, broker decision, stage). `now` is the
clock and `epoch` counts restarts. `approvals`, `executed` and `outcome` are history
the program does not keep: what approvers saw, what the simulator ran, what callers
were answered.

**Actions.** A turn is cut exactly where it touches shared state:

| Action | Code |
|---|---|
| `BeginTurn` | a call of `run_protected` or `run_vulnerable`, with or without a token |
| `LoadPolicyStep`, `LoadPolicyFails` | `load_policy` (`pipeline.py:66`), returning or raising |
| `GenerateProtected` | adapter, filter and the no-tool branch (67-141), local to the thread |
| `GenerateVulnerable` | `run_vulnerable` up to its audit event (238-250) |
| `BrokerStep` | the broker reading registry and clock (143-202) |
| `Simulate`, `MarkUsed` | 204 and 205-206, two steps |
| `WriteAudit`, `WriteAuditFails` | `AuditLogger.write`, succeeding or raising |
| `Return` | the return, or the re-raise of an adapter failure |
| `Tick`, `EditPolicy`, `MintToken`, `Restart` | clock, operator, approver (`create_approval_token`), crash |
| `Quiet` | nobody is calling: the system may stay so |

**State of `Api`.** `cfg` is the validated `AppConfig`, `http[w]` what worker `w`
does with which request, `ops` the operational audit events, `exchange` (history)
what each client sent and was told. `RunTurn` begins a turn of `Pipeline` on its
worker; `Respond` answers when it is over.

| Action | Code |
|---|---|
| `RejectLength`, `LimitBody`, `LimitBodyFails`, `PassMiddleware` | `MaxBodySizeMiddleware.dispatch`; the audit append of a refusal may raise |
| `RejectJson` | FastAPI parses the body before the dependencies run; bad JSON is a 422, bytes that cannot be decoded a 400 |
| `Refuse`, `RefuseFails`, `SendRefusal` | `require_api_key`; the event is written before the 401 is sent |
| `RejectBody` | `RunRequestBody` is validated after the dependencies |
| `RunTurn`, `Respond`, `Health` | the handlers, with `unhandled_exception_handler` |
| `ApiRestart` | the process dies; requests in flight are never answered |

**State of `Deployment`.** `env` and `files` (policy, hash, API keys, HMAC key,
and whether the audit directory can be made), `ci` (a run of `validate_policy.py`), `svc` (the service process). Each read of a
file is a step of its own and an operator may edit any file in between: `ValidateFile`,
then `WriteHash`, or `VerifyFile` and `CompareHash`; `LoadConfig`, `ValidateConfig`,
`MakeAuditDir` (`api.py:111`, which raises `OSError` where the directory cannot be
made), `BuildApp`. A failed start leaves no instance, so the next request starts again.

**Refinements.** `KeepsLedger` maps minted tokens to grants and the executions of
this life of the process to spendings; `ImplementsPipeline` is `Pipeline`'s own
specification over the variables `Api` shares with it.

**Abstractions.**
- SHA-256 and HMAC are perfect: a digest is its preimage under a tag. All binding
  results rest on this.
- A text is the set of markers the filter's detectors find in it. The regular
  expressions, the entropy threshold and the base64 heuristic are left out, so the
  filter results say what happens to recognised content, not what is recognised.
- Arguments are the sets of well-typed and ill-typed keys and one value for their
  contents. `sorted(list)` is the list's multiset.
- A policy file is replaced atomically, one audit line is appended atomically,
  `uuid4` ids do not collide and the clock does not go back.
- Callers hold only tokens that were minted (`TokensHeld`). `ApprovalToken` is an
  unsigned model, so a caller of the library could also build or edit one; that the
  callers do not is assumed, and the results about approval rest on it.
- The adapter answers or raises `LLMAdapterError`, the one exception `run_protected`
  catches. Any other exception would leave the turn without an audit event
  (`pipeline.py:67-69`); neither adapter in the repository raises one.
- A policy field is its YAML type and the value pydantic coerces it to.
- An identifier is its text with its length before and after stripping. API keys,
  origins and key files are opaque values; a message has only the parts the service
  reads. PUT, PATCH and unknown routes, which reach no handler, are left out.
- Operational and pipeline audit events are two sequences; their order among each
  other is not kept.
- An audit line is a sequence of field names, list brackets and the parts of values
  the redaction patterns tell apart. The fields whose text the program words itself
  are represented by `stage`.
- The reason of an exception is its class; `would_have_called_<tool>` drops the name.

## 3. Runs

| Run | Instance | Shows |
|---|---|---|
| `scenarios` | 1 worker, 2 turns, all scenarios plus an unknown one, 4 configurations, 7 policy files (default, without top-level keys, loose, allow-by-default, missing, malformed, rejected entry), 1 token of TTL 0, clock to 1 | sequential use: authority, approval, one-time use, classification, refinement of the approval ledger |
| `untrusted` | 2 workers, both paths, a model with 9 possible outcomes for every request, among them texts that name the own and another tenant, 2 policy versions out of 3 files, one malformed, TTL 0 and clock to 1, 1 failing audit write; workers symmetric | the same under concurrency, with policy edits and expiry mid-turn; audit against outcome; no text shown that is not for the caller |
| `replay` | 2 workers, 3 turns, 1 token, 1 restart, 1 failing audit write, fairness | sequential replay stays blocked, log, executions and answers agree, nothing but a restart forgets, every turn ends |
| `filter` | every text of at most 2 markers of 8, 6 request contexts, 5 destinations, 5 structured outputs, strict or not, with and without a list of allowed keys | the filter's rules |
| `startup` | a lab and a production environment with every variable varied, some in pairs; policy, keys and HMAC file present, missing or empty, audit directory possible or not; 1 edit at any point, 1 redeployment | no unsafe service comes up, misspelt switches do not relax it, a failed start is retried until it succeeds |
| `policy_release` | 5 acceptable and 19 unacceptable files, each breaking one check; edits, recordings and checks in any order | a green check certifies a recorded policy, which the engine loads and enforces |
| `api` | 2 workers, 2 requests of 9 kinds (valid, all ids blank, health, bearer key, wrong key, unparsable or missing body, length at, over and not a number), lab and production service, 2 policy versions, 1 restart, 1 failing audit write; workers symmetric | admission, refusals against the log, statuses against outcomes, opaque errors, ids, refinement of `Pipeline` |
| `audit_fields`, `concurrent_one_time_use`, `token_consumed`, `model_text`, `api_token` | small | the findings of section 5 |

*Why the bounds suffice.* One turn reads the registry and one writes it, so two
turns exhibit every check-then-act conflict; the third turn of `replay` comes after
one that ended, failed or was lost. Two policy versions distinguish the policy read
from the current one. `TTL = 0` gives a token at and past its expiry and makes every
tick during a turn matter. Two requests at once are what the API's checks, its audit
events and the pipeline can interleave, and every kind of message meets every other.
In `Deployment` one edit between two reads of one file is the conflict looked for;
`policy_release` allows more, so that a digest can be recorded, the file changed and
changed back. In `api` no token is minted: what happens to one over HTTP is the run
`api_token`'s question. `scenarios` has no restart, so the ledger's `Forget` is covered by the
proof only. The filter's rules
depend on the set of finding types, its highest severity and its most preferred
member, so pairs exercise every comparison; `OutputFilterProofs` covers texts of any size.

*Deadlock* is checked in the pipeline, deployment and API runs; `Quiet` and
`ApiQuiet` let only an idle system stop, so in `api` a request that could never be
answered would show as a deadlock. The filter run and the audit line are bounded
computations and turn it off.

*Fairness* (`FairSpec`): weak fairness of `TurnStep(w)` for each worker. A thread
serving a request is scheduled until it returns, no step blocks on another thread
(there is no lock or wait in the code), and every loop in a turn is finite. Nothing
is assumed of callers, approvers, operators, the clock or crashes.
`Deployment!FairSpec`: weak fairness of `Start`. Within a start the thread is
scheduled; and a new one begins because requests keep arriving, which the container
platform's `/health` probes guarantee (`deploy/kubernetes/deployment.yaml:62-73`).
The API run states no fairness of its own: a turn's end is `EveryTurnEnds`, and the
handlers around it neither loop nor wait.

## 4. Proofs

All theorems hold for every value of the constants: any sets of workers, requests,
policy files, messages and texts, any adapter behaviour, any bounds. Every safety
property a passing run checks is stated by a theorem, `OneTimeUse` and `KeepsLedger`
for a single worker, which is when they hold. The assumptions:

- shared: `SentinelsDiffer` and `NoneIsNoString` (None is no other sentinel and no
  string it is compared with);
- pipeline: `PathsAssumption`, `BoundsAssumption`;
- service: `AppsValidated` (`create_app` validates first), `LengthsAssumption` and
  `IdsAssumption` (a Content-Length is missing, garbled or a number; an id has a text
  and two lengths, the stripped one not the longer), `ApiBounds`;
- deployment: `TextsDiffer`, `EnvironmentsAssumption`, `KeysAssumption` (what environment
  variables and key files are), `NoneIsNoValue` and `FieldsAssumption` (what YAML and
  pydantic make of a well-typed field; a digest is neither None nor garbled text),
  `TrustedIsProvenance` (a record is not None), `DeploymentBounds`.

- `AuthorityProofs!BrokerSound`: what an allowed decision guarantees, spelt out in the
  terms of the request, the call, the policy entry and the token: well-typed required
  arguments, role and tenant, source and signature of the provenance, and an unspent,
  unexpired token whose fingerprint can only be that of this very action (`FingerprintBinds`).
  `BrokerMediates` puts the broker's checks together, with one lemma per check
  (`VerifiedToken`, `GateSound`, `PolicySound`, `ProvenanceSound`, `IntegritySound`).
- `PipelineProofs!TypeCorrect`: `Spec => []TypeOK`. `TypeOK` is inductive; one lemma
  per action. Lemmas such as `BrokerStepMoves` say where an action takes its worker
  and are reused by the other pipeline modules.
- `ReplayProofs!ReplayIsBlocked`: `Spec => []ReplayBlocked`. `ReplayBlocked` is not
  inductive, since it is silent about a turn the broker has let through and that has
  not executed yet. `ReplayInv` adds that such a turn's decision names its own token
  (`Granted`) and that nobody who ended before it began has spent that token
  (`NotSpentBefore`). That is preserved because an execution is marked before its
  turn can end (`Marked`), and a marked token does not pass the broker
  (`VerifiedToken`); `TurnsDistinct` and `BegunBefore` keep turns apart.
- `AuthorityProofs`: `OnlyPermittedCallsExecute`, `OnlyApprovedActionsExecute` and
  `PolicyIsCurrent`. The invariant `AuthorityInv` says `Authorised` of everything
  executed and of everything a worker is about to execute. It enters there through
  `BrokerSound`, with `Prepared` (the filter passed the text, the policy was read
  after the turn began) and `Minted` (tokens are bound to what approvers saw);
  `FingerprintBinds` turns equal fingerprints into equal actions, and
  `IsolatedByDefault` shows that a file without `tenant_isolation` isolates: the
  property reads the file's own keys, not what `load_policy` made of them. It survives
  because `policy_log` and `approvals` only grow (`StoresGrow`).
- `LedgerProofs`, under the assumption that there is one worker (`Serial`, an
  assumption of the theorems, not of the model): `SerialOneTimeUse` and
  `SerialKeepsLedger`. `LedgerInv` adds to the two invariants above that a turn past
  the broker needs the approval its decision names (`Needs`), that what was executed
  under an approval is recorded in the registry or about to be (`Recorded`), and that
  a turn about to execute under an approval finds it unspent (`Unspent`). `Unspent` is
  what two workers break: the other one can execute between check and execution.
- `AuditProofs`: `AuditTellsOutcome`, `AuditTellsExecution`, `DenialsAreClassified`,
  `ShownTextStaysClean` and the action property `HistoryIsKept`. The two audit
  properties speak of turns that ended, so neither is inductive: a turn's last step
  makes its outcome final and must find the log and the simulator already in
  agreement with it. `AuditInv` adds what is known of a running turn: no event before
  its audit write and exactly the event its frame describes after (`Reported`), an
  execution exactly when it is past one (`Ran`), a stage its path and decision can
  lead to (`StagesFit`), events only of turns (`EventsKnown`), errors only of turns
  that raised (`ErrorsFit`). `TurnsDistinct`, from `ReplayInv`, keeps one worker's
  step away from another's turn. `DenialsAreClassified` rests on a lemma that the
  gate's reasons and nobody else's are the ones `_blocked_event_type` looks for.
  `ShownTextStaysClean` covers all three detectors that look at a text: patterns,
  classification markers and markers of another tenant than the caller's.
- `ApiProofs`: `ServiceImplementsPipeline`, step by step, which carries every safety
  theorem above over to the service. `TurnsAdmitted` rests on `AdmissionInv`: workers serve different requests
  (`ServersOK`), a request past the middleware fits, and requests that have become
  turns correspond one to one to the turns (`Begun`). On top of it,
  - `Serving` (a request is pending exactly while a worker serves it, and the pipeline
    runs only turns of requests that are served) gives `ServiceTypeCorrect`;
  - `TruthInv` gives `StatusIsTrue`: a worker waiting for a turn that is over finds an
    outcome of its own request, and a request being refused has no turn;
  - `RefusalInv` gives `RefusalsAreAudited`: the event is written one step before the
    refusal is sent, so the invariant follows it through the states in between;
  - `OpaqueInv` gives `ErrorsAreOpaque`: the detail of a 500 depends on the debug
    switch, which validation keeps off in production;
  - `IdInv` gives `EventsAreFindable`: a turn's event comes several steps after its
    request's id was resolved, so the invariant remembers what it was resolved from. The theorem is
    exact: an event has a usable id if and only if the caller's id or the request id
    has text, and the id is the first of body, header and request that counts.

  `ServeShapes` reduces the handlers to five shapes (answer, begin a refusal, pass the
  middleware, begin a turn, take a step of it), so each invariant is proved once per shape.
- `DeploymentProofs`: `ProductionGuarded` and `TyposDoNotRelax`. `StartInv` follows
  the stages of a start: from `LoadConfig` on the configuration is made of the
  environment (`LoadedFrom`), from `ValidateConfig` on it is safe, and once up the key
  is there. The files may change at every step, so it says nothing of them. With
  `StagesKnown` it gives `DeploymentTypeCorrect`. `GreenIsRecorded` and
  `ValidationIsEnforced` rest on `ReleaseInv`: between its reads the script holds the
  digest of what it read last, and a digest in the hash file is one of a recorded
  policy. `DigestDecides` shows that policies with equal digests load to equal
  policies although the canonical form sorts roles, `AcceptedLoads` and
  `AcceptedEnforced` that the validator and the engine read a file the same way.
- `OutputFilterProofs`: the filter's five properties. `Filtered` says that a result is
  `filter_output`'s on the chosen input; the rest is about the operators.
  `BlocksUnlessAudit` puts `_should_block` in closed form, `FindingsGrow` and
  `InsideFindsLess` compare two texts and two destinations, `ReasonOfFinding` shows
  that the preference list misses the classification finding alone.

*Only model-checked*: the two liveness properties, `EveryTurnEnds` and
`RecoversOnceFixed`, since the prover handles neither fairness nor `ENABLED`. The
statements of section 5 that the code does not keep have counterexamples instead.
What the canonical forms, `sorted` and the redaction compute is modelled by closed
definitions, so no theorem needs induction over data; the audit line (`AuditLogger`)
has no theorem.

## 5. Where code and documentation disagree

1. *One-time tokens* (`docs/production-hardening.md:128`, `docs/approval-workflow.md:17`).
   The mark follows the execution and the check does not reserve the id, so two
   concurrent turns with one token both execute. What does hold, and is proved, is
   `ReplayBlocked`. `api.run_turn` forwards no token today, so this concerns callers
   of the library.
2. *"Bound to one lab action fingerprint"* (`approval_tokens.py:37`). Any execution of
   a turn that carries a token marks it, also when the call needed no approval.
3. *"Secrets ... are blocked outside the model"* (`docs/defensive-controls.md:57`). A
   blocked turn empties `filtered_output` but returns the raw text in `model_text`.
4. *Required audit fields* (`docs/audit-event-taxonomy.md:11-22`). Redaction works on
   the serialised line: a private key's BEGIN header in one value and an END marker
   in a later one remove every field between them, and sometimes leave no JSON.
5. *"Tokens are passed in API requests"* (`docs/approval-workflow.md:19`).
   `RunRequestBody` has no field for a token and `run_turn` forwards none (`api.py:210`):
   a client that sends one is answered `approval_token_missing`, so on a service that
   demands tokens nothing that needs approval can be approved over HTTP.

Smaller ones, which the models reproduce and no run is spent on:
- `policy_engine.py:17` promises "deny-all behavior" for an invalid policy file; a
  malformed file or a rejected entry raises out of `load_policy` (lines 21 and 29), and
  the turn ends unaudited (`LoadPolicyFails`). Nothing is executed.
- `observability.py:15` says `normalize_correlation_id` never returns an empty string;
  it returns its fallback as it is, so a blank `request_id` with no other id gives a
  blank one. `EventIdsUsable` states that this is the only such case, and `api` has it.
- `docs/kms-secret-management.md:41` has strict provenance require key bytes; outside
  production a strict service without a key file uses the built-in lab key.

## 6. Not modelled

- Prompt assembly (`prompt.py`): text layout whose result the simulated agent discards.
- The demo (`demo.py`) and `scripts/validate_repo.py`, `check_python_version.py`:
  printing and checks over the repository's own files; no state, nothing concurrent.
- The manifests under `deploy/`: declarative.
- CORS (`CORSMiddleware`): headers added by the framework; only the configured origins
  are modelled, in `AppConfig`.
- What the filter's detectors recognise, and appends torn by the file system (section 2).

## 7. Plan

Done: the pipeline and its controls, the HTTP service around it, configuration and
start, policy release, the audit line, the output filter, the approval ledger and its
refinement, and a theorem for every safety property of a passing run. Left:

1. The audit line: that redaction keeps the required fields of every line that holds no
   BEGIN marker, which is what the finding `audit_fields` leaves to be said.
2. `ConsumedByGrantedAction` and `OneTimeUse` under the weakest condition on callers:
   tokens attached only to the calls they were minted for, and not shared between
   concurrent turns, in place of a single worker.
