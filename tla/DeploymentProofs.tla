-------------------------- MODULE DeploymentProofs --------------------------
(***************************************************************************)
(* The start of the service and the check of a policy release, for any     *)
(* environment, any contents of the files and any edits in between.        *)
(***************************************************************************)
EXTENDS Deployment, TLAPS

-----------------------------------------------------------------------------
(* The start of the service *)

\* c is a configuration load_config_from_env makes of the environment e.
LoadedFrom(c, e) ==
    /\ c.environment_mode = Mode(e) /\ Mode(e) \in EnvironmentMode
    /\ c.require_api_auth =
          EnvBool(e.ACP_REQUIRE_API_AUTH, Mode(e) = "production")
    /\ c.enable_strict_provenance = EnvBool(e.ACP_ENABLE_STRICT_PROVENANCE, FALSE)
    /\ c.require_approval_token = EnvBool(e.ACP_REQUIRE_APPROVAL_TOKEN, FALSE)
    /\ c.enable_debug_errors =
          EnvBool(e.ACP_ENABLE_DEBUG_ERRORS, ~(Mode(e) = "production"))
    /\ c.api_keys \cap {None, Blank} = {}
    /\ "#" \in c.api_keys => e.ACP_API_KEY = "#"

\* Each stage of a start keeps what the stages before it established.
StartInv ==
    /\ env \in Environments
    /\ DOMAIN files = {"policy", "hash", "keys", "hmac", "audit"}
    /\ files.keys \in KeysContents
    /\ DOMAIN svc = {"pc", "config", "key", "error"}
    /\ svc.pc \in {"down", "validate", "mkdir", "build", "up"}
    /\ svc.pc # "down" => LoadedFrom(svc.config, env)
    /\ svc.pc \in {"mkdir", "build", "up"} => SettingsOk(svc.config)
    /\ svc.pc = "up" /\ NeedsKeyFile(svc.config) => svc.key \notin {None, ""}

\* What load_config_from_env returns.
LEMMA LoadConfigLoads ==
    ASSUME NEW e \in Environments, NEW f, f.keys \in KeysContents,
           ~LoadConfigRaises(e, f)
    PROVE  LoadedFrom(LoadConfigFromEnv(e, f), e)
<1> DEFINE c == LoadConfigFromEnv(e, f)
<1>1. /\ c.environment_mode = Mode(e)
      /\ c.require_api_auth =
            EnvBool(e.ACP_REQUIRE_API_AUTH, Mode(e) = "production")
      /\ c.enable_strict_provenance = EnvBool(e.ACP_ENABLE_STRICT_PROVENANCE, FALSE)
      /\ c.require_approval_token = EnvBool(e.ACP_REQUIRE_APPROVAL_TOKEN, FALSE)
      /\ c.enable_debug_errors =
            EnvBool(e.ACP_ENABLE_DEBUG_ERRORS, ~(Mode(e) = "production"))
      /\ c.api_keys = LoadApiKeys(e.ACP_ALLOWED_API_KEYS_FILE, e.ACP_API_KEY, f)
  BY DEF LoadConfigFromEnv
<1>2. e.ACP_ALLOWED_API_KEYS_FILE \in {None, "keys"}
  BY EnvironmentsAssumption
<1>3. e.ACP_ALLOWED_API_KEYS_FILE # None => f.keys # None
  BY <1>2 DEF LoadConfigRaises
<1>4. e.ACP_ALLOWED_API_KEYS_FILE # None => None \notin f.keys
  BY <1>3, KeysAssumption
<1>5. /\ c.api_keys \cap {None, Blank} = {}
      /\ "#" \in c.api_keys => e.ACP_API_KEY = "#"
  BY <1>1, <1>2, <1>4 DEF LoadApiKeys, IgnoredLines
<1> HIDE DEF c
<1>6. LoadedFrom(c, e)
  BY <1>1, <1>5 DEF LoadedFrom, LoadConfigRaises
<1>7. QED
  BY <1>6 DEF c

\* Nothing is started yet.
LEMMA InitStart == Init => StartInv
BY DEF Init, StartInv, Down

\* Every step keeps the invariant of the start.
LEMMA NextStart == StartInv /\ [Next]_vars => StartInv'
<1> SUFFICES ASSUME StartInv, [Next]_vars PROVE StartInv'
  OBVIOUS
<1>1. env' = env
  BY DEF Next, vars, EditFile, Redeploy, RunScript, Check, ValidateFile, WriteHash,
     VerifyFile, CompareHash, Start, LoadConfig, ValidateConfig, MakeAuditDir, BuildApp, Quiet
<1>2. DOMAIN files' = {"policy", "hash", "keys", "hmac", "audit"} /\ files'.keys \in KeysContents
  <2>1. CASE EditFile
    BY <2>1 DEF EditFile, StartInv
  <2>2. CASE WriteHash
    BY <2>2 DEF WriteHash, StartInv
  <2>3. CASE files' = files
    BY <2>3 DEF StartInv
  <2>4. QED
    BY <2>1, <2>2, <2>3 DEF Next, vars, Redeploy, RunScript, Check, ValidateFile,
       VerifyFile, CompareHash, Start, LoadConfig, ValidateConfig, MakeAuditDir, BuildApp, Quiet
<1>3. ASSUME NEW error, svc' = Down(error) PROVE StartInv'
  BY <1>1, <1>2, <1>3 DEF StartInv, Down
<1>4. CASE svc' = svc
  BY <1>1, <1>2, <1>4 DEF StartInv
<1>5. CASE LoadConfig
  <2>1. CASE LoadConfigRaises(env, files)
    BY <1>3, <1>5, <2>1 DEF LoadConfig, StartFails
  <2>2. CASE ~LoadConfigRaises(env, files)
    <3>1. svc' = [svc EXCEPT !.pc = "validate", !.config = LoadConfigFromEnv(env, files)]
      BY <1>5, <2>2 DEF LoadConfig
    <3>2. /\ DOMAIN svc' = {"pc", "config", "key", "error"} /\ svc'.pc = "validate"
          /\ svc'.config = LoadConfigFromEnv(env, files)
      BY <3>1 DEF StartInv
    <3>3. LoadedFrom(svc'.config, env')
      <4>1. env \in Environments /\ files.keys \in KeysContents
        BY DEF StartInv
      <4>2. LoadedFrom(LoadConfigFromEnv(env, files), env)
        BY <2>2, <4>1, LoadConfigLoads, Zenon
      <4>3. QED
        BY <1>1, <3>2, <4>2
    <3>4. QED
      BY <1>1, <1>2, <3>2, <3>3 DEF StartInv
  <2>3. QED
    BY <2>1, <2>2
<1>6. CASE ValidateConfig
  <2>1. CASE Validates(svc.config, files)
    <3>1. /\ DOMAIN svc' = {"pc", "config", "key", "error"} /\ svc'.pc = "mkdir"
          /\ svc'.config = svc.config
      BY <1>6, <2>1 DEF ValidateConfig, StartInv
    <3>2. LoadedFrom(svc.config, env) /\ SettingsOk(svc.config)
      BY <1>6, <2>1 DEF ValidateConfig, StartInv, Validates
    <3>3. LoadedFrom(svc'.config, env') /\ SettingsOk(svc'.config)
      BY <1>1, <3>1, <3>2
    <3>4. QED
      BY <1>1, <1>2, <3>1, <3>3 DEF StartInv
  <2>2. CASE ~Validates(svc.config, files)
    BY <1>3, <1>6, <2>2 DEF ValidateConfig, StartFails
  <2>3. QED
    BY <2>1, <2>2
<1>7. CASE BuildApp
  <2> DEFINE key == LoadProvenanceHmacKey(svc.config, files)
  <2>1. CASE NeedsKeyFile(svc.config) /\ key \in {None, ""}
    BY <1>3, <1>7, <2>1 DEF BuildApp, StartFails
  <2>2. CASE ~(NeedsKeyFile(svc.config) /\ key \in {None, ""})
    <3>1. svc' = [svc EXCEPT !.pc = "up", !.error = None,
                     !.key = IF svc.config.enable_strict_provenance THEN key ELSE None]
      BY <1>7, <2>2 DEF BuildApp
    <3> HIDE DEF key
    <3>2. /\ DOMAIN svc' = {"pc", "config", "key", "error"} /\ svc'.pc = "up"
          /\ svc'.config = svc.config
          /\ svc'.key = IF svc.config.enable_strict_provenance THEN key ELSE None
      BY <3>1 DEF StartInv
    <3>3. NeedsKeyFile(svc.config) => svc'.key \notin {None, ""}
      BY <2>2, <3>2 DEF NeedsKeyFile
    <3>4. LoadedFrom(svc'.config, env') /\ SettingsOk(svc'.config)
      BY <1>1, <1>7, <3>2 DEF BuildApp, StartInv
    <3>5. QED
      BY <1>1, <1>2, <3>2, <3>3, <3>4 DEF StartInv
  <2>3. QED
    BY <2>1, <2>2
<1>8. CASE MakeAuditDir
  <2>1. CASE files.audit
    <3>1. /\ DOMAIN svc' = {"pc", "config", "key", "error"} /\ svc'.pc = "build"
          /\ svc'.config = svc.config
      BY <1>8, <2>1 DEF MakeAuditDir, StartInv
    <3>2. LoadedFrom(svc'.config, env') /\ SettingsOk(svc'.config)
      BY <1>1, <1>8, <3>1 DEF MakeAuditDir, StartInv
    <3>3. QED
      BY <1>1, <1>2, <3>1, <3>2 DEF StartInv
  <2>2. CASE ~files.audit
    BY <1>3, <1>8, <2>2 DEF MakeAuditDir, StartFails
  <2>3. QED
    BY <2>1, <2>2
<1>9. CASE Redeploy
  BY <1>3, <1>9 DEF Redeploy
<1>10. QED
  BY <1>4, <1>5, <1>6, <1>7, <1>8, <1>9 DEF Next, vars, EditFile, RunScript, Check,
     ValidateFile, WriteHash, VerifyFile, CompareHash, Start, Quiet

\* The invariant holds throughout.
LEMMA StartInvariant == Spec => []StartInv
BY InitStart, NextStart, PTL DEF Spec

\* Whatever is edited while it starts, an unsafe production service never
\* comes up (AppConfig.validate and create_app).
THEOREM ProductionGuarded == Spec => []ProductionIsGuarded
<1>1. StartInv => ProductionIsGuarded
  <2> SUFFICES ASSUME StartInv, svc.pc = "up", Mode(env) = "production"
               PROVE  ProductionIsGuarded
    BY DEF ProductionIsGuarded
  <2>1. LoadedFrom(svc.config, env) /\ SettingsOk(svc.config)
    BY DEF StartInv
  <2>2. ProductionSettingsOk(svc.config)
    BY <2>1 DEF LoadedFrom, SettingsOk
  <2>3. svc.config.enable_strict_provenance => svc.key \notin {None, ""}
    BY <2>2 DEF StartInv, ProductionSettingsOk, NeedsKeyFile
  <2>4. /\ svc.config.api_keys \cap {None, Blank} = {}
        /\ "#" \in svc.config.api_keys => env.ACP_API_KEY = "#"
    BY <2>1 DEF LoadedFrom
  <2>5. ProductionErrorDetail(svc.config) = "internal_error"
    BY <2>2 DEF ProductionSettingsOk, ProductionErrorDetail
  <2>6. /\ ~svc.config.allow_live_external_tools /\ ~svc.config.allow_shell_tools
        /\ ~svc.config.allow_live_llm_calls
    BY <2>1 DEF SettingsOk
  <2>7. QED
    BY <2>2, <2>3, <2>4, <2>5, <2>6, Zenon DEF ProductionIsGuarded, ProductionSettingsOk
<1>2. QED
  BY <1>1, StartInvariant, PTL

\* A misspelt switch leaves no service laxer than its default would
\* (_env_bool reads it as False, and validate refuses what that would relax).
THEOREM TyposDoNotRelax == Spec => []TyposNeverRelax
<1>1. StartInv => TyposNeverRelax
  <2> SUFFICES ASSUME StartInv, svc.pc = "up" PROVE TyposNeverRelax
    BY DEF TyposNeverRelax
  <2> DEFINE fixed == WithoutTypos
             unset == LoadConfigFromEnv(fixed, [files EXCEPT !.keys = {}])
             production == Mode(env) = "production"
  <2>1. /\ LoadedFrom(svc.config, env) /\ SettingsOk(svc.config)
        /\ EnvironmentVariables \subseteq DOMAIN env
    BY EnvironmentsAssumption DEF StartInv
  <2>2. /\ fixed.ACP_ENVIRONMENT = env.ACP_ENVIRONMENT
        /\ \A name \in Switches :
              fixed[name] = IF env[name] = Garbled THEN None ELSE env[name]
    BY <2>1 DEF WithoutTypos, EnvironmentVariables, Switches
  <2>3. Mode(fixed) = Mode(env)
    BY <2>2 DEF Mode
  <2> HIDE DEF fixed
  <2>4. /\ unset.require_api_auth = EnvBool(fixed.ACP_REQUIRE_API_AUTH, production)
        /\ unset.enable_strict_provenance =
              EnvBool(fixed.ACP_ENABLE_STRICT_PROVENANCE, FALSE)
        /\ unset.require_approval_token =
              EnvBool(fixed.ACP_REQUIRE_APPROVAL_TOKEN, FALSE)
        /\ unset.enable_debug_errors =
              EnvBool(fixed.ACP_ENABLE_DEBUG_ERRORS, ~production)
    BY <2>3 DEF LoadConfigFromEnv
  <2> HIDE DEF unset
  <2>5. Garbled # None /\ Garbled \notin TrueWords
    BY TextsDiffer
  <2>6. unset.require_api_auth => svc.config.require_api_auth
    <3>1. CASE env.ACP_REQUIRE_API_AUTH = Garbled
      <4>1. fixed.ACP_REQUIRE_API_AUTH = None
        BY <2>2, <3>1 DEF Switches
      <4>2. unset.require_api_auth => production
        BY <2>4, <4>1 DEF EnvBool
      <4>3. production => svc.config.require_api_auth
        BY <2>1 DEF LoadedFrom, SettingsOk, ProductionSettingsOk
      <4>4. QED
        BY <4>2, <4>3
    <3>2. CASE env.ACP_REQUIRE_API_AUTH # Garbled
      BY <2>1, <2>2, <2>4, <3>2 DEF Switches, LoadedFrom
    <3>3. QED
      BY <3>1, <3>2
  <2>7. unset.enable_strict_provenance => svc.config.enable_strict_provenance
    BY <2>1, <2>2, <2>4 DEF Switches, LoadedFrom, EnvBool
  <2>8. unset.require_approval_token => svc.config.require_approval_token
    BY <2>1, <2>2, <2>4 DEF Switches, LoadedFrom, EnvBool
  <2>9. svc.config.enable_debug_errors => unset.enable_debug_errors
    BY <2>1, <2>2, <2>4, <2>5 DEF Switches, LoadedFrom, EnvBool
  <2>10. QED
    BY <2>6, <2>7, <2>8, <2>9 DEF TyposNeverRelax, unset, fixed
<1>2. QED
  BY <1>1, StartInvariant, PTL

-----------------------------------------------------------------------------
(* Accepted policies *)

\* An accepted file sets the two keys as required, and every entry is a dict
\* with exactly the fields of a tool.
LEMMA AcceptedFile ==
    ASSUME NEW file, PolicyAccepted(file)
    PROVE  /\ file.kind = "mapping"
           /\ LoadPolicy(file).default_decision = "deny"
           /\ LoadPolicy(file).tenant_isolation = "strict"
           /\ LoadPolicy(file).tools =
                 [name \in DOMAIN file.tools |-> ToolPolicy(file.tools[name].fields)]
           /\ REQUIRED_DEMO_TOOLS \subseteq DOMAIN file.tools
           /\ \A name \in DOMAIN file.tools : ToolEntryOk(name, file.tools[name])
<1>1. /\ file.kind = "mapping"
      /\ Get(file.keys, "default_decision", None) = "deny"
      /\ Get(file.keys, "tenant_isolation", None) = "strict"
      /\ REQUIRED_DEMO_TOOLS \subseteq DOMAIN file.tools
      /\ \A name \in DOMAIN file.tools : ToolEntryOk(name, file.tools[name])
  BY DEF PolicyAccepted, ValidatePolicyInvariants
<1>2. /\ Get(file.keys, "default_decision", "deny") = "deny"
      /\ Get(file.keys, "tenant_isolation", "strict") = "strict"
  BY <1>1 DEF Get
<1>3. {n \in DOMAIN file.tools : file.tools[n].kind = "dict"} = DOMAIN file.tools
  BY <1>1 DEF ToolEntryOk
<1>4. QED
  BY <1>1, <1>2, <1>3 DEF LoadPolicy, PolicyDocument

\* What the engine makes of an entry that has every field.
LEMMA CompleteEntry ==
    ASSUME NEW cfg, DOMAIN cfg = ToolFields
    PROVE  ToolPolicy(cfg) =
              [enabled                 |-> cfg.enabled.value,
               risk_level              |-> cfg.risk_level.value,
               external_effect         |-> cfg.external_effect.value,
               destructive             |-> cfg.destructive.value,
               requires_human_approval |-> cfg.requires_human_approval.value,
               allowed_roles           |-> DOMAIN Sorted(cfg.allowed_roles.value)]
BY DEF ToolPolicy, Coerced, ToolFields, Sorted

\* Files with equal digests decide alike: the canonical form leaves out only
\* what the engine does not read.
LEMMA DigestDecides ==
    ASSUME NEW f, NEW g, PolicyAccepted(f), PolicyAccepted(g),
           ComputePolicySha256(f) = ComputePolicySha256(g)
    PROVE  LoadPolicy(f) = LoadPolicy(g)
<1> DEFINE canonical(h) == [name \in DOMAIN h.tools |->
                              [key \in DOMAIN h.tools[name].fields |->
                                 CanonicalToolValue(key, h.tools[name].fields[key].value)]]
<1>1. CanonicalPolicyPayload(f) = CanonicalPolicyPayload(g)
  BY DEF ComputePolicySha256, Sha256
<1>2. canonical(f) = canonical(g)
  BY <1>1 DEF CanonicalPolicyPayload
<1>3. DOMAIN f.tools = DOMAIN g.tools
  BY <1>2
<1>4. ASSUME NEW name \in DOMAIN f.tools
      PROVE  ToolPolicy(f.tools[name].fields) = ToolPolicy(g.tools[name].fields)
  <2> DEFINE c == f.tools[name].fields
             d == g.tools[name].fields
  <2>1. DOMAIN c = ToolFields /\ DOMAIN d = ToolFields
    <3>1. ToolEntryOk(name, f.tools[name])
      BY AcceptedFile, Zenon
    <3>2. ToolEntryOk(name, g.tools[name])
      BY <1>3, AcceptedFile, Zenon
    <3>3. QED
      BY <3>1, <3>2 DEF ToolEntryOk
  <2>2. [key \in DOMAIN c |-> CanonicalToolValue(key, c[key].value)]
           = [key \in DOMAIN d |-> CanonicalToolValue(key, d[key].value)]
    <3>1. canonical(f)[name] = canonical(g)[name]
      BY <1>2
    <3>2. QED
      BY <1>3, <3>1
  <2> HIDE DEF c, d
  <2>3. \A key \in ToolFields :
           CanonicalToolValue(key, c[key].value) = CanonicalToolValue(key, d[key].value)
    BY <2>1, <2>2
  <2>4. /\ c.enabled.value = d.enabled.value
        /\ c.risk_level.value = d.risk_level.value
        /\ c.external_effect.value = d.external_effect.value
        /\ c.destructive.value = d.destructive.value
        /\ c.requires_human_approval.value = d.requires_human_approval.value
        /\ Sorted(c.allowed_roles.value) = Sorted(d.allowed_roles.value)
    BY <2>3 DEF CanonicalToolValue, ToolFields
  <2>5. ToolPolicy(c) = ToolPolicy(d)
    BY <2>1, <2>4, CompleteEntry
  <2>6. QED
    BY <2>5 DEF c, d
<1>5. /\ f.kind = "mapping"
      /\ LoadPolicy(f).default_decision = "deny"
      /\ LoadPolicy(f).tenant_isolation = "strict"
      /\ LoadPolicy(f).tools =
            [name \in DOMAIN f.tools |-> ToolPolicy(f.tools[name].fields)]
  BY AcceptedFile, Zenon
<1>6. /\ g.kind = "mapping"
      /\ LoadPolicy(g).default_decision = "deny"
      /\ LoadPolicy(g).tenant_isolation = "strict"
      /\ LoadPolicy(g).tools =
            [name \in DOMAIN g.tools |-> ToolPolicy(g.tools[name].fields)]
  BY AcceptedFile, Zenon
<1>7. LoadPolicy(f).tools = LoadPolicy(g).tools
  BY <1>3, <1>4, <1>5, <1>6
<1>8. QED
  <2>1. \A h : h.kind = "mapping" =>
           LoadPolicy(h) = [default_decision |-> LoadPolicy(h).default_decision,
                            tools            |-> LoadPolicy(h).tools,
                            tenant_isolation |-> LoadPolicy(h).tenant_isolation]
    BY DEF LoadPolicy, PolicyDocument
  <2>2. QED
    BY <1>5, <1>6, <1>7, <2>1

\* An accepted policy loads without an exception.
LEMMA AcceptedLoads ==
    ASSUME NEW file \in PolicyContents, PolicyAccepted(file)
    PROVE  ~LoadPolicyRaises(file)
<1> SUFFICES ASSUME NEW name \in DOMAIN file.tools,
                    EntryRejected(file.tools[name])
             PROVE  FALSE
  BY AcceptedFile DEF LoadPolicyRaises
<1> DEFINE cfg == file.tools[name].fields
<1>1. ToolEntryOk(name, file.tools[name])
  BY AcceptedFile, Zenon
<1>2. file.tools[name].kind = "dict" /\ DOMAIN cfg = ToolFields /\ ToolFieldTypesOk(cfg)
  BY <1>1 DEF ToolEntryOk
<1>3. PICK key \in ToolFields : cfg[key].value = None
  BY <1>2 DEF EntryRejected
<1>4. key \in BOOL_KEYS => cfg[key].type = "bool" /\ key \in DOMAIN cfg
  BY <1>2 DEF ToolFieldTypesOk
<1>5. key \in BOOL_KEYS => cfg[key].value \in BOOLEAN
  BY <1>2, <1>4, FieldsAssumption
<1>6. key \notin BOOL_KEYS => cfg[key].value # None
  BY <1>2 DEF ToolFieldTypesOk, ToolFields, BOOL_KEYS
<1>7. QED
  BY <1>3, <1>5, <1>6, NoneIsNoValue

\* What the engine enforces of an accepted policy.
LEMMA AcceptedEnforced ==
    ASSUME NEW file \in PolicyContents, PolicyAccepted(file)
    PROVE  LET tools == LoadPolicy(file).tools IN
           /\ \A role : ~Verdict(file, "run_shell", role, "tenant-a").allowed
           /\ \A role, name : name \in DOMAIN tools =>
                 ~Verdict(file, name, role, "tenant-b").allowed
           /\ ~Verdict(file, "export_records", "user", "tenant-a").allowed
           /\ \A name \in {"send_email", "export_records"} :
                 tools[name].requires_human_approval
           /\ \A name \in DOMAIN tools : tools[name].enabled =>
                 \E role \in tools[name].allowed_roles :
                     Verdict(file, name, role, "tenant-a").allowed
<1> DEFINE policy == LoadPolicy(file)
           tools == policy.tools
           fields(name) == file.tools[name].fields
<1>1. /\ policy.default_decision = "deny" /\ policy.tenant_isolation = "strict"
      /\ tools = [name \in DOMAIN file.tools |-> ToolPolicy(fields(name))]
      /\ REQUIRED_DEMO_TOOLS \subseteq DOMAIN file.tools
      /\ \A name \in DOMAIN file.tools : ToolEntryOk(name, file.tools[name])
  BY AcceptedFile, Zenon
<1>2. DOMAIN tools = DOMAIN file.tools
  BY <1>1
<1>3. ASSUME NEW name \in DOMAIN tools
      PROVE  /\ tools[name].enabled = fields(name).enabled.value
             /\ tools[name].requires_human_approval =
                   fields(name).requires_human_approval.value
             /\ tools[name].allowed_roles = {fields(name).allowed_roles.value[i] :
                   i \in DOMAIN fields(name).allowed_roles.value}
             /\ file.tools[name].kind = "dict" /\ DOMAIN fields(name) = ToolFields
             /\ ToolFieldTypesOk(fields(name))
             /\ ToolSecurityInvariantsOk(name, fields(name))
  <2>1. /\ file.tools[name].kind = "dict" /\ DOMAIN fields(name) = ToolFields
        /\ ToolFieldTypesOk(fields(name))
        /\ ToolSecurityInvariantsOk(name, fields(name))
    BY <1>1, <1>2 DEF ToolEntryOk
  <2>2. tools[name] = ToolPolicy(fields(name))
    BY <1>1, <1>2
  <2> HIDE DEF tools, fields
  <2>3. QED
    BY <2>1, <2>2 DEF ToolPolicy, Coerced, ToolFields
<1> DEFINE verdict(name, role, target) ==
              EvaluateToolPolicy(policy, tools[name], [role |-> role, tenant_id |-> "tenant-a"],
                 [tool_name |-> name, target |-> target, provenance |-> TrustedProvenance])
<1>4. \A name, role, target : name \in DOMAIN tools =>
         Verdict(file, name, role, target) = verdict(name, role, target)
  <2> TAKE name, role, target
  <2> HAVE name \in DOMAIN tools
  <2>1. /\ Probe(name, role).request = [role |-> role, tenant_id |-> "tenant-a"]
        /\ [Probe(name, role).call EXCEPT !.target = target] =
              [tool_name |-> name, target |-> target, provenance |-> TrustedProvenance]
    BY DEF Probe
  <2>2. QED
    BY <2>1 DEF Verdict, EvaluatePolicy
<1> HIDE DEF policy, tools, fields
<1>5. \A name, role, target : ~tools[name].enabled => ~verdict(name, role, target).allowed
  BY DEF EvaluateToolPolicy, PolicyDecision
<1>6. \A name, role : ~verdict(name, role, "tenant-b").allowed
  BY <1>1 DEF EvaluateToolPolicy, PolicyDecision, CrossTenant
<1>7. \A name, role, target : role \notin tools[name].allowed_roles =>
         ~verdict(name, role, target).allowed
  BY DEF EvaluateToolPolicy, PolicyDecision
<1>8. \A name, role : tools[name].enabled /\ role \in tools[name].allowed_roles =>
         verdict(name, role, "tenant-a").allowed
  <2> SUFFICES ASSUME NEW name, NEW role, tools[name].enabled,
                      role \in tools[name].allowed_roles
               PROVE  verdict(name, role, "tenant-a").allowed
    OBVIOUS
  <2>1. ValidateProvenanceForTool(tools[name], TrustedProvenance) = "provenance_allowed"
    BY TrustedIsProvenance
       DEF ValidateProvenanceForTool, TrustedProvenance, SourcesCannotAuthorize
  <2>2. QED
    BY <1>1, <2>1 DEF EvaluateToolPolicy, PolicyDecision, CrossTenant,
       ProvenanceOkReasons
<1> HIDE DEF verdict
<1>9. {"run_shell", "send_email", "export_records"} \subseteq DOMAIN tools
  BY <1>1, <1>2 DEF REQUIRED_DEMO_TOOLS
<1>10. ~tools["run_shell"].enabled
  BY <1>3, <1>9 DEF ToolSecurityInvariantsOk
<1>11. "user" \notin tools["export_records"].allowed_roles
  <2>1. fields("export_records").allowed_roles.value = <<"admin">>
    BY <1>3, <1>9 DEF ToolSecurityInvariantsOk
  <2>2. QED
    BY <1>3, <1>9, <2>1
<1>12. \A name \in {"send_email", "export_records"} : tools[name].requires_human_approval
  BY <1>3, <1>9 DEF ToolSecurityInvariantsOk
<1>13. ASSUME NEW name \in DOMAIN tools, tools[name].enabled
       PROVE  \E role : role \in tools[name].allowed_roles
  <2> DEFINE roles == fields(name).allowed_roles.value
  <2>1. roles # << >>
    BY <1>3, <1>13 DEF ToolSecurityInvariantsOk
  <2>2. roles \in Seq({roles[i] : i \in DOMAIN roles})
    <3>1. /\ name \in DOMAIN file.tools /\ file.tools[name].kind = "dict"
          /\ "allowed_roles" \in DOMAIN file.tools[name].fields
          /\ file.tools[name].fields.allowed_roles.type = "list"
          /\ file.tools[name].fields.allowed_roles.value # None
      BY <1>2, <1>3 DEF ToolFieldTypesOk, ToolFields, fields
    <3>2. QED
      BY <3>1, FieldsAssumption DEF fields
  <2> HIDE DEF roles
  <2>3. 1 \in DOMAIN roles
    BY <2>1, <2>2
  <2>4. QED
    BY <1>3, <2>3 DEF roles
<1>14. QED
  BY <1>4, <1>5, <1>6, <1>7, <1>8, <1>9, <1>10, <1>11, <1>12, <1>13 DEF tools, policy

-----------------------------------------------------------------------------
(* The check of a policy release *)

ScriptFields == {"pc", "write", "digest", "policy", "exit"}

\* What the script last read passed the validation.
Certified == ci.policy \in PolicyContents /\ PolicyAccepted(ci.policy)

\* Between its reads the script holds the digest of what it read; a digest in
\* the hash file is that of a policy recorded on purpose.
ReleaseInv ==
    /\ DOMAIN files = {"policy", "hash", "keys", "hmac", "audit"}
    /\ files.policy \in PolicyContents
    /\ DOMAIN ci = ScriptFields
    /\ ci.pc \in {"write", "compare"} =>
          Certified /\ ci.digest = ComputePolicySha256(ci.policy)
    /\ \A file \in recorded : PolicyAccepted(file)
    /\ files.hash \notin {None, Garbled} =>
          \E file \in recorded : files.hash = ComputePolicySha256(file)
    /\ Green => /\ Certified
                /\ \E file \in recorded :
                      ComputePolicySha256(file) = ComputePolicySha256(ci.policy)

\* Initially no script has run and the hash file holds no digest.
LEMMA InitRelease == Init => ReleaseInv
<1> SUFFICES ASSUME Init PROVE ReleaseInv
  OBVIOUS
<1>1. /\ DOMAIN files = {"policy", "hash", "keys", "hmac", "audit"}
      /\ files.policy \in PolicyContents /\ files.hash \in {None, Garbled}
  BY DEF Init
<1>2. /\ DOMAIN ci = ScriptFields /\ ci.pc = "idle" /\ ci.exit = None /\ recorded = {}
  BY DEF Init, Script, ScriptFields
<1>3. QED
  BY <1>1, <1>2, NoneIsNoValue DEF ReleaseInv, Green

\* A step that ends the script in failure, or leaves it alone.
LEMMA ReleaseKept ==
    ASSUME ReleaseInv, files' = files, recorded' = recorded,
           ci' = ci \/ Exit(1)
    PROVE  ReleaseInv'
<1>1. CASE ci' = ci
  BY <1>1 DEF ReleaseInv, Green, Certified
<1>2. CASE Exit(1)
  <2>1. DOMAIN ci' = ScriptFields /\ ci'.pc = "idle" /\ ci'.exit = 1
    BY <1>2 DEF Exit, ReleaseInv, ScriptFields
  <2>2. QED
    BY <2>1 DEF ReleaseInv, Green
<1>3. QED
  BY <1>1, <1>2

\* Every step, of the script, the operator and the service, keeps it.
LEMMA NextRelease == ReleaseInv /\ [Next]_vars => ReleaseInv'
<1> SUFFICES ASSUME ReleaseInv, [Next]_vars PROVE ReleaseInv'
  OBVIOUS
<1>1. CASE UNCHANGED <<files, ci, recorded>>
  BY <1>1, ReleaseKept
<1>2. CASE EditFile
  <2>1. /\ DOMAIN files' = {"policy", "hash", "keys", "hmac", "audit"}
        /\ files'.policy \in PolicyContents /\ files'.hash = files.hash
    BY <1>2 DEF EditFile, ReleaseInv
  <2>2. QED
    BY <1>2, <2>1 DEF EditFile, ReleaseInv, Green, Certified
<1>3. CASE RunScript
  <2>1. DOMAIN ci' = ScriptFields /\ ci'.pc = "validate"
    BY <1>3 DEF RunScript, Script, ScriptFields
  <2>2. QED
    BY <1>3, <2>1 DEF RunScript, ReleaseInv, Green
<1>4. ASSUME NEW pc \in {"write", "verify", "compare"}, PolicyAccepted(files.policy),
             ci' = [ci EXCEPT !.pc = pc, !.digest = ComputePolicySha256(files.policy),
                              !.policy = files.policy],
             UNCHANGED <<files, recorded>>
      PROVE  ReleaseInv'
  <2>1. /\ DOMAIN ci' = ScriptFields /\ ci'.pc = pc /\ ci'.policy = files.policy
        /\ ci'.digest = ComputePolicySha256(files.policy)
    BY <1>4 DEF ReleaseInv, ScriptFields
  <2>2. QED
    BY <1>4, <2>1 DEF ReleaseInv, Green, Certified
<1>5. CASE ValidateFile
  <2>1. CASE PolicyAccepted(files.policy)
    BY <1>4, <1>5, <2>1 DEF ValidateFile
  <2>2. CASE ~PolicyAccepted(files.policy)
    BY <1>5, <2>2, ReleaseKept DEF ValidateFile
  <2>3. QED
    BY <2>1, <2>2
<1>6. CASE VerifyFile
  <2>1. CASE PolicyAccepted(files.policy)
    BY <1>4, <1>6, <2>1 DEF VerifyFile
  <2>2. CASE ~PolicyAccepted(files.policy)
    BY <1>6, <2>2, ReleaseKept DEF VerifyFile
  <2>3. QED
    BY <2>1, <2>2
<1>7. CASE WriteHash
  <2>1. Certified /\ ci.digest = ComputePolicySha256(ci.policy)
    BY <1>7 DEF WriteHash, ReleaseInv
  <2>2. /\ DOMAIN files' = {"policy", "hash", "keys", "hmac", "audit"}
        /\ files'.policy = files.policy /\ files'.hash = ci.digest
        /\ recorded' = recorded \cup {ci.policy}
    BY <1>7 DEF WriteHash, ReleaseInv
  <2>3. /\ DOMAIN ci' = ScriptFields /\ ci'.pc = "idle" /\ ci'.policy = ci.policy
    BY <1>7 DEF WriteHash, Exit, ReleaseInv, ScriptFields
  <2>4. QED
    BY <2>1, <2>2, <2>3 DEF ReleaseInv, Green, Certified
<1>8. CASE CompareHash
  <2>1. Certified /\ ci.digest = ComputePolicySha256(ci.policy)
    BY <1>8 DEF CompareHash, ReleaseInv
  <2>2. CASE files.hash = ci.digest
    <3>1. PICK file \in recorded : files.hash = ComputePolicySha256(file)
      BY <2>1, <2>2, NoneIsNoValue DEF ReleaseInv, Certified
    <3>2. /\ DOMAIN ci' = ScriptFields /\ ci'.pc = "idle" /\ ci'.policy = ci.policy
          /\ UNCHANGED <<files, recorded>>
      BY <1>8 DEF CompareHash, Exit, ReleaseInv, ScriptFields
    <3>3. QED
      BY <2>1, <2>2, <3>1, <3>2 DEF ReleaseInv, Green, Certified
  <2>3. CASE files.hash # ci.digest
    BY <1>8, <2>3, ReleaseKept DEF CompareHash
  <2>4. QED
    BY <2>2, <2>3
<1>9. QED
  BY <1>1, <1>2, <1>3, <1>5, <1>6, <1>7, <1>8 DEF Next, vars, Check, Redeploy,
     Start, LoadConfig, ValidateConfig, MakeAuditDir, BuildApp, Quiet

\* The invariant holds throughout.
LEMMA ReleaseInvariant == Spec => []ReleaseInv
BY InitRelease, NextRelease, PTL DEF Spec

\* A green run certifies a policy that decides exactly as one recorded on
\* purpose, whatever is edited between the script's two reads of the file.
THEOREM GreenIsRecorded == Spec => []GreenMeansRecorded
<1>1. ReleaseInv => GreenMeansRecorded
  BY DigestDecides DEF ReleaseInv, Certified, GreenMeansRecorded
<1>2. QED
  BY <1>1, ReleaseInvariant, PTL

\* Whatever policy passes the validation, the engine loads and enforces: no
\* shell, no other tenant's data, exports for admins only, approval for mail
\* and exports, and every enabled tool usable.
THEOREM ValidationIsEnforced == Spec => []ValidatedPolicyIsEnforced
<1>1. ReleaseInv => ValidatedPolicyIsEnforced
  <2> SUFFICES ASSUME ReleaseInv, Green PROVE ValidatedPolicyIsEnforced
    BY DEF ValidatedPolicyIsEnforced
  <2>1. ci.policy \in PolicyContents /\ PolicyAccepted(ci.policy)
    BY DEF ReleaseInv, Certified
  <2>2. QED
    BY <2>1, AcceptedLoads, AcceptedEnforced DEF ValidatedPolicyIsEnforced
<1>2. QED
  BY <1>1, ReleaseInvariant, PTL

\* Service and script stay at known stages with known results.
LEMMA StagesKnown ==
    ASSUME StartInv, ReleaseInv, [Next]_vars,
           ci.pc \in {"idle", "validate", "write", "verify", "compare"},
           ci.exit \in {None, 0, 1},
           svc.error \in {None, "RuntimeError", "OSError"},
           {edits, checks, deployments} \subseteq Nat
    PROVE  /\ ci'.pc \in {"idle", "validate", "write", "verify", "compare"}
           /\ ci'.exit \in {None, 0, 1}
           /\ svc'.error \in {None, "RuntimeError", "OSError"}
           /\ {edits', checks', deployments'} \subseteq Nat
<1>1. DOMAIN svc = {"pc", "config", "key", "error"} /\ DOMAIN ci = ScriptFields
  BY DEF StartInv, ReleaseInv
<1>2. edits \in Nat /\ checks \in Nat /\ deployments \in Nat
  OBVIOUS
<1>3. CASE EditFile \/ UNCHANGED vars \/ Quiet
  BY <1>2, <1>3 DEF EditFile, Quiet, vars
<1>4. CASE Redeploy
  BY <1>2, <1>4 DEF Redeploy, Down
<1>5. CASE RunScript
  BY <1>2, <1>5 DEF RunScript, Script
<1>6. CASE Check
  <2>1. UNCHANGED <<svc, edits, checks, deployments>>
    BY <1>6 DEF Check, ValidateFile, WriteHash, VerifyFile, CompareHash
  <2>2. {"pc", "exit", "digest", "policy"} \subseteq DOMAIN ci
    BY <1>1 DEF ScriptFields
  <2>3. /\ ci'.pc \in {"idle", "validate", "write", "verify", "compare"}
        /\ ci'.exit \in {None, 0, 1}
    <3>1. CASE ValidateFile
      <4>1. CASE PolicyAccepted(files.policy)
        <5>1. /\ ci'.pc = IF ci.write THEN "write" ELSE "verify"
              /\ ci'.exit = ci.exit
          BY <2>2, <3>1, <4>1 DEF ValidateFile
        <5>2. QED
          BY <5>1
      <4>2. CASE ~PolicyAccepted(files.policy)
        BY <2>2, <3>1, <4>2 DEF ValidateFile, Exit
      <4>3. QED
        BY <4>1, <4>2
    <3>2. CASE WriteHash
      BY <2>2, <3>2 DEF WriteHash, Exit
    <3>3. CASE VerifyFile
      <4>1. CASE PolicyAccepted(files.policy)
        BY <2>2, <3>3, <4>1 DEF VerifyFile
      <4>2. CASE ~PolicyAccepted(files.policy)
        BY <2>2, <3>3, <4>2 DEF VerifyFile, Exit
      <4>3. QED
        BY <4>1, <4>2
    <3>4. CASE CompareHash
      BY <2>2, <3>4 DEF CompareHash, Exit
    <3>5. QED
      BY <1>6, <3>1, <3>2, <3>3, <3>4 DEF Check
  <2>4. QED
    BY <1>2, <2>1, <2>3
<1>7. CASE Start
  <2>1. UNCHANGED <<ci, edits, checks, deployments>>
    BY <1>7 DEF Start, LoadConfig, ValidateConfig, MakeAuditDir, BuildApp
  <2>2. svc'.error \in {None, "RuntimeError", "OSError"}
    <3>1. CASE LoadConfig
      <4>1. \/ svc' = Down("RuntimeError")
            \/ \E config : svc' = [svc EXCEPT !.pc = "validate", !.config = config]
        BY <3>1 DEF LoadConfig, StartFails
      <4>2. CASE svc' = Down("RuntimeError")
        BY <4>2 DEF Down
      <4>3. CASE \E config : svc' = [svc EXCEPT !.pc = "validate", !.config = config]
        <5>1. PICK config : svc' = [svc EXCEPT !.pc = "validate", !.config = config]
          BY <4>3
        <5>2. svc'.error = svc.error
          BY <1>1, <5>1
        <5>3. QED
          BY <5>2
      <4>4. QED
        BY <4>1, <4>2, <4>3
    <3>2. CASE ValidateConfig
      BY <1>1, <3>2 DEF ValidateConfig, StartFails, Down
    <3>3. CASE BuildApp
      <4>1. \/ svc' = Down("RuntimeError") \/ svc' = Down("OSError")
            \/ \E key : svc' = [svc EXCEPT !.pc = "up", !.error = None, !.key = key]
        BY <3>3 DEF BuildApp, StartFails
      <4>2. CASE svc' = Down("RuntimeError") \/ svc' = Down("OSError")
        BY <4>2 DEF Down
      <4>3. CASE \E key : svc' = [svc EXCEPT !.pc = "up", !.error = None, !.key = key]
        <5>1. PICK key : svc' = [svc EXCEPT !.pc = "up", !.error = None, !.key = key]
          BY <4>3
        <5>2. svc'.error = None
          BY <1>1, <5>1
        <5>3. QED
          BY <5>2
      <4>4. QED
        BY <4>1, <4>2, <4>3
    <3>4. CASE MakeAuditDir
      BY <1>1, <3>4 DEF MakeAuditDir, StartFails, Down
    <3>5. QED
      BY <1>7, <3>1, <3>2, <3>3, <3>4 DEF Start
  <2>3. QED
    BY <1>2, <2>1, <2>2
<1>8. QED
  BY <1>3, <1>4, <1>5, <1>6, <1>7 DEF Next

\* The deployment is type-correct, and a service that is up has one of the
\* three modes.
THEOREM DeploymentTypeCorrect == Spec => []DeploymentTypeOK
<1>1. Init => DeploymentTypeOK
  BY DEF Init, DeploymentTypeOK, Script, Down
<1>2. StartInv /\ StartInv' /\ ReleaseInv /\ DeploymentTypeOK /\ [Next]_vars
         => DeploymentTypeOK'
  <2> SUFFICES ASSUME StartInv, StartInv', ReleaseInv, DeploymentTypeOK, [Next]_vars
               PROVE  DeploymentTypeOK'
    OBVIOUS
  <2>1. /\ svc'.pc \in {"down", "validate", "mkdir", "build", "up"}
        /\ svc'.pc # "down" => svc'.config.environment_mode \in EnvironmentMode
    BY DEF StartInv, LoadedFrom
  <2>2. QED
    BY <2>1, StagesKnown DEF DeploymentTypeOK
<1>3. QED
  BY <1>1, <1>2, StartInvariant, ReleaseInvariant, PTL DEF Spec
=============================================================================
