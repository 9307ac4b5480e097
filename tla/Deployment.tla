----------------------------- MODULE Deployment -----------------------------
(***************************************************************************)
(* Two processes over the deployed files.                                  *)
(*                                                                         *)
(* ci runs scripts/validate_policy.py: it validates the policy file and    *)
(* either writes its digest to the hash file or reads the policy file a    *)
(* second time and compares.  svc is the service: get_app builds the       *)
(* application on the first request (api.py), reading the environment, the *)
(* files' presence and the HMAC key one after the other; a failed start    *)
(* leaves no instance, so the next request tries again.  In between, an    *)
(* operator edits the files.                                               *)
(*                                                                         *)
(* recorded and the fields of ci and svc that no step reads are history.   *)
(***************************************************************************)
EXTENDS AppConfig, PolicyIntegrity

CONSTANTS
    Environments,      \* environments the service may be deployed with
    PolicyContents,    \* contents of the policy file
    KeysContents,      \* contents of the API keys file, None when missing
    HmacContents,      \* contents of the HMAC key file, None when missing
    AuditDirs,         \* whether the audit directory exists or can be made
    MaxEdits, MaxChecks, MaxDeployments   \* bounds on the environment

ASSUME DeploymentBounds == {MaxEdits, MaxChecks, MaxDeployments} \subseteq Nat

ASSUME AuditDirsAssumption == AuditDirs \subseteq BOOLEAN

\* An environment is a record of variables, and a keys file a set of lines.
ASSUME EnvironmentsAssumption ==
    \A e \in Environments : /\ EnvironmentVariables \subseteq DOMAIN e
                            /\ e.ACP_ALLOWED_API_KEYS_FILE \in {None, "keys"}

ASSUME KeysAssumption == \A lines \in KeysContents \ {None} : None \notin lines

\* None is neither a bool nor an exit code, and neither it nor text that is no
\* digest is one.
ASSUME NoneIsNoValue ==
    /\ None \notin BOOLEAN /\ None # 0
    /\ \A file \in PolicyContents :
          PolicyAccepted(file) => ComputePolicySha256(file) \notin {None, Garbled}

\* What YAML and pydantic make of a well-typed field: a bool is a bool, and a
\* list of strings a sequence.
ASSUME FieldsAssumption ==
    \A file \in PolicyContents :
        \A name \in {n \in DOMAIN file.tools : file.tools[n].kind = "dict"} :
            LET cfg   == file.tools[name].fields
                roles == cfg.allowed_roles.value
            IN  /\ \A key \in BOOL_KEYS \cap DOMAIN cfg :
                      cfg[key].type = "bool" => cfg[key].value \in BOOLEAN
                /\ /\ "allowed_roles" \in DOMAIN cfg
                   /\ cfg.allowed_roles.type = "list" /\ roles # None
                   => roles \in Seq({roles[i] : i \in DOMAIN roles})

VARIABLES
    env,        \* the environment variables of the service
    files,      \* policy, hash, keys, hmac, and the audit directory
    ci,         \* the process running validate_policy.py
    svc,        \* the service process
    recorded,   \* policies whose digest was written to the hash file
    edits, checks, deployments   \* how often each was done

vars == <<env, files, ci, svc, recorded, edits, checks, deployments>>

\* A script that is not running; exit is the code of the last run, and policy
\* what its last read of the policy file returned.
Script(pc, write, digest, policy, exit) ==
    [pc |-> pc, write |-> write, digest |-> digest, policy |-> policy,
     exit |-> exit]

\* A service without an instance: _app_instance is None.
Down(error) == [pc |-> "down", config |-> None, key |-> None, error |-> error]

Init ==
    /\ env \in Environments
    /\ files \in [policy : PolicyContents, hash : {None, Garbled},
                  keys : KeysContents, hmac : HmacContents, audit : AuditDirs]
    /\ ci = Script("idle", FALSE, None, None, None)
    /\ svc = Down(None)
    /\ recorded = {}
    /\ edits = 0 /\ checks = 0 /\ deployments = 0

-----------------------------------------------------------------------------
(* The operator *)

EditFile ==
    /\ edits < MaxEdits
    /\ edits' = edits + 1
    /\ files' \in {[files EXCEPT !.policy = file] : file \in PolicyContents}
           \cup {[files EXCEPT !.keys = lines] : lines \in KeysContents}
           \cup {[files EXCEPT !.hmac = bytes] : bytes \in HmacContents}
           \cup {[files EXCEPT !.audit = dir] : dir \in AuditDirs}
    /\ UNCHANGED <<env, ci, svc, recorded, checks, deployments>>

\* The service is restarted, in whatever state it is.
Redeploy ==
    /\ deployments < MaxDeployments
    /\ deployments' = deployments + 1
    /\ svc' = Down(None)
    /\ UNCHANGED <<env, files, ci, recorded, edits, checks>>

-----------------------------------------------------------------------------
(* scripts/validate_policy.py *)

RunScript ==
    /\ ci.pc = "idle"
    /\ checks < MaxChecks
    /\ checks' = checks + 1
    /\ \E write \in BOOLEAN : ci' = Script("validate", write, None, None, None)
    /\ UNCHANGED <<env, files, svc, recorded, edits, deployments>>

Exit(code) == ci' = [ci EXCEPT !.pc = "idle", !.exit = code]

\* validate_policy_file, the first read.
ValidateFile ==
    /\ ci.pc = "validate"
    /\ IF PolicyAccepted(files.policy)
       THEN ci' = [ci EXCEPT !.pc = IF ci.write THEN "write" ELSE "verify",
                             !.digest = ComputePolicySha256(files.policy),
                             !.policy = files.policy]
       ELSE Exit(1)
    /\ UNCHANGED <<env, files, svc, recorded, edits, checks, deployments>>

WriteHash ==
    /\ ci.pc = "write"
    /\ files' = [files EXCEPT !.hash = ci.digest]
    /\ recorded' = recorded \cup {ci.policy}
    /\ Exit(0)
    /\ UNCHANGED <<env, svc, edits, checks, deployments>>

\* verify_policy_file_hash reads and validates the policy file again ...
VerifyFile ==
    /\ ci.pc = "verify"
    /\ IF PolicyAccepted(files.policy)
       THEN ci' = [ci EXCEPT !.pc = "compare",
                             !.digest = ComputePolicySha256(files.policy),
                             !.policy = files.policy]
       ELSE Exit(1)
    /\ UNCHANGED <<env, files, svc, recorded, edits, checks, deployments>>

\* ... and then the hash file, which may be missing or hold no digest.
CompareHash ==
    /\ ci.pc = "compare"
    /\ Exit(IF files.hash = ci.digest THEN 0 ELSE 1)
    /\ UNCHANGED <<env, files, svc, recorded, edits, checks, deployments>>

-----------------------------------------------------------------------------
(* get_app and create_app, up to the first request served *)

\* MUTANT of StartFails: the process never tries again.
StartFailsForGood(error) == svc' = [svc EXCEPT !.pc = "failed", !.error = error]

\* The exception ends the request; ConfigurationError becomes RuntimeError.
StartFails(error) == svc' = Down(error)

\* A request arrives and there is no instance.
LoadConfig ==
    /\ svc.pc = "down"
    /\ IF LoadConfigRaises(env, files)
       THEN StartFails("RuntimeError")
       ELSE svc' = [svc EXCEPT !.pc = "validate",
                               !.config = LoadConfigFromEnv(env, files)]
    /\ UNCHANGED <<env, files, ci, recorded, edits, checks, deployments>>

ValidateConfig ==
    /\ svc.pc = "validate"
    /\ IF Validates(svc.config, files)
       THEN svc' = [svc EXCEPT !.pc = "mkdir"]
       ELSE StartFails("RuntimeError")
    /\ UNCHANGED <<env, files, ci, recorded, edits, checks, deployments>>

\* audit_log_dir.mkdir, whose OSError get_app does not translate.
MakeAuditDir ==
    /\ svc.pc = "mkdir"
    /\ IF files.audit
       THEN svc' = [svc EXCEPT !.pc = "build"]
       ELSE StartFails("OSError")
    /\ UNCHANGED <<env, files, ci, recorded, edits, checks, deployments>>

NeedsKeyFile(cfg) ==
    cfg.enable_strict_provenance /\ cfg.provenance_hmac_key_file # None

\* MUTANT of BuildApp: an unreadable or empty key file counts as no key.
BuildAppIgnoringKeyErrors ==
    /\ svc.pc = "build"
    /\ LET key == LoadProvenanceHmacKey(svc.config, files)
       IN  svc' = [svc EXCEPT !.pc = "up", !.error = None,
                      !.key = IF svc.config.enable_strict_provenance /\ key # ""
                              THEN key ELSE None]
    /\ UNCHANGED <<env, files, ci, recorded, edits, checks, deployments>>

\* The key is read only in strict mode, once the configuration has validated.
BuildApp ==
    /\ svc.pc = "build"
    /\ LET cfg == svc.config
           key == LoadProvenanceHmacKey(cfg, files)
       IN  IF NeedsKeyFile(cfg) /\ key = None THEN StartFails("OSError")
           ELSE IF NeedsKeyFile(cfg) /\ key = "" THEN StartFails("RuntimeError")
           ELSE svc' = [svc EXCEPT !.pc = "up", !.error = None,
                           !.key = IF cfg.enable_strict_provenance THEN key
                                   ELSE None]
    /\ UNCHANGED <<env, files, ci, recorded, edits, checks, deployments>>

Start == LoadConfig \/ ValidateConfig \/ MakeAuditDir \/ BuildApp

Check == ValidateFile \/ WriteHash \/ VerifyFile \/ CompareHash

\* The service is up and nobody runs the script.
Quiet == svc.pc = "up" /\ ci.pc = "idle" /\ UNCHANGED vars

Next == EditFile \/ Redeploy \/ RunScript \/ Check \/ Start \/ Quiet

Spec == Init /\ [][Next]_vars

\* A start that is under way goes on, and probes of /health keep arriving
\* while there is no instance.
FairSpec == Spec /\ WF_vars(Start)

-----------------------------------------------------------------------------
(* Properties *)

\* The script knows what it is doing, and an application that is up was built
\* from a configuration of its mode.
DeploymentTypeOK ==
    /\ ci.pc \in {"idle", "validate", "write", "verify", "compare"}
    /\ ci.exit \in {None, 0, 1}
    /\ svc.pc \in {"down", "validate", "mkdir", "build", "up"}
    /\ svc.pc # "down" => svc.config.environment_mode \in EnvironmentMode
    /\ svc.error \in {None, "RuntimeError", "OSError"}
    /\ {edits, checks, deployments} \subseteq Nat

\* An unsafe production service never comes up (AppConfig.validate: "Fail
\* closed"), whatever is edited while it starts: callers are authenticated
\* against at least one key, never a commented-out one, origins are explicit,
\* errors are opaque, no live capability is on and strict provenance verifies
\* with a key from the file.
ProductionIsGuarded ==
    svc.pc = "up" /\ Mode(env) = "production" =>
        LET cfg == svc.config IN
        /\ cfg.require_api_auth /\ cfg.api_keys # {}
        /\ cfg.api_keys \cap {None, Blank} = {}
        /\ "#" \in cfg.api_keys => env.ACP_API_KEY = "#"
        /\ cfg.allowed_origins # {} /\ "*" \notin cfg.allowed_origins
        /\ ProductionErrorDetail(cfg) = "internal_error"
        /\ ~cfg.allow_live_external_tools /\ ~cfg.allow_shell_tools
        /\ ~cfg.allow_live_llm_calls
        /\ cfg.enable_strict_provenance => svc.key \notin {None, ""}

\* What a misspelt switch would be if it were not set at all.
WithoutTypos ==
    [name \in DOMAIN env |->
        IF name \in Switches /\ env[name] = Garbled THEN None ELSE env[name]]

\* A misspelt switch never leaves the service laxer than the default does
\* (_env_bool reads unrecognised text as False, so in production a misspelt
\* ACP_REQUIRE_API_AUTH must stop the start, and nothing else may be lost).
TyposNeverRelax ==
    svc.pc = "up" =>
        LET cfg   == svc.config
            unset == LoadConfigFromEnv(WithoutTypos, [files EXCEPT !.keys = {}])
        IN  /\ unset.require_api_auth => cfg.require_api_auth
            /\ unset.enable_strict_provenance => cfg.enable_strict_provenance
            /\ unset.require_approval_token => cfg.require_approval_token
            /\ cfg.enable_debug_errors => unset.enable_debug_errors

\* A failed start is not final: once environment and files admit a start and
\* stay so, the service comes up (_app_instance stays None until one succeeds).
Startable ==
    /\ ~LoadConfigRaises(env, files)
    /\ LET cfg == LoadConfigFromEnv(env, files) IN
       /\ Validates(cfg, files) /\ files.audit
       /\ NeedsKeyFile(cfg) => LoadProvenanceHmacKey(cfg, files) \notin {None, ""}

RecoversOnceFixed == <>[]Startable => <>[](svc.pc = "up")

Green == ci.pc = "idle" /\ ci.exit = 0

\* A green run certifies a policy that decides exactly as one whose digest was
\* recorded on purpose, although the file is read twice and may be edited
\* between the reads, and although the digest ignores the order of roles.
GreenMeansRecorded ==
    Green => \E file \in recorded : LoadPolicy(file) = LoadPolicy(ci.policy)

TrustedProvenance == [source |-> "system", trust |-> "trusted"]

ASSUME TrustedIsProvenance == TrustedProvenance # None

\* Calls of a tool the engine may be asked about, as permissive as can be.
Probe(name, role) ==
    [request |-> [role |-> role, tenant_id |-> "tenant-a"],
     call    |-> [tool_name |-> name, target |-> "tenant-b",
                  provenance |-> TrustedProvenance]]

Verdict(file, name, role, target) ==
    LET probe == Probe(name, role)
    IN  EvaluatePolicy(LoadPolicy(file), probe.request,
                       [probe.call EXCEPT !.target = target])

\* What passed the validation, the engine loads without raising and enforces:
\* no shell, no other tenant's data, exports for admins only, and approval
\* for mail and exports; every enabled tool is usable by some role.
ValidatedPolicyIsEnforced ==
    Green =>
        LET file == ci.policy
            tools == LoadPolicy(file).tools
            Roles == {"user", "admin"}
        IN  /\ ~LoadPolicyRaises(file)
            /\ \A role \in Roles :
                  /\ ~Verdict(file, "run_shell", role, "tenant-a").allowed
                  /\ \A name \in DOMAIN tools :
                        ~Verdict(file, name, role, "tenant-b").allowed
            /\ ~Verdict(file, "export_records", "user", "tenant-a").allowed
            /\ \A name \in {"send_email", "export_records"} :
                  tools[name].requires_human_approval
            /\ \A name \in DOMAIN tools : tools[name].enabled =>
                  \E role \in tools[name].allowed_roles :
                      Verdict(file, name, role, "tenant-a").allowed

=============================================================================
