----------------------------- MODULE AppConfig -----------------------------
(***************************************************************************)
(* The service's settings (config.py): how environment variables become an *)
(* AppConfig and what AppConfig.validate refuses.                          *)
(*                                                                         *)
(* An environment is a record of variables, None when unset.  files maps   *)
(* "policy", "keys" and "hmac" to contents: the policy to a file of        *)
(* PolicyEngine, the API keys to a set of lines, the HMAC key to its       *)
(* bytes; None stands for a file that is not there.                        *)
(***************************************************************************)
EXTENDS Models

CONSTANTS
    Blank,     \* text of white space only
    Garbled    \* text that is no value of the kind asked for

TrueWords == {"1", "true", "yes", "on"}

\* Blank and garbled text is text, and says none of these words.
ASSUME TextsDiffer == {Blank, Garbled} \cap ({None, "#"} \cup TrueWords) = {}

\* The variables read as booleans, and all that are read.
Switches ==
    {"ACP_REQUIRE_API_AUTH", "ACP_ENABLE_STRICT_PROVENANCE",
     "ACP_REQUIRE_APPROVAL_TOKEN", "ACP_ENABLE_DEBUG_ERRORS",
     "ACP_ALLOW_LIVE_EXTERNAL_TOOLS", "ACP_ALLOW_SHELL_TOOLS",
     "ACP_ALLOW_LIVE_LLM_CALLS"}

EnvironmentVariables ==
    Switches \cup {"ACP_ENVIRONMENT", "ACP_ALLOWED_API_KEYS_FILE", "ACP_API_KEY",
                   "ACP_ALLOWED_ORIGINS", "ACP_MAX_REQUEST_BODY_BYTES",
                   "ACP_AUDIT_RETENTION_DAYS", "ACP_PROVENANCE_HMAC_KEY_FILE",
                   "ACP_LLM_ADAPTER_MODE"}

\* Unrecognised text counts as False, whatever the default.
EnvBool(raw, default) == IF raw = None THEN default ELSE raw \in TrueWords

EnvInt(raw, default) == IF raw = None THEN default ELSE raw

\* raw is the set of origins listed: empty when it holds commas only.
ParseOrigins(raw, default) == IF raw \in {None, Blank} THEN default ELSE raw

\* Blank lines and comments of the keys file.
IgnoredLines == {Blank, "#"}

LoadApiKeys(keysFile, inlineKey, files) ==
    ({inlineKey} \ {None, Blank})
        \cup (IF keysFile = None THEN {} ELSE files[keysFile] \ IgnoredLines)

EnvironmentMode == {"local", "test", "production"}

LLMAdapterMode == {"simulated", "disabled_external"}

Mode(env) == IF env.ACP_ENVIRONMENT = None THEN "local" ELSE env.ACP_ENVIRONMENT

AdapterMode(env) ==
    IF env.ACP_LLM_ADAPTER_MODE = None THEN "simulated" ELSE env.ACP_LLM_ADAPTER_MODE

DefaultOrigins ==
    [local      |-> {"http://127.0.0.1:8080", "http://localhost:8080"},
     test       |-> {"http://127.0.0.1:8080"},
     production |-> {}]

\* ConfigurationError out of load_config_from_env.
LoadConfigRaises(env, files) ==
    \/ Mode(env) \notin EnvironmentMode
    \/ AdapterMode(env) \notin LLMAdapterMode
    \/ env.ACP_ALLOWED_API_KEYS_FILE # None
         /\ files[env.ACP_ALLOWED_API_KEYS_FILE] = None
    \/ Garbled \in {env.ACP_MAX_REQUEST_BODY_BYTES, env.ACP_AUDIT_RETENTION_DAYS}

\* Paths, names and settings that nothing reads are left out.
LoadConfigFromEnv(env, files) ==
    LET mode == Mode(env)
        production == mode = "production"
    IN  [environment_mode          |-> mode,
         require_api_auth          |-> EnvBool(env.ACP_REQUIRE_API_AUTH, production),
         allowed_origins           |-> ParseOrigins(env.ACP_ALLOWED_ORIGINS,
                                                    DefaultOrigins[mode]),
         max_request_body_bytes    |-> EnvInt(env.ACP_MAX_REQUEST_BODY_BYTES, 1048576),
         audit_retention_days      |-> EnvInt(env.ACP_AUDIT_RETENTION_DAYS, 90),
         enable_strict_provenance  |-> EnvBool(env.ACP_ENABLE_STRICT_PROVENANCE, FALSE),
         provenance_hmac_key_file  |-> env.ACP_PROVENANCE_HMAC_KEY_FILE,
         require_approval_token    |-> EnvBool(env.ACP_REQUIRE_APPROVAL_TOKEN, FALSE),
         enable_debug_errors       |-> EnvBool(env.ACP_ENABLE_DEBUG_ERRORS, ~production),
         allow_live_external_tools |-> EnvBool(env.ACP_ALLOW_LIVE_EXTERNAL_TOOLS, FALSE),
         allow_shell_tools         |-> EnvBool(env.ACP_ALLOW_SHELL_TOOLS, FALSE),
         allow_live_llm_calls      |-> EnvBool(env.ACP_ALLOW_LIVE_LLM_CALLS, FALSE),
         llm_adapter_mode          |-> AdapterMode(env),
         api_keys                  |-> LoadApiKeys(env.ACP_ALLOWED_API_KEYS_FILE,
                                                   env.ACP_API_KEY, files)]

-----------------------------------------------------------------------------
(* AppConfig.validate *)

ProductionSettingsOk(cfg) ==
    /\ cfg.require_api_auth
    /\ cfg.api_keys # {}
    /\ cfg.allowed_origins # {} /\ "*" \notin cfg.allowed_origins
    /\ ~cfg.enable_debug_errors
    /\ cfg.enable_strict_provenance => cfg.provenance_hmac_key_file # None

\* The range of max_request_body_bytes.
MinBodyLimit == 1024

MaxBodyLimit == 10485760

\* MUTANT of SettingsOk: production is not held to more than a lab.
LabSettingsOk(cfg) ==
    /\ cfg.max_request_body_bytes \in MinBodyLimit .. MaxBodyLimit
    /\ cfg.audit_retention_days \in 1 .. 3650
    /\ ~cfg.allow_live_external_tools
    /\ ~cfg.allow_shell_tools
    /\ ~cfg.allow_live_llm_calls
    /\ cfg.require_api_auth => cfg.api_keys # {}

SettingsOk(cfg) ==
    /\ cfg.max_request_body_bytes \in MinBodyLimit .. MaxBodyLimit
    /\ cfg.audit_retention_days \in 1 .. 3650
    /\ ~cfg.allow_live_external_tools
    /\ ~cfg.allow_shell_tools
    /\ ~cfg.allow_live_llm_calls
    /\ cfg.environment_mode = "production" => ProductionSettingsOk(cfg)
    /\ cfg.require_api_auth => cfg.api_keys # {}

\* The checks of validate that look at files: existence only.
FilesOk(cfg, files) ==
    /\ files.policy.kind # "missing"
    /\ /\ cfg.environment_mode = "production"
       /\ cfg.enable_strict_provenance
       /\ cfg.provenance_hmac_key_file # None
       => files[cfg.provenance_hmac_key_file] # None

Validates(cfg, files) == SettingsOk(cfg) /\ FilesOk(cfg, files)

\* load_provenance_hmac_key: None without a key file; a file that is not there
\* raises OSError, an empty one ConfigurationError.
LoadProvenanceHmacKey(cfg, files) ==
    IF cfg.provenance_hmac_key_file = None THEN None
    ELSE files[cfg.provenance_hmac_key_file]

\* What a client is told of an exception.
ProductionErrorDetail(cfg) ==
    IF cfg.enable_debug_errors THEN "exception_text" ELSE "internal_error"

=============================================================================
