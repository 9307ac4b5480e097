SPECIFICATION Spec
CONSTANTS
    None = None
    LLMAdapterError = LLMAdapterError
    Blank = Blank
    Garbled = Garbled
    Environments <- OneEnvironment
    PolicyContents <- ReleaseFiles
    KeysContents <- OneKeysFile
    HmacContents <- OneHmacFile
    AuditDirs = {TRUE}
    MaxEdits = 2
    MaxChecks = 2
    MaxDeployments = 0
INVARIANTS
    GreenMeansRecorded
    ValidatedPolicyIsEnforced
