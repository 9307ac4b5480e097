SPECIFICATION FairSpec
CONSTANTS
    None = None
    LLMAdapterError = LLMAdapterError
    Blank = Blank
    Garbled = Garbled
    Environments <- StartupEnvironments
    PolicyContents <- StartupFiles
    KeysContents <- StartupKeys
    HmacContents <- StartupHmac
    AuditDirs = {TRUE, FALSE}
    MaxEdits = 1
    MaxChecks = 0
    MaxDeployments = 1
INVARIANTS
    DeploymentTypeOK
    ProductionIsGuarded
    TyposNeverRelax
PROPERTY RecoversOnceFixed
