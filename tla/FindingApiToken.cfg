SPECIFICATION ApiSpec
CONSTANTS
    None = None
    LLMAdapterError = LLMAdapterError
    Blank = Blank
    Garbled = Garbled
    w1 = w1
    Workers = {w1}
    Configs <- ApiConfigs
    PolicyFiles <- JustServingFile
    Requests <- ApiRequests
    Paths = {"protected", "vulnerable"}
    Approvable <- MailApprovable
    Candidates <- ApiCandidates
    TTL = 1
    MaxTime = 0
    MaxTurns = 1
    MaxTokens = 1
    MaxPolicyVersions = 1
    MaxRestarts = 0
    MaxAuditFaults = 0
    Apps <- ApiApps
    Messages <- ApiMessages
    IdTexts = {"req-1", "trace-1", ""}
    MaxExchanges = 1
INVARIANT
    SentTokensArrive
