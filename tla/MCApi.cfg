SPECIFICATION ApiSpec
CONSTANTS
    None = None
    LLMAdapterError = LLMAdapterError
    Blank = Blank
    Garbled = Garbled
    w1 = w1
    w2 = w2
    Workers = {w1, w2}
    Configs <- ApiConfigs
    PolicyFiles <- ApiFiles
    Requests <- ApiRequests
    Paths = {"protected", "vulnerable"}
    Approvable <- MailApprovable
    Candidates <- ApiCandidates
    TTL = 1
    MaxTime = 0
    MaxTurns = 2
    MaxTokens = 0
    MaxPolicyVersions = 2
    MaxRestarts = 1
    MaxAuditFaults = 1
    Apps <- ApiApps
    Messages <- ApiMessages
    IdTexts = {"req-1", "trace-1", ""}
    MaxExchanges = 2
INVARIANTS
    ApiTypeOK
    TurnsAreAdmitted
    RefusalsAudited
    StatusTellsTheTruth
    ProductionErrorsAreOpaque
    EventIdsUsable
PROPERTY
    ImplementsPipeline
SYMMETRY WorkerSymmetry
