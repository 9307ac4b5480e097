SPECIFICATION FairSpec
CONSTANTS
    None = None
    LLMAdapterError = LLMAdapterError
    w1 = w1
    w2 = w2
    Workers = {w1, w2}
    Configs <- TokenConfig
    PolicyFiles <- JustServingFile
    Requests <- JustAlice
    Paths = {"protected"}
    Approvable <- MailApprovable
    Candidates <- MailCandidates
    TTL = 1
    MaxTime = 0
    MaxTurns = 3
    MaxTokens = 1
    MaxPolicyVersions = 1
    MaxRestarts = 1
    MaxAuditFaults = 1
INVARIANTS
    AuditMatchesOutcome
    ReplayBlocked
    AuditMatchesExecution
PROPERTIES
    OnlyRestartForgets
    EveryTurnEnds
