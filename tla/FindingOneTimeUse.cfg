SPECIFICATION Spec
CONSTANTS
    None = None
    LLMAdapterError = LLMAdapterError
    w1 = w1
    w2 = w2
    Workers = {w1, w2}
    Configs <- TokenConfig
    PolicyFiles <- JustServingFile
    Requests <- JustAlice
    Paths = {"protected"}
    Approvable <- MailApprovable
    Candidates <- MailCandidates
    TTL = 1
    MaxTime = 0
    MaxTurns = 2
    MaxTokens = 1
    MaxPolicyVersions = 1
    MaxRestarts = 0
    MaxAuditFaults = 0
INVARIANT OneTimeUse
