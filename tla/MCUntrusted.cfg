SPECIFICATION Spec
CONSTANTS
    None = None
    LLMAdapterError = LLMAdapterError
    w1 = w1
    w2 = w2
    Workers = {w1, w2}
    Configs <- LenientConfig
    PolicyFiles <- UntrustedFiles
    Requests <- UntrustedRequests
    Paths = {"protected", "vulnerable"}
    Approvable <- MailApprovable
    Candidates <- UntrustedCandidates
    TTL = 0
    MaxTime = 1
    MaxTurns = 2
    MaxTokens = 1
    MaxPolicyVersions = 2
    MaxRestarts = 0
    MaxAuditFaults = 1
INVARIANTS
    ExecutionPermitted
    ApprovalCoversAction
    DecidedOnCurrentPolicy
    AuditMatchesOutcome
    DenialsClassified
    ShownTextIsClean
SYMMETRY WorkerSymmetry
