SPECIFICATION Spec
CONSTANTS
    None = None
    LLMAdapterError = LLMAdapterError
    Workers = {w1}
    Configs <- ScenarioConfigs
    PolicyFiles <- ScenarioFiles
    Requests <- ScenarioRequests
    Paths = {"protected"}
    Approvable <- ScenarioApprovable
    Candidates <- SimulatedCandidates
    TTL = 0
    MaxTime = 1
    MaxTurns = 2
    MaxTokens = 1
    MaxPolicyVersions = 1
    MaxRestarts = 0
    MaxAuditFaults = 0
INVARIANTS
    TypeOK
    OneTimeUse
    ExecutionPermitted
    ApprovalCoversAction
    DenialsClassified
CONSTANT w1 = w1
PROPERTY KeepsLedger
