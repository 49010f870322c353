CONSTANTS
    ToolSpecs <- MCToolSpecs
    Args <- MCArgs
    ArgFacts <- MCArgFacts
    InvalidCalls <- MCInvalidCalls
    AllowedTools <- MCAllowedTools
    PermissionPolicy <- MCPermissionPolicy
    RiskLevel = "low"
    ToolOutcomes <- MCFewOutcomes
    LLMCalls <- MCLLMWrites
    LLMIds <- MCLLMIds
    FallbackBaseline <- MCFallbackBaseline
    PreferredFiles <- MCPreferredFiles
    VerifyTools <- MCVerifyTools
    ModifiedArgs <- MCModifiedArgs
    SandboxSupported = TRUE
    MaxSteps = 3
    MaxDepth = 1
    MaxTotalTasks = 3
    MaxTaskRetries = 1
    MaxSubtasks = 1
    MaxRuns = 2
SPECIFICATION FairSpec
PROPERTY LoopEnds
CHECK_DEADLOCK FALSE
