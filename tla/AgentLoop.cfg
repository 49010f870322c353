CONSTANTS
    ToolSpecs <- MCToolSpecs
    Args <- MCArgs
    ArgFacts <- MCArgFacts
    InvalidCalls <- MCInvalidCalls
    AllowedTools <- MCAllowedTools
    PermissionPolicy <- MCPermissionPolicy
    RiskLevel = "low"
    ToolOutcomes <- MCToolOutcomes
    LLMCalls <- MCLLMCalls
    LLMIds <- MCLLMIds
    FallbackBaseline <- MCFallbackBaseline
    PreferredFiles <- MCPreferredFiles
    VerifyTools <- MCVerifyTools
    ModifiedArgs <- MCModifiedArgs
    SandboxSupported = TRUE
    MaxSteps = 6
    MaxDepth = 2
    MaxTotalTasks = 5
    MaxTaskRetries = 1
    MaxSubtasks = 2
    MaxRuns = 1
SPECIFICATION Spec
INVARIANT TypeOK
INVARIANT WriteSpendsApproval
INVARIANT NoTaskIsLost
INVARIANT SettledAtEnd
INVARIANT CompleteMeansExecuted
INVARIANT ChecksBeforeDone
INVARIANT UncheckedOnlyWhenFull
CHECK_DEADLOCK FALSE
