CONSTANTS
    None = None
    Identities <- MCIdentities
    Experiences <- MCExperiences
    JudgeAnswers <- MCJudgeAnswers
    PromotionThreshold = 2
    MaxRetrieved = 2
    MaxEvents = 4
    RunTasks <- MCFewTasks
    JobIdentity <- MCJobIdentity
    MinCompactionGroup = 2
    MinSummaryGroup = 2
    JobTimes = {"idle"}
    MaxMerges = 0
    MaxCrashes = 0
SPECIFICATION Spec
INVARIANT SensitiveHitsAreAudited
CHECK_DEADLOCK FALSE
