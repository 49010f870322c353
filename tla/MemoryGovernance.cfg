CONSTANTS
    None = None
    Identities <- MCIdentities
    Experiences <- MCExperiences
    JudgeAnswers <- MCJudgeAnswers
    PromotionThreshold = 2
    MaxRetrieved = 2
    MaxEvents = 4
    RunTasks <- MCRunTasks
    JobIdentity <- MCJobIdentity
    MinCompactionGroup = 2
    MinSummaryGroup = 2
    JobTimes = {"idle", "judging"}
    MaxMerges = 2
    MaxCrashes = 1
SPECIFICATION Spec
INVARIANT TypeOK
INVARIANT StoreGetsWhatItExpects
INVARIANT UsesCountOnce
INVARIANT EndedRunsAreCounted
INVARIANT ContextIsGoverned
INVARIANT PromotionIsEarned
CHECK_DEADLOCK FALSE
