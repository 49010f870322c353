CONSTANTS
    None = None
    a1 = a1
    u1 = u1
    u2 = u2
    u3 = u3
    l1 = l1
    l2 = l2
    Agents <- MCAgents
    Users = {u1, u2}
    Preferences = {"language"}
    Lessons <- MCLessons
    LessonShape <- MCLessonShape
    LessonEvaluations <- MCEvaluations
    AgentRuns <- MCAgentRuns
    Overlapped <- MCOverlapped
    MaxCrashes = 1
    MaxRecords = 4
    LifecycleSourceLimit = 3
    CompactionSourceLimit = 3
    MinSummaryGroup = 3
    MinCompactionGroup = 2
    MaxCompactionGroups = 1
SPECIFICATION Spec
INVARIANT TypeOK
INVARIANT ReplacedByAStoredRecord
INVARIANT JobSettlesKeys
INVARIANT SeedingRestores
PROPERTY OnlyExpiredVanish

