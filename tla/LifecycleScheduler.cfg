CONSTANTS
    c1 = c1
    c2 = c2
    c3 = c3
    Calls <- MCCalls
    RunKey <- MCRunKey
    Forced = {c3}
    Backends = {"jsonl", "postgres"}
    MaxAttempts = 2
SPECIFICATION FairSchedulerSpec
INVARIANT SchedulerTypeOK
INVARIANT AdvisoryLockExcludes
INVARIANT RecordsTellResults
PROPERTY CallsEnd
CHECK_DEADLOCK FALSE
