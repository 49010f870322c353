CONSTANTS
    a1 = a1
    a2 = a2
    h1 = h1
    h2 = h2
    Agents <- MCAgents
    Approvers = {h1}
    TaskTool <- MCSameTask
    Mode <- MCOneEach
    MaxRequests <- MCTwoAndOne
SPECIFICATION FairSpec
INVARIANT TypeOK
PROPERTY SettledStaysSettled
PROPERTY KeepsContract
CHECK_DEADLOCK FALSE
