CONSTANTS
    ToolSpecs <- MCToolSpecs
    InitialContexts <- MCInitialContexts
SPECIFICATION CallSpec
INVARIANT ApprovalNeverDenies
CHECK_DEADLOCK FALSE
