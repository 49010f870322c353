CONSTANTS
    ToolSpecs <- MCToolSpecs
    InitialContexts <- MCInitialContexts
SPECIFICATION CallSpec
INVARIANT TypeOK
INVARIANT ChainDecidesSeverest
INVARIANT ReasonIsDecisive
INVARIANT ProjectChangesAreApproved
INVARIANT ChangedFilesAreReported
PROPERTY NeverLoosens
CHECK_DEADLOCK FALSE
