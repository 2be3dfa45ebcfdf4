SPECIFICATION Spec
CONSTANTS
    MaxInteger = 7
    ChainLimit = 3
    MaxResults = 6
    Handle <- MCHandle
    Scenarios <- MCScenarios
    Reply <- MCReply
    Rank <- MCRank
    ValidateFrom = 4
    SourceLimit = 5
    MaxYields = 3
    MaxCollections = 1
INVARIANTS
    YieldsAreInvisible
    LibraryMeansWhatItSays
    OperationsKeepTheirValues
    ModulesLoadOnce
