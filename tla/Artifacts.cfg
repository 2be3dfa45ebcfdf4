SPECIFICATION ArtifactSpec
CONSTANTS
    Families <- MCFamilies
    ByteBits = 7
    Compiled <- MCCompiled
    Policies <- MCPolicies
    Unlimited <- MCUnlimited
    Fragile <- MCFragile
    Damages = {1}
    MaxDumps = 2
CHECK_DEADLOCK FALSE
INVARIANTS
    AcceptedCodeRuns
    RejectedCodeIsWrong
    DumpedFunctionsReload
PROPERTIES
    CodecIsExact
