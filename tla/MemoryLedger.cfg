\* A 5-bit "usize", a limit below it, and requests that reach every refusal.
SPECIFICATION Spec
CONSTANTS
    UsizeMax = 31
    U64Max = 2
    HardLimit = 20
    MaxSingle = 18
    GcStart = 4
    GcGrowthPercent = 50
    MaxRequest = 21
INVARIANTS
    LedgerBalances
    WithinLimit
    PressureBeforeRefusal
PROPERTIES
    CollectionLeavesRoom
