\* Three array-like keys and an object as a key, tables created with and without
\* capacities; the order and the compaction thresholds (1024 in the code) are
\* lowered so that both are crossed.  A frozen table stops.
SPECIFICATION Spec
CONSTANTS
    UsizeMax = 1000
    U64Max = 2
    HardLimit = 200
    MaxSingle = 200
    GcStart = 100
    GcGrowthPercent = 50
    MaxKey = 3
    NumberKeys = {}
    StringKeys = {}
    HeapKeys = {h}
    Values = {}
    HeapValues = {o}
    Nil = Nil
    ValueBytes = 1
    HashBytes = 4
    OrderBytes = 5
    OrderThreshold = 3
    CompactThreshold = 2
    TablePolicies = {"Unordered", "Insertion"}
    ArraySizes = {0, 2}
    HashSizes = {0, 1}
    WeakModes = {{}}
    Walks = FALSE
CHECK_DEADLOCK FALSE
INVARIANTS
    RepresentationSound
    FreeWritesAreFreeOtherwise
PROPERTIES
    ImplementsMap
