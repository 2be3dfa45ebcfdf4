CONSTANTS
    GenerationModulus = 3
    MaxSlots = 3
SPECIFICATION Spec
INVARIANTS
    StaleHandlesFail
    SlotsMatchPeak
