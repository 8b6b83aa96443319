SPECIFICATION Spec
CONSTANTS
    NumTerminals = 3
    Hazards <- NoHazards
INVARIANTS InServiceHasHandler SuspendedByTick BootOrder
PROPERTIES NoStarvation RtcKeepsTicking
