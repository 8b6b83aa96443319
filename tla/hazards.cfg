CONSTANTS
    NumTerminals = 2
    MaxProcesses = 3
    CountFloor <- MCCountFloor
    Hazards <- AllHazards
    NULL = NULL
    BOOT = BOOT
SPECIFICATION Spec
INVARIANTS
    CountIsBounded
CHECK_DEADLOCK FALSE

