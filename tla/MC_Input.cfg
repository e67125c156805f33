CONSTANTS
    MaxTouches <- MC_MaxTouches
SPECIFICATION Spec
INVARIANTS
    Rest
