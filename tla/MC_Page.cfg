CONSTANTS
    MaxTouches <- MC_MaxTouches
SPECIFICATION PageSpec
INVARIANTS
    SingleLoop
