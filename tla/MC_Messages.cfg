CONSTANTS
    MaxAge <- MC_MaxAge
    MaxLen <- MC_MaxLen
SPECIFICATION Spec
INVARIANTS
    PassMatchesReference
