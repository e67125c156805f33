CONSTANTS
    i1 = i1
    i2 = i2
    i3 = i3
    Ids <- MC_Ids
    MaxObjs <- MC_MaxObjs
    MaxAge <- MC_MaxAge
    MaxBurst <- MC_MaxBurst
SPECIFICATION Spec
INVARIANTS
    TypeOK
    UserTadpoleUnique
    ArrowsFollowTadpoles
    UpdatesCarryAssignedId
PROPERTIES
    EntriesNeverReplaced
    UpdateEventuallySent
