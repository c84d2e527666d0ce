CONSTANTS
    c1 = c1
    c2 = c2
    Nobody = Nobody
    Total = 4
    MaxReplicas = 3
    Controllers = {c1, c2}
    MaxEvents = 3
    CoarseStamp = FALSE
SPECIFICATION LiveSpec
INVARIANTS TypeOK HandledIsRolledOut SettledIsPartitioned
PROPERTIES RedistributedOrReverted
CHECK_DEADLOCK FALSE
