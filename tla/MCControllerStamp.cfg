CONSTANTS
    c1 = c1
    c2 = c2
    Nobody = Nobody
    Total = 4
    MaxReplicas = 2
    Controllers = {c1}
    MaxEvents = 2
    CoarseStamp = TRUE
SPECIFICATION LiveSpec
PROPERTIES Redistributed
CHECK_DEADLOCK FALSE
