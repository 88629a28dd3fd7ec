SPECIFICATION FairDeletionSpec
CONSTANTS
    Deletions = {d1, d2}
    Workers = {w1, w2}
    Idle = Idle
    DeleteOrder <- MCDeleteOrder
    External <- MCExternal
    MaxAttempts = 2
    MaxRows = 1
CHECK_DEADLOCK FALSE
 
PROPERTY DeletionEndsForGood
