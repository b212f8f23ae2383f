SPECIFICATION Spec
CONSTANTS
    Lists <- SmallLists
    MaxMessages = 5
    Sizes = {1, 2, 4}
    EmptyBody = 1
    Envelope = 1
    BlockMax = 6
    MaxCount = 3
INVARIANTS
    TypeOK
    Consecutive
    AllOrNothing
PROPERTY ImplementsDelivery
\* the flush returns
CHECK_DEADLOCK FALSE
