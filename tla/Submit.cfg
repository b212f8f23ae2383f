SPECIFICATION Spec
CONSTANTS
  Call = {c1, c2, c3}
  Patience = 1
INVARIANTS TypeOK AtMostOnePending RefusedOnlyByCollision NumbersUsedOnce
PROPERTIES KeepsPromise EveryCallReturns
CHECK_DEADLOCK FALSE
