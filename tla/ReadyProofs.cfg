SPECIFICATION Spec
CONSTANTS
  Packet = {1}
  Early = {1}
  Returning = {1}
  TimeoutHeight <- Heights
  TimeoutTime <- Times
  Genesis <- SameClock
  Delay = 1
  BlockTime = 1
  MaxSource = 3
  MaxSink = 4
  MaxUpdates = 2
  MaxMeanwhile = 1
INVARIANTS MessagesProvable
CHECK_DEADLOCK FALSE
ACTION_CONSTRAINT InBounds
