SPECIFICATION Spec
CONSTANTS
  Packet = {1}
  Early = {1}
  Returning = {}
  TimeoutHeight <- Heights
  TimeoutTime <- Times
  Genesis <- SameClock
  Delay = 1
  BlockTime = 1
  MaxSource = 4
  MaxSink = 4
  MaxUpdates = 2
  MaxMeanwhile = 1
INVARIANTS AllTimeoutsReturned
CHECK_DEADLOCK FALSE
ACTION_CONSTRAINT InBounds
