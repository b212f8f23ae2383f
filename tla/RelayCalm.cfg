SPECIFICATION QuietSpec
CONSTANTS
  ChainA = A
  ChainB = B
  f1 = f1
  f2 = f2
  f3 = f3
  f4 = f4
  f5 = f5
  Flow = {f1, f2, f3, f4, f5}
  Origin <- FromBoth
  Starts <- AllFamilies
  Timeout <- Never
  ClosedBy <- NoOther
  Before <- NoOther
  Gas <- Costs
  GasLimit = 4
  ChanId <- SameIds
  Delayed = {f5}
  MaxMsgs = 3
  MaxUserTx = 2
  MaxHeight = 4
  CapHeight = 5
  MaxRestarts = 0
INVARIANT RelayLoopsForever
PROPERTIES ImplementsFlows FlowsComplete DelayedStillUpdates
CHECK_DEADLOCK FALSE
