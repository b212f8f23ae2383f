SPECIFICATION QuietSpec
CONSTANTS
  ChainA = A
  ChainB = B
  f1 = f1
  f2 = f2
  f3 = f3
  f4 = f4
  f5 = f5
  Flow = {f1}
  Origin <- FromBoth
  Starts <- AllFamilies
  Timeout <- Never
  ClosedBy <- NoOther
  Before <- NoOther
  Gas <- Costs
  GasLimit = 4
  ChanId <- OtherIds
  Delayed = {}
  MaxMsgs = 3
  MaxUserTx = 1
  MaxHeight = 3
  CapHeight = 4
  MaxRestarts = 0
PROPERTY FlowsComplete
CHECK_DEADLOCK FALSE
