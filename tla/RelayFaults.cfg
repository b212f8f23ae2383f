SPECIFICATION Spec
CONSTANTS
  ChainA = A
  ChainB = B
  f1 = f1
  f2 = f2
  f3 = f3
  f4 = f4
  f5 = f5
  Flow = {f1, f3, f4, f5}
  Origin <- FromBoth
  Starts <- AllFamilies
  Timeout <- Soon
  ClosedBy <- Closing
  Before <- AfterF1
  Gas <- Costs
  GasLimit = 3
  ChanId <- OtherIds
  Delayed = {}
  MaxMsgs = 3
  MaxUserTx = 2
  MaxHeight = 3
  CapHeight = 4
  MaxRestarts = 1
INVARIANTS IInv UpdateCoversProofs AtMostOnce NeverObsolete NoSequenceConflict
PROPERTIES ImplementsFlows UpdateForwardsWindow
CHECK_DEADLOCK FALSE
ACTION_CONSTRAINT InBounds
