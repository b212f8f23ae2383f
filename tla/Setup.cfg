SPECIFICATION Spec
CONSTANTS
  OldClients <- Clients
  OldChannels <- Channels
  OtherConnections <- Connections
  Numbers = {2, 3}
  Balances = {10, 11}
  MaxClients = 3
INVARIANTS TypeOK CreatedIdsNamed PassIsEarned
PROPERTIES TestEnds FreshTestPasses
CHECK_DEADLOCK FALSE
ACTION_CONSTRAINT FewClients
