SPECIFICATION FairSpec
CONSTANTS
  Files = {agents, soul, log}
  SyncFiles = {agents, soul}
  Agents = agents
  Slots = {1, 2}
  MaxEdits = 3
  MaxFaults = 1
CHECK_DEADLOCK FALSE
INVARIANTS
  SingleFlight
PROPERTIES
  SyncCatchesUp
  CommitCatchesUp
