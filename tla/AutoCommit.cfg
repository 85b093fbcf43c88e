SPECIFICATION FairSpec
CONSTANTS
  Files = {agents, soul, log}
  SyncFiles = {agents, soul}
  Agents = agents
  Slots = {1, 2}
  MaxEdits = 2
  MaxFaults = 0
CHECK_DEADLOCK FALSE
PROPERTY ChangesCommitted
