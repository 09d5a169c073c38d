SPECIFICATION FairSpec
CONSTANTS
  NONE = NONE
  l1 = l1
  l2 = l2
  l3 = l3
  k1 = k1
  k2 = k2
  a = a
  Loads <- MCLoads
  Keys <- MCKeys
  Agents <- MCAgents
  KeyOf <- MCKeyOf
  AgentOf <- MCAgentOf
  Timeout = 2
  Retry = 1
  MaxFaults = 2
INVARIANTS
  OneHolder
  ServesItsSet
PROPERTIES
  OnlyLateOverwrites
  LoadEnds
CHECK_DEADLOCK FALSE
