SPECIFICATION FairSpec
CONSTANTS
  Calls = {c1}
  Cancels = {k1}
  MissingIsError = FALSE
  MaxFaults = 0
  MaxCrashes = 0
  None = None
  Agents <- MCAgents
  AgentOf <- MCAgentOf
PROPERTIES TurnsAndCancelsEnd
