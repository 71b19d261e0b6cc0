SPECIFICATION FairSpec
CONSTANTS
  Calls = {c1, c2}
  Cancels = {k1}
  MissingIsError = TRUE
  MaxFaults = 1
  MaxCrashes = 1
  None = None
  Agents <- MCAgents
  AgentOf <- MCAgentOf
INVARIANTS OneCodexPerAgent CancelledRunsSaySo
PROPERTIES CancelLeavesSilence StrayRemovalsAreLate TurnsAndCancelsEnd
