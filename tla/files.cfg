SPECIFICATION FairSpec
CONSTANTS
  Creates = {c1}
  Updates = {u1,u2}
  Deletes = {d1, d2}
  MaxFaults = 1
  MaxCrashes = 1
  None = None
  Agents <- MCAgents
  Configs <- MCConfigs
  AgentOf <- MCAgentOf
  InputOf <- MCInputOf
INVARIANTS RunsSeeTheirInstructions RecordsMatchDirectories WorkspacesSurvive
PROPERTIES UndoSparesOthers EveryRequestEnds
