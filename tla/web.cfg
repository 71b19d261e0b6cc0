SPECIFICATION FairSpec
CONSTANTS
  Runs = {r1}
  Earlier = {}
  OnSecond = {}
  First = "alice"
  MaxErrors = 2
  MaxSelects = 1
  MaxSwitches = 1
  MaxRetries = 1
  MaxLost = 2
  None = None
  Principals <- MCPrincipals
  Agents <- MCAgents
  OwnerOf <- MCOwnerOf
  AgentOf <- MCAgentOf
INVARIANTS OneLoopPerRun NothingForeignIsShown
PROPERTIES LoopsEndForAReason TasksEnd
