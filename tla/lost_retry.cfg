SPECIFICATION Spec
CONSTANTS
  Runs = {r1, r2}
  Earlier = {r1}
  OnSecond = {r2}
  First = "alice"
  MaxErrors = 2
  MaxSelects = 1
  MaxSwitches = 0
  MaxRetries = 0
  MaxLost = 2
  None = None
  Principals <- MCPrincipals
  Agents <- MCAgents
  OwnerOf <- MCOwnerOf
  AgentOf <- MCAgentOf
PROPERTIES RetryStaysOffered
