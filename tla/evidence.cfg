SPECIFICATION EvidenceSpec
CONSTANTS
  Runs = {r1, r2}
  Earlier = {r1}
  Capsules = {r1, r2}
  OnSecond = {}
  First = "alice"
  MaxErrors = 2
  MaxSelects = 1
  MaxSwitches = 1
  MaxRetries = 0
  MaxLost = 1
  None = None
  Principals <- MCPrincipals
  Agents <- MCAgents
  OwnerOf <- MCOwnerOf
  AgentOf <- MCAgentOf
INVARIANTS EvidenceIsOfThePage FinalEvidenceIsShown
PROPERTIES EvidenceNeverGoesBack
