SPECIFICATION Spec
CONSTANTS
  Runs = {r1}
  Stops = {s1}
  Deletes = {}
  Starts = {}
  Grants = {}
  Revokes = {v1}
  Baseline = {}
  Stranger = {}
  Unknown = {}
  Elsewhere = {}
  Seeded = TRUE
  MaxFaults = 0
  MaxCrashes = 1
  None = None
  CapsuleRuntime <- MCCapsuleRuntime
  Agents <- MCAgents
  Principals <- MCPrincipals
  Resources <- MCResources
  Owner <- MCOwner
  Registered <- MCRegistered
  GrantPolicy <- MCGrantPolicy
  InitialGrants <- MCInitialGrants
  AgentOf <- MCAgentOf
  PrincipalOf <- MCPrincipalOf
  ResourceOf <- MCResourceOf
INVARIANTS SettledEvidenceMeansHandoff
