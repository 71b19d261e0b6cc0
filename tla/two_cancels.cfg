SPECIFICATION Spec
CONSTANTS
  Runs = {r1}
  Stops = {s1, s2}
  Deletes = {}
  Starts = {u1}
  Grants = {}
  Revokes = {}
  Baseline = {r1}
  Stranger = {}
  Unknown = {}
  Elsewhere = {}
  Seeded = TRUE
  MaxFaults = 0
  MaxCrashes = 0
  None = None
  CapsuleRuntime <- MCCapsuleRuntime
  Agents <- MCAgents
  Principals <- MCPrincipals
  Resources <- MCResources
  Owner <- MCOwner
  Registered <- MCRegistered
  GrantPolicy <- MCGrantPolicy
  InitialGrants <- MCInitialGrants
  AgentOf <- MCAgentOf
  PrincipalOf <- MCPrincipalOf
  ResourceOf <- MCResourceOf
PROPERTIES NoHandoffWhileAwaited
