SPECIFICATION Spec
CONSTANTS
  Runs = {r1, r2}
  Stops = {s1}
  Deletes = {}
  Starts = {u1}
  Grants = {g1}
  Revokes = {v1}
  Baseline = {r2}
  Stranger = {}
  Unknown = {}
  Elsewhere = {}
  Seeded = TRUE
  MaxFaults = 0
  MaxCrashes = 1
  None = None
  CapsuleRuntime <- MCCapsuleRuntime
  Agents <- MCAgents
  Principals <- MCPrincipals
  Resources <- MCResources
  Owner <- MCOwner
  Registered <- MCRegistered
  GrantPolicy <- MCGrantPolicy
  InitialGrants <- MCInitialGrants
  AgentOf <- MCAgentOf
  PrincipalOf <- MCPrincipalOf
  ResourceOf <- MCResourceOf
INVARIANTS StaleDenialIsTrue OneRunPerAgent QuietAfterDrain EvidenceIsWrittenAhead
PROPERTIES NoHandoffDuringCancel HandoffIsAuthorized ImplementsRunContract
