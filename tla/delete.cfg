SPECIFICATION FairSpec
CONSTANTS
  Runs = {r1, r2}
  Stops = {}
  Deletes = {d1, d2}
  Starts = {}
  Grants = {}
  Revokes = {v1}
  Baseline = {}
  Stranger = {}
  Unknown = {}
  Elsewhere = {}
  Seeded = TRUE
  MaxFaults = 1
  MaxCrashes = 0
  None = None
  CapsuleRuntime <- MCCapsuleRuntime
  Agents <- MCAgents
  Principals <- MCPrincipals
  Resources <- MCResources
  Owner <- MCOwner
  Registered <- MCRegistered
  GrantPolicy <- MCGrantPolicy
  InitialGrants <- MCInitialGrants
  AgentOf <- MCAgentOf
  PrincipalOf <- MCPrincipalOf
  ResourceOf <- MCResourceOf
INVARIANTS OneFileOperation NothingOfDeletedAgent EvidenceIsTruthful ReceiptMatchesRun
PROPERTIES TerminalRecordsFrozen RequestsSettle
