--------------------------- MODULE MCRunLifecycle ---------------------------
(***************************************************************************)
(* Instances of RunLifecycle for TLC.  A configuration lists the requests  *)
(* of each kind and says which of them are unusual: a baseline Run, a      *)
(* request of somebody who does not own the Agent, a request that names a  *)
(* Resource outside the Registry, a request about a second Agent.          *)
(***************************************************************************)
EXTENDS RunProperties, TLC

CONSTANTS
  Baseline,   \* Runs without a Resource
  Stranger,   \* requests made by "bob"
  Unknown,    \* requests for the unregistered Resource "ghost"
  Elsewhere,  \* requests about the second Agent
  Seeded      \* whether alice's Entitlement is seeded active

MCAgents == IF Elsewhere = {} THEN {"a1"} ELSE {"a1", "a2"}
MCPrincipals == IF Stranger = {} THEN {"alice"} ELSE {"alice", "bob"}
MCResources == IF Unknown = {} THEN {"notes"} ELSE {"notes", "ghost"}
MCOwner == [a \in MCAgents |-> "alice"]
MCRegistered == {"notes"}
MCGrantPolicy == {<<"alice", "notes">>}
MCInitialGrants == IF Seeded THEN MCGrantPolicy ELSE {}
MCAgentOf == [t \in Ops |-> IF t \in Elsewhere THEN "a2" ELSE "a1"]
MCPrincipalOf == [t \in Ops |-> IF t \in Stranger THEN "bob" ELSE "alice"]
MCResourceOf == [t \in Ops |-> IF t \in Baseline THEN None
                               ELSE IF t \in Unknown THEN "ghost" ELSE "notes"]
\* A server that is brought back up has lost its container Runner.
MCCapsuleRuntime == [life \in 0 .. MaxCrashes |-> life = 0]
=============================================================================
