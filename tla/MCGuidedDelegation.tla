------------------------- MODULE MCGuidedDelegation -------------------------
(***************************************************************************)
(* An instance of GuidedDelegation for TLC: alice has two Agents and bob   *)
(* has one.  "The order late" fits "orders" by its tag, better than        *)
(* "stock" by two terms of its description; "the incident" fits the two    *)
(* alike.                                                                  *)
(***************************************************************************)
EXTENDS DelegationProperties

MCPrincipals == {"alice", "bob"}
MCAgents == {"a1", "a2", "b1"}
MCOwnerOf == [a \in MCAgents |-> IF a = "b1" THEN "bob" ELSE "alice"]
MCResources == {"orders", "stock"}
MCTags == [r \in MCResources |-> IF r = "orders" THEN {"order"} ELSE {}]
MCNameTerms == [r \in MCResources |-> {"incident"}]
MCDescriptionTerms ==
  [r \in MCResources |-> IF r = "orders" THEN {"the"} ELSE {"the", "order", "late"}]
MCTexts == {{}, {"the", "order", "late"}, {"the", "incident"}}
MCSeeded == [p \in MCPrincipals |-> IF p = "alice" THEN MCResources ELSE {}]
=============================================================================
