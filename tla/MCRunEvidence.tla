---------------------------- MODULE MCRunEvidence ---------------------------
(***************************************************************************)
(* Instances of RunEvidence for TLC: alice has two Agents and bob has one. *)
(***************************************************************************)
EXTENDS EvidenceProperties, TLC

CONSTANTS OnSecond  \* the Runs of alice's second Agent; the others are of the first

MCPrincipals == {"alice", "bob"}
MCAgents == {"a1", "a2", "b1"}
MCOwnerOf == [a \in MCAgents |-> IF a = "b1" THEN "bob" ELSE "alice"]
MCAgentOf == [r \in Runs |-> IF r \in OnSecond THEN "a2" ELSE "a1"]
=============================================================================
