---------------------------- MODULE MCAgentFiles ----------------------------
(***************************************************************************)
(* Instances of AgentFiles for TLC, with one Agent.  It is created with    *)
(* the configuration "old"; each update asks for one of its own.           *)
(***************************************************************************)
EXTENDS AgentFilesProperties, TLC

MCAgents == {"a1"}
MCAgentOf == [t \in Ops |-> "a1"]
MCConfigs == {"old"} \cup Updates
MCInputOf == [t \in Creates \cup Updates |-> IF t \in Updates THEN t ELSE "old"]
=============================================================================
