--------------------------- MODULE MCRunnerProcess ---------------------------
(***************************************************************************)
(* Instances of RunnerProcess for TLC, with one Agent: the Runner's maps   *)
(* are keyed by the Agent, and so are the names of containers.             *)
(***************************************************************************)
EXTENDS RunnerProperties, TLC

MCAgents == {"a1"}
MCAgentOf == [x \in Calls \cup Cancels |-> "a1"]
=============================================================================
