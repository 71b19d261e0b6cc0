------------------------- MODULE AgentFilesProperties -------------------------
(***************************************************************************)
(* What must hold of Agents' records and directories.                      *)
(***************************************************************************)
EXTENDS AgentFiles

\* initialize repairs the statuses of Agents and nothing on disk: what a death has
\* left half done stays so.  And one failure is undone, but the failure of an undo is only
\* reported.  Beyond that, only WorkspacesSurvive speaks.
Undisturbed == crashes = 0 /\ faults <= 1

\* A Run works in a complete workspace and reads the instructions that its Agent's
\* record shows, from its admission to its end, although the two are written one
\* after the other and an update may fail between them.
RunsSeeTheirInstructions ==
  Undisturbed => \A a \in Agents :
    Busy(a) => dir[a] = "whole" /\ agentsMd[a] = record[a].conf

Idle(a) == \A t \in Ops : AgentOf[t] = a => pc[t] \in Ended \cup {"new", "waiting"}

\* When no operation is at work on an Agent, it has a record exactly if it has a
\* workspace: a failed create leaves none, a failed delete leaves both.
RecordsMatchDirectories ==
  Undisturbed => \A a \in Agents :
    Idle(a) => (Known(a) <=> dir[a] = "whole") /\ dir[a] # "partial"

\* Whatever fails, and wherever the server dies, the workspace of an Agent with a
\* record is in its place or in the archive: no undo ever removes it.
WorkspacesSurvive ==
  \A a \in Agents : Known(a) => dir[a] = "whole" \/ a \in archived

\* An undone update has changed nothing: AGENTS.md and the record agree again, and
\* what a stop or a start has done to the status meanwhile stays.
UndoSparesOthers ==
  [][\A t \in Updates :
       Undisturbed /\ pc[t] = "undoing" /\ pc'[t] = "failed" /\ faults' = faults =>
       LET a == AgentOf[t] IN
       Known(a) => /\ record'[a].status = record[a].status
                   /\ record'[a].conf = agentsMd[a]]_vars

\* Every request that has entered the server is answered: a lock is released on
\* every path, and a delete that drains Runs meets no new ones.
EveryRequestEnds ==
  \A t \in Ops : pc[t] \notin Ended \cup {"new"} ~> pc[t] \in Ended
=============================================================================
