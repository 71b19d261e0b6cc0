-------------------------- MODULE RunnerProperties --------------------------
(***************************************************************************)
(* What must hold of a Runner.                                             *)
(***************************************************************************)
EXTENDS RunnerProcess

Ended(c) == outcome[c] # "none"

\* Where a call's Codex runs.
Working(c) == IF isolated THEN Box(c) = c ELSE child[c] = "alive"

\* Two Codex processes never work in one Agent's workspace, although calls of run,
\* cancellations and removals of the same name overlap.  With the container Runner that
\* holds also against what a dead server has left; the local Runner has no such guard.
OneCodexPerAgent ==
  isolated \/ crashes = 0 =>
    \A c, d \in Calls : AgentOf[c] = AgentOf[d] /\ Working(c) /\ Working(d) => c = d

\* A cancel that has returned true has made its Run a cancelled one: whatever else
\* ended the child first, the Run does not complete, time out or fail by its exit code.
\* A child that could never be started says so, cancelled or not.
CancelledRunsSaySo ==
  \A k \in Cancels : pc[k] = "true" =>
    outcome[target[k]] \in {"none", "cancelled", "unstarted", "lost"}

\* Whose Codex may go on for ever: its server died, or its rm --force failed, which
\* ends the engine's client and not the container.
LeftBehind(c) == Orphan(c) \/ removal[c] = "failed"

\* When cancel returns, no Codex works for its Agent: neither that of the call it has
\* found nor that of any earlier one, while the caller goes on to write "stopped" or to
\* delete the workspace.  Excepted are those that are left behind, and a call that has
\* been registered since.  This relates what cancel waits for, the end of the client, to
\* the container, which outlives its client whenever the client is killed.
CancelLeavesSilence ==
  [][\A k \in Cancels, c \in Calls :
       /\ pc'[k] \in {"true", "false"} /\ pc[k] # pc'[k]
       /\ AgentOf[c] = AgentOf[k] /\ (c = target[k] \/ active[AgentOf[k]] # c)
       => ~Working(c) \/ LeftBehind(c)]_vars

\* The name of a container belongs to the Agent, so a removal may hit the container
\* of another turn.  It does so only if that container was left behind, or if its
\* own turn has ended meanwhile: never while two turns are both in progress.
StrayRemovalsAreLate ==
  [][\A c \in Calls :
       LET d == Box(c) IN
       removal'[c] # removal[c] /\ d \notin {c, None} /\ container'[AgentOf[c]] = None =>
         Ended(c) \/ Ended(d) \/ child[d] # "alive"]_vars

\* What can keep a turn and its cancels waiting: the container of another turn was left
\* behind, by a failed removal or a dead server, and this turn's only removal was spent
\* on it.
Hindered(c) ==
  \E d \in Calls \ {c} : AgentOf[d] = AgentOf[c] /\ LeftBehind(d)

\* Every turn ends, however long Codex would have gone on, and every cancel returns,
\* although it waits for the engine and for the child.
TurnsAndCancelsEnd ==
  <>[]/\ \A c \in Calls : child[c] # "none" => Ended(c) \/ Hindered(c)
      /\ \A k \in Cancels :
           pc[k] \in {"removing", "settling"} => Hindered(target[k])
=============================================================================
