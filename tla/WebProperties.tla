---------------------------- MODULE WebProperties ----------------------------
(***************************************************************************)
(* What must hold of the Web client's session.                             *)
(***************************************************************************)
EXTENDS WebSession

Polls(t, r) == task[t].pc \in Loops /\ task[t].run = r

\* Each Run has at most one polling loop, and pollingRunIds is the set of the Runs
\* that have one: a Run that stays in it can never be polled again.
OneLoopPerRun ==
  \A r \in Runs :
    /\ r \in polling <=> \E t \in Tasks : Polls(t, r)
    /\ \A t, u \in Tasks : Polls(t, r) /\ Polls(u, r) => t = u

Settled == ref = selected /\ effectFor = ref

\* Whatever answers are still on their way, the page shows Agents of the present
\* Principal only, and of Runs only one of the Agent that is selected.
NothingForeignIsShown ==
  /\ listed \subseteq Owned(session)
  /\ {selected, ref, effectFor} \subseteq Owned(session) \cup {None}
  /\ activeRun # None => OwnerOf[AgentOf[activeRun.id]] = session
  /\ activeRun # None /\ Settled => AgentOf[activeRun.id] = ref

\* A loop whose page has not changed stops only when its Run is over or the user is
\* offered to retry, whatever fails in between; and it never goes on after MaxErrors
\* errors in a row.
LoopsEndForAReason ==
  [][\A t \in Tasks, r \in Runs :
       /\ Polls(t, r) /\ Continues(t) /\ epoch' = epoch /\ ref' = ref /\ ~Polls(t, r)' =>
            r \notin live \/ pollRetry' = r
       /\ task'[t].errors < MaxErrors]_vars

\* A retry that is offered for the Run on the page stays on offer until a loop follows
\* that Run again: while the page still shows the Run as live, and nobody has selected
\* another Agent or changed the session, no answer takes the offer away.
RetryStaysOffered ==
  [][pollRetry # None /\ activeRun = Shown(pollRetry, TRUE) =>
       \/ pollRetry' = pollRetry
       \/ activeRun' # activeRun \/ ref' # ref \/ epoch' # epoch
       \/ \E t \in Tasks : Polls(t, pollRetry)']_vars

\* Every loop ends, and every request of the user is answered.
TasksEnd ==
  <>[](\A t \in Tasks : task[t].pc \in {"idle", "done"})
=============================================================================
