------------------------------ MODULE AgentFiles ------------------------------
(***************************************************************************)
(* Agents live in two places: a record in the database and a workspace     *)
(* directory with a generated AGENTS.md.  AgentService creates, updates    *)
(* and deletes them by one step in each place and an undo when the second  *)
(* step fails.  Updates, deletes and admissions of Runs take turns by a    *)
(* lock for each Agent; a create has an id nobody knows before its commit. *)
(*                                                                         *)
(* Runs are what RunLifecycle makes of them: here an Agent is busy from an *)
(* admission to the end of the Run.                                        *)
(***************************************************************************)
EXTENDS Naturals, Sequences

CONSTANTS
  Agents,      \* ids
  Configs,     \* names, descriptions and instructions
  None,
  Creates, Updates, Deletes,  \* requests
  AgentOf,     \* the Agent that each of them is about
  InputOf,     \* what a create or an update asks for
  MaxFaults,   \* bound: failing writes and file operations
  MaxCrashes   \* bound: deaths of the server

Ops == Creates \cup Updates \cup Deletes
Lockers == Updates \cup Deletes
Statuses == {"ready", "busy", "stopped", "error"}

ASSUME AgentFilesAssumption ==
  /\ AgentOf \in [Ops -> Agents] /\ InputOf \in [Creates \cup Updates -> Configs]
  /\ Creates \cap Lockers = {} /\ Updates \cap Deletes = {}
  /\ \A t, u \in Creates : AgentOf[t] = AgentOf[u] => t = u  \* randomUUID
  /\ None \notin Configs \cup [conf : Configs, status : Statuses, lastError : BOOLEAN]
  /\ MaxFaults \in Nat /\ MaxCrashes \in Nat

VARIABLES
  record,     \* the database: [conf, status, lastError], or None
  dir,        \* a workspace: "none", "partial" while it is filled, "whole"
  archived,   \* Agents whose workspace is in .deleted
  agentsMd,   \* the configuration AGENTS.md was generated from, or None
  pc,         \* the await at which a request is
  before,     \* the record an update started from (current)
  lock,       \* agentFileOperations: holder and waiters
  cancelling, \* Agents that a delete is cancelling
  up,         \* the server runs
  faults, crashes

disk == <<dir, archived, agentsMd>>
service == <<pc, before, lock, cancelling>>
vars == <<record, disk, service, up, faults, crashes>>

\* The record of a new Agent.
Fresh(conf) == [conf |-> conf, status |-> "ready", lastError |-> FALSE]

Init ==
  /\ record = [a \in Agents |-> None]
  /\ dir = [a \in Agents |-> "none"] /\ archived = {}
  /\ agentsMd = [a \in Agents |-> None]
  /\ pc = [t \in Ops |-> "new"] /\ before = [t \in Updates |-> None]
  /\ lock = [a \in Agents |-> <<>>] /\ cancelling = {}
  /\ up = TRUE /\ faults = 0 /\ crashes = 0

-----------------------------------------------------------------------------
(* Building blocks *)

Known(a) == record[a] # None
Busy(a) == Known(a) /\ record[a].status = "busy"

At(t, s) == up /\ pc[t] = s
Goto(t, s) == pc' = [pc EXCEPT ![t] = s]

\* A record with another configuration, or in another status.
Configured(r, conf, lastError) == [conf |-> conf, status |-> r.status, lastError |-> lastError]
Moved(r, status, lastError) == [conf |-> r.conf, status |-> status, lastError |-> lastError]

\* Something fails that could have succeeded.
Fault == faults < MaxFaults /\ faults' = faults + 1

HoldsLock(t) == lock[AgentOf[t]] # <<>> /\ Head(lock[AgentOf[t]]) = t

ReleaseLock(t) == lock' = [lock EXCEPT ![AgentOf[t]] = Tail(@)]

\* Mutant of Leave: the lock is not released on the error path.
LeaveOnSuccess(t, s) ==
  /\ Goto(t, s)
  /\ lock' = IF s = "failed" THEN lock ELSE [lock EXCEPT ![AgentOf[t]] = Tail(@)]
  /\ cancelling' = IF t \in Deletes THEN cancelling \ {AgentOf[t]} ELSE cancelling
  /\ UNCHANGED before

\* The operation of t has ended: its finally clauses.
Leave(t, s) ==
  /\ Goto(t, s) /\ ReleaseLock(t)
  /\ cancelling' = IF t \in Deletes THEN cancelling \ {AgentOf[t]} ELSE cancelling
  /\ UNCHANGED before

Continue(t, s) == Goto(t, s) /\ UNCHANGED <<before, lock, cancelling>>

\* withAgentFileOperation
Queue(t) ==
  /\ t \in Lockers /\ At(t, "new")
  /\ Goto(t, "waiting")
  /\ lock' = [lock EXCEPT ![AgentOf[t]] = Append(@, t)]
  /\ UNCHANGED <<record, disk, before, cancelling, up, faults, crashes>>

-----------------------------------------------------------------------------
(* createAgent *)

MakeDirectory(t) ==
  LET a == AgentOf[t] IN
  /\ t \in Creates /\ At(t, "new")
  /\ \/ dir' = [dir EXCEPT ![a] = "partial"] /\ Continue(t, "filling") /\ UNCHANGED faults
     \/ Fault /\ Continue(t, "failed") /\ UNCHANGED dir
  /\ UNCHANGED <<record, archived, agentsMd, up, crashes>>

\* AGENTS.md first, the other files after it.
FillDirectory(t) ==
  LET a == AgentOf[t] IN
  /\ t \in Creates /\ At(t, "filling")
  /\ \/ /\ agentsMd' = [agentsMd EXCEPT ![a] = InputOf[t]]
        /\ dir' = [dir EXCEPT ![a] = "whole"]
        /\ Continue(t, "creating") /\ UNCHANGED faults
     \/ /\ Fault /\ Continue(t, "removing")
        /\ agentsMd' \in {agentsMd, [agentsMd EXCEPT ![a] = InputOf[t]]}
        /\ UNCHANGED dir
  /\ UNCHANGED <<record, archived, up, crashes>>

CommitCreate(t) ==
  LET a == AgentOf[t] IN
  /\ t \in Creates /\ At(t, "creating")
  /\ \/ /\ record' = [record EXCEPT ![a] = Fresh(InputOf[t])]
        /\ Continue(t, "done") /\ UNCHANGED faults
     \/ Fault /\ Continue(t, "removing") /\ UNCHANGED record
  /\ UNCHANGED <<disk, up, crashes>>

\* Mutant of RemoveDirectory: only a directory without AGENTS.md is removed.
RemoveEmptyDirectory(t) ==
  LET a == AgentOf[t] IN
  /\ t \in Creates /\ At(t, "removing")
  /\ dir' = IF agentsMd[a] = None THEN [dir EXCEPT ![a] = "none"] ELSE dir
  /\ Continue(t, "failed")
  /\ UNCHANGED <<record, archived, agentsMd, up, faults, crashes>>

\* The workspace goes when it could not be filled or committed.
RemoveDirectory(t) ==
  LET a == AgentOf[t] IN
  /\ t \in Creates /\ At(t, "removing")
  /\ \/ /\ dir' = [dir EXCEPT ![a] = "none"] /\ agentsMd' = [agentsMd EXCEPT ![a] = None]
        /\ UNCHANGED faults
     \/ /\ Fault /\ dir' \in {dir, [dir EXCEPT ![a] = "partial"]}
        /\ agentsMd' \in {agentsMd, [agentsMd EXCEPT ![a] = None]}
  /\ Continue(t, "failed")
  /\ UNCHANGED <<record, archived, up, crashes>>

-----------------------------------------------------------------------------
(* updateAgent *)

BeginUpdate(t) ==
  LET a == AgentOf[t] IN
  /\ t \in Updates /\ At(t, "waiting") /\ HoldsLock(t)
  /\ IF Known(a) /\ ~Busy(a)
     THEN /\ Goto(t, "updating") /\ before' = [before EXCEPT ![t] = record[a]]
          /\ UNCHANGED <<lock, cancelling>>
     ELSE Leave(t, "refused")
  /\ UNCHANGED <<record, disk, up, faults, crashes>>

CommitUpdate(t) ==
  LET a == AgentOf[t] IN
  /\ t \in Updates /\ At(t, "updating")
  /\ \/ /\ Known(a) /\ ~Busy(a)
        /\ record' = [record EXCEPT ![a] = Configured(@, InputOf[t], FALSE)]
        /\ Continue(t, "writing") /\ UNCHANGED faults
     \/ /\ ~Known(a) \/ Busy(a)
        /\ Leave(t, "refused") /\ UNCHANGED <<record, faults>>
     \/ Fault /\ Leave(t, "failed") /\ UNCHANGED record
  /\ UNCHANGED <<disk, up, crashes>>

\* The file is replaced by a rename or not at all.  It cannot be without a workspace.
WriteInstructions(t) ==
  LET a == AgentOf[t] IN
  /\ t \in Updates /\ At(t, "writing")
  /\ \/ /\ dir[a] # "none"
        /\ agentsMd' = [agentsMd EXCEPT ![a] = InputOf[t]]
        /\ Leave(t, "done") /\ UNCHANGED faults
     \/ /\ IF dir[a] = "none" THEN UNCHANGED faults ELSE Fault
        /\ Continue(t, "undoing") /\ UNCHANGED agentsMd
  /\ UNCHANGED <<record, dir, archived, up, crashes>>

\* Mutant of Undone: the whole record is put back.
UndoneWholly(t, stored) == IF stored # None THEN before[t] ELSE stored

\* The record that the undo leaves: fields are given back their values from before
\* if they still are what the update has made of them.
Undone(t, stored) ==
  IF stored # None /\ stored.conf = InputOf[t]
  THEN Configured(stored, before[t].conf,
                  IF stored.lastError THEN TRUE ELSE before[t].lastError)
  ELSE stored

UndoUpdate(t) ==
  LET a == AgentOf[t] IN
  /\ t \in Updates /\ At(t, "undoing")
  /\ \/ record' = [record EXCEPT ![a] = Undone(t, @)] /\ UNCHANGED faults
     \/ Fault /\ UNCHANGED record
  /\ Leave(t, "failed")
  /\ UNCHANGED <<disk, up, crashes>>

-----------------------------------------------------------------------------
(* deleteAgent *)

BeginDelete(t) ==
  LET a == AgentOf[t] IN
  /\ t \in Deletes /\ At(t, "waiting") /\ HoldsLock(t)
  /\ IF Known(a)
     THEN Goto(t, "draining") /\ cancelling' = cancelling \cup {a} /\ UNCHANGED <<before, lock>>
     ELSE Leave(t, "refused")
  /\ UNCHANGED <<record, disk, up, faults, crashes>>

\* cancelExecution has returned: no Run of the Agent is left.
Archive(t) ==
  LET a == AgentOf[t] IN
  /\ t \in Deletes /\ At(t, "draining") /\ ~Busy(a)
  /\ \/ /\ dir[a] # "none"
        /\ dir' = [dir EXCEPT ![a] = "none"] /\ archived' = archived \cup {a}
        /\ Continue(t, "deleting") /\ UNCHANGED faults
     \/ /\ IF dir[a] = "none" THEN UNCHANGED faults ELSE Fault
        /\ Leave(t, "failed") /\ UNCHANGED <<dir, archived>>
  /\ UNCHANGED <<record, agentsMd, up, crashes>>

CommitDelete(t) ==
  LET a == AgentOf[t] IN
  /\ t \in Deletes /\ At(t, "deleting")
  /\ \/ /\ Known(a) /\ record' = [record EXCEPT ![a] = None]
        /\ Leave(t, "done") /\ UNCHANGED faults
     \/ /\ IF Known(a) THEN Fault ELSE UNCHANGED faults
        /\ Continue(t, "restoring") /\ UNCHANGED record
  /\ UNCHANGED <<disk, up, crashes>>

\* Mutant of Restore: the archive is removed instead.
RestoreNever(t) ==
  /\ t \in Deletes /\ At(t, "restoring")
  /\ archived' = archived \ {AgentOf[t]}
  /\ Leave(t, "failed")
  /\ UNCHANGED <<record, dir, agentsMd, up, faults, crashes>>

Restore(t) ==
  LET a == AgentOf[t] IN
  /\ t \in Deletes /\ At(t, "restoring")
  /\ \/ dir' = [dir EXCEPT ![a] = "whole"] /\ archived' = archived \ {a} /\ UNCHANGED faults
     \/ Fault /\ UNCHANGED <<dir, archived>>
  /\ Leave(t, "failed")
  /\ UNCHANGED <<record, agentsMd, up, crashes>>

-----------------------------------------------------------------------------
(* Runs, stops and starts, as far as they touch the record *)

\* Mutant of Admit: the lock is not taken.
AdmitUnlocked(a) ==
  /\ up /\ a \notin cancelling
  /\ Known(a) /\ record[a].status \in {"ready", "error"}
  /\ record' = [record EXCEPT ![a] = Moved(@, "busy", FALSE)]
  /\ UNCHANGED <<disk, service, up, faults, crashes>>

\* An admission takes its turn and asks for an Agent that nobody is cancelling.
Admit(a) ==
  /\ up /\ lock[a] = <<>> /\ a \notin cancelling
  /\ Known(a) /\ record[a].status \in {"ready", "error"}
  /\ record' = [record EXCEPT ![a] = Moved(@, "busy", FALSE)]
  /\ UNCHANGED <<disk, service, up, faults, crashes>>

RunEnds(a) ==
  /\ up /\ Busy(a)
  /\ \/ record' = [record EXCEPT ![a] = Moved(@, "ready", FALSE)]
     \/ record' = [record EXCEPT ![a] = Moved(@, "error", TRUE)]
  /\ UNCHANGED <<disk, service, up, faults, crashes>>

\* A stop has drained the Agent's Runs first; a start clears the error.
SetStatus(a) ==
  /\ up /\ Known(a) /\ ~Busy(a)
  /\ \/ record' = [record EXCEPT ![a] = Moved(@, "stopped", @.lastError)]
     \/ record' = [record EXCEPT ![a] = Moved(@, "ready", FALSE)]
  /\ UNCHANGED <<disk, service, up, faults, crashes>>

-----------------------------------------------------------------------------
(* Death and restart *)

Ended == {"done", "failed", "refused", "lost"}

Crash ==
  /\ up /\ crashes < MaxCrashes
  /\ up' = FALSE /\ crashes' = crashes + 1
  /\ pc' = [t \in Ops |-> IF pc[t] \in Ended \cup {"new"} THEN pc[t] ELSE "lost"]
  /\ lock' = [a \in Agents |-> <<>>] /\ cancelling' = {}
  /\ UNCHANGED <<record, disk, before, faults>>

\* initialize refuses to start without the workspace of every Agent.
Initialize ==
  /\ ~up /\ \A a \in Agents : Known(a) => dir[a] # "none"
  /\ up' = TRUE
  /\ record' = [a \in Agents |-> IF Busy(a) THEN Moved(record[a], "ready", record[a].lastError)
                                 ELSE record[a]]
  /\ UNCHANGED <<disk, service, faults, crashes>>

Rest ==
  /\ up => \A t \in Ops : pc[t] \in Ended
  /\ UNCHANGED vars

Step(t) ==
  \/ MakeDirectory(t) \/ FillDirectory(t) \/ CommitCreate(t) \/ RemoveDirectory(t)
  \/ BeginUpdate(t) \/ CommitUpdate(t) \/ WriteInstructions(t) \/ UndoUpdate(t)
  \/ BeginDelete(t) \/ Archive(t) \/ CommitDelete(t) \/ Restore(t)

Next ==
  \/ \E t \in Ops : Queue(t) \/ Step(t)
  \/ \E a \in Agents : Admit(a) \/ RunEnds(a) \/ SetStatus(a)
  \/ Crash \/ Initialize \/ Rest

Spec == Init /\ [][Next]_vars

\* The server continues what it has begun, and Runs end (RunLifecycle).
FairSpec ==
  /\ Spec
  /\ \A t \in Ops : WF_vars(pc[t] # "new" /\ Step(t))
  /\ \A a \in Agents : WF_vars(RunEnds(a))

-----------------------------------------------------------------------------

Steps ==
  {"new", "filling", "creating", "removing", "waiting", "updating", "writing", "undoing",
   "draining", "deleting", "restoring"} \cup Ended

Records == [conf : Configs, status : Statuses, lastError : BOOLEAN] \cup {None}

\* Types of the records, the directories and the requests.
TypeOK ==
  /\ record \in [Agents -> Records]
  /\ dir \in [Agents -> {"none", "partial", "whole"}]
  /\ archived \subseteq Agents
  /\ agentsMd \in [Agents -> Configs \cup {None}]
  /\ pc \in [Ops -> Steps]
  /\ before \in [Updates -> Records]
  /\ lock \in [Agents -> Seq(Lockers)]
  /\ cancelling \subseteq Agents
  /\ up \in BOOLEAN
  /\ faults \in 0..MaxFaults /\ crashes \in 0..MaxCrashes
=============================================================================
