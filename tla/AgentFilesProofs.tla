-------------------------- MODULE AgentFilesProofs --------------------------
(***************************************************************************)
(* For every number of Agents, requests, faults and crashes: records,      *)
(* directories and locks keep their types, and the workspace of an Agent   *)
(* with a record is in its place or in the archive.  As long as no crash   *)
(* and no second failure has come, records and files agree.                *)
(*                                                                         *)
(* None of it is inductive.  A lock can be released as whoever does so     *)
(* holds it (LockHolders), and a record undone because the update has seen *)
(* one (UpdatesBegan).  A create removes or fills a directory only as long *)
(* as there is no record (CreatesFirst), its directory is complete when it *)
(* commits (CommitsComplete), and no delete is at work on the Agent until  *)
(* then (DeletesLast).                                                     *)
(***************************************************************************)
EXTENDS AgentFilesProperties, SequenceTheorems, TLAPS

Holding == {"updating", "writing", "undoing", "draining", "deleting", "restoring"}
Uncommitted == {"new", "filling", "creating", "removing"}

LockHolders == \A t \in Lockers : pc[t] \in Holding => HoldsLock(t)

UpdatesBegan ==
  \A t \in Updates : pc[t] \in {"updating", "writing", "undoing"} => before[t] # None

CreatesFirst == \A c \in Creates : pc[c] \in Uncommitted => record[AgentOf[c]] = None

CommitsComplete == \A c \in Creates : pc[c] = "creating" => dir[AgentOf[c]] = "whole"

DeletesLast ==
  \A d \in Deletes, c \in Creates :
    pc[d] \in {"draining", "deleting", "restoring"} /\ AgentOf[c] = AgentOf[d] =>
      pc[c] \notin Uncommitted

TypeInv == TypeOK /\ LockHolders /\ UpdatesBegan
FilesInv == CreatesFirst /\ CommitsComplete /\ DeletesLast /\ WorkspacesSurvive

\* The conjuncts of TypeOK, by who writes them.
RecordOK == record \in [Agents -> Records]
DiskOK ==
  /\ dir \in [Agents -> {"none", "partial", "whole"}]
  /\ archived \subseteq Agents
  /\ agentsMd \in [Agents -> Configs \cup {None}]
PcOK == pc \in [Ops -> Steps]
LockOK == lock \in [Agents -> Seq(Lockers)]
BeforeOK == before \in [Updates -> Records]
CountersOK ==
  /\ cancelling \subseteq Agents /\ up \in BOOLEAN
  /\ faults \in 0..MaxFaults /\ crashes \in 0..MaxCrashes

LEMMA TypeParts ==
  TypeOK <=> RecordOK /\ DiskOK /\ PcOK /\ LockOK /\ BeforeOK /\ CountersOK
  BY DEF TypeOK, RecordOK, DiskOK, PcOK, LockOK, BeforeOK, CountersOK

LEMMA TypePartsNext ==
  RecordOK' /\ DiskOK' /\ PcOK' /\ LockOK' /\ BeforeOK' /\ CountersOK' => TypeOK'
  BY DEF TypeOK, RecordOK, DiskOK, PcOK, LockOK, BeforeOK, CountersOK

\* The edits that requests make of a record keep its type.
LEMMA EditedTyped ==
  ASSUME NEW r \in Records, r # None
  PROVE  /\ \A c \in Configs, e \in BOOLEAN : Configured(r, c, e) \in Records
         /\ \A s \in Statuses, e \in BOOLEAN : Moved(r, s, e) \in Records
         /\ r.conf \in Configs /\ r.lastError \in BOOLEAN
<1>1. r \in [conf : Configs, status : Statuses, lastError : BOOLEAN]
  BY DEF Records
<1>. QED
  BY <1>1 DEF Configured, Moved, Records

\* ... and leave a record.
LEMMA EditedKnown ==
  ASSUME NEW r \in Records, r # None
  PROVE  /\ \A c \in Configs, e \in BOOLEAN : Configured(r, c, e) # None
         /\ \A s \in Statuses, e \in BOOLEAN : Moved(r, s, e) # None
<1>1. r \in [conf : Configs, status : Statuses, lastError : BOOLEAN]
  BY DEF Records
<1>. QED
  BY <1>1, AgentFilesAssumption DEF Configured, Moved

\* Every request names an Agent, and its kind is one of three.
LEMMA OpsFacts ==
  /\ \A t \in Ops : AgentOf[t] \in Agents
  /\ Creates \subseteq Ops /\ Updates \subseteq Ops /\ Deletes \subseteq Ops
  /\ Lockers \subseteq Ops /\ Updates \subseteq Lockers /\ Deletes \subseteq Lockers
  /\ Creates \cap Lockers = {} /\ Updates \cap Deletes = {}
  /\ \A t \in Creates \cup Updates : InputOf[t] \in Configs
  BY AgentFilesAssumption DEF Ops, Lockers

\* One more fault is within the bound, if there is a fault.
LEMMA FaultCounts ==
  ASSUME CountersOK, Fault \/ UNCHANGED faults
  PROVE  faults' \in 0..MaxFaults
  BY AgentFilesAssumption DEF CountersOK, Fault

-----------------------------------------------------------------------------
(* The lock *)

\* Appending keeps the head of a sequence that has one.
LEMMA AppendFacts ==
  ASSUME NEW S, NEW s \in Seq(S), NEW e \in S
  PROVE  /\ Append(s, e) \in Seq(S)
         /\ s # <<>> => Append(s, e) # <<>> /\ Head(Append(s, e)) = Head(s)
<1>1. /\ Append(s, e) \in Seq(S)
      /\ Append(s, e) # <<>>
      /\ \A i \in 1 .. Len(s) : Append(s, e)[i] = s[i]
  BY AppendProperties
<1>2. ASSUME s # <<>> PROVE Head(Append(s, e)) = Head(s)
  <2>1. 1 \in 1 .. Len(s)
    BY <1>2, EmptySeq, LenProperties
  <2>. QED
    BY <1>1, <2>1
<1>. QED
  BY <1>1, <1>2

\* The tail of a sequence that has one.
LEMMA TailFacts ==
  ASSUME NEW S, NEW s \in Seq(S), s # <<>>
  PROVE  Tail(s) \in Seq(S)
  OBVIOUS

\* A request that goes on keeps its lock, and needs it at the steps of the holder.
LEMMA ContinueKeeps ==
  ASSUME TypeInv, NEW t \in Ops, NEW s \in Steps, Goto(t, s), UNCHANGED lock,
         t \in Lockers /\ s \in Holding => HoldsLock(t)
  PROVE  PcOK' /\ LockOK' /\ LockHolders'
  BY DEF TypeInv, TypeOK, PcOK, LockOK, LockHolders, HoldsLock, Goto

\* A request that leaves held the lock, and nobody else of its Agent did.
LEMMA LeaveKeeps ==
  ASSUME TypeInv, NEW t \in Lockers, NEW s \in Ended, Leave(t, s), HoldsLock(t)
  PROVE  PcOK' /\ LockOK' /\ LockHolders' /\ BeforeOK' /\ cancelling' \subseteq Agents
<1>1. t \in Ops /\ AgentOf[t] \in Agents /\ s \in Steps /\ s \notin Holding
  BY OpsFacts DEF Ended, Steps, Holding
<1>2. PcOK'
  BY <1>1 DEF TypeInv, TypeOK, PcOK, Leave, Goto
<1>3. Tail(lock[AgentOf[t]]) \in Seq(Lockers)
  BY <1>1, TailFacts DEF TypeInv, TypeOK, HoldsLock
<1>4. LockOK'
  BY <1>1, <1>3 DEF TypeInv, TypeOK, LockOK, Leave, ReleaseLock
<1>5. LockHolders'
  <2>. SUFFICES ASSUME NEW u \in Lockers, pc'[u] \in Holding
                PROVE  HoldsLock(u)'
    BY DEF LockHolders
  <2>1. u # t /\ pc[u] \in Holding
    BY <1>1, OpsFacts DEF TypeInv, TypeOK, Leave, Goto
  <2>2. HoldsLock(u)
    BY <2>1 DEF TypeInv, LockHolders
  <2>3. AgentOf[u] # AgentOf[t]
    BY <2>1, <2>2 DEF HoldsLock
  <2>4. lock'[AgentOf[u]] = lock[AgentOf[u]]
    BY <2>3, OpsFacts DEF TypeInv, TypeOK, Leave, ReleaseLock
  <2>. QED
    BY <2>2, <2>4 DEF HoldsLock
<1>6. BeforeOK' /\ cancelling' \subseteq Agents
  BY DEF TypeInv, TypeOK, BeforeOK, Leave
<1>. QED
  BY <1>2, <1>4, <1>5, <1>6

\* A request that queues joins at the end.
LEMMA QueueKeeps ==
  ASSUME TypeInv, NEW t \in Ops, Queue(t)
  PROVE  PcOK' /\ LockOK' /\ LockHolders'
<1>1. t \in Lockers /\ AgentOf[t] \in Agents /\ "waiting" \in Steps /\ "waiting" \notin Holding
  BY OpsFacts DEF Queue, Steps, Holding
<1>2. PcOK'
  BY <1>1 DEF TypeInv, TypeOK, PcOK, Queue, Goto
<1>3. LockOK'
  BY <1>1, AppendFacts DEF TypeInv, TypeOK, LockOK, Queue
<1>4. LockHolders'
  <2>. SUFFICES ASSUME NEW u \in Lockers, pc'[u] \in Holding
                PROVE  HoldsLock(u)'
    BY DEF LockHolders
  <2>1. HoldsLock(u)
    BY <1>1, OpsFacts DEF TypeInv, TypeOK, LockHolders, Queue, Goto
  <2>2. lock[AgentOf[u]] \in Seq(Lockers)
    BY OpsFacts DEF TypeInv, TypeOK
  <2>3. \/ lock'[AgentOf[u]] = lock[AgentOf[u]]
        \/ lock'[AgentOf[u]] = Append(lock[AgentOf[u]], t)
    BY <1>1, OpsFacts DEF TypeInv, TypeOK, Queue
  <2>. QED
    BY <1>1, <2>1, <2>2, <2>3, AppendFacts DEF HoldsLock
<1>. QED
  BY <1>2, <1>3, <1>4

-----------------------------------------------------------------------------
(* The type invariant *)

\* Nobody has begun anything, and no lock is taken.
LEMMA InitTypeInv == Init => TypeInv
<1>. SUFFICES ASSUME Init PROVE TypeInv
  OBVIOUS
<1>1. RecordOK /\ DiskOK /\ PcOK /\ BeforeOK /\ CountersOK
  BY AgentFilesAssumption
  DEF Init, RecordOK, DiskOK, PcOK, BeforeOK, CountersOK, Records, Steps
<1>2. LockOK
  BY EmptySeq DEF Init, LockOK
<1>3. LockHolders /\ UpdatesBegan
  BY OpsFacts DEF Init, LockHolders, UpdatesBegan, Holding
<1>. QED
  BY <1>1, <1>2, <1>3, TypeParts DEF TypeInv

\* A create needs no lock.
LEMMA CreateTyped ==
  ASSUME TypeInv, NEW t \in Ops,
         MakeDirectory(t) \/ FillDirectory(t) \/ CommitCreate(t) \/ RemoveDirectory(t)
  PROVE  TypeInv'
<1>0. t \in Creates /\ t \notin Lockers /\ AgentOf[t] \in Agents /\ InputOf[t] \in Configs
  BY OpsFacts DEF MakeDirectory, FillDirectory, CommitCreate, RemoveDirectory
<1>1. /\ UNCHANGED <<before, lock, cancelling, up, crashes>>
      /\ \E s \in {"filling", "failed", "creating", "removing", "done"} : Goto(t, s)
  BY DEF MakeDirectory, FillDirectory, CommitCreate, RemoveDirectory, Continue
<1>2. PcOK' /\ LockOK' /\ LockHolders'
  BY <1>0, <1>1, ContinueKeeps DEF Steps, Ended
<1>3. DiskOK'
  BY <1>0 DEF TypeInv, TypeOK, DiskOK, MakeDirectory, FillDirectory, CommitCreate,
              RemoveDirectory, disk
<1>4. RecordOK'
  <2>1. Fresh(InputOf[t]) \in Records
    BY <1>0 DEF Fresh, Records, Statuses
  <2>. QED
    BY <1>0, <2>1 DEF TypeInv, TypeOK, RecordOK, MakeDirectory, FillDirectory, CommitCreate,
                      RemoveDirectory
<1>5. CountersOK'
  <2>1. Fault \/ UNCHANGED faults
    BY DEF MakeDirectory, FillDirectory, CommitCreate, RemoveDirectory
  <2>2. CountersOK
    BY TypeParts DEF TypeInv
  <2>. QED
    BY <1>1, <2>1, <2>2, FaultCounts DEF CountersOK
<1>6. BeforeOK' /\ UpdatesBegan'
  BY <1>0, <1>1, OpsFacts DEF TypeInv, TypeOK, BeforeOK, UpdatesBegan, Goto
<1>. QED
  BY <1>2, <1>3, <1>4, <1>5, <1>6, TypePartsNext DEF TypeInv

\* Every later step of an update or a delete is one of the holder of the lock.
LEMMA StepperHolds ==
  ASSUME TypeInv, NEW t \in Lockers, pc[t] \in Holding
  PROVE  HoldsLock(t)
  BY DEF TypeInv, LockHolders

\* What an update may do to the record.
LEMMA UndoneTyped ==
  ASSUME NEW t \in Updates, before[t] \in Records, before[t] # None,
         NEW stored \in Records
  PROVE  Undone(t, stored) \in Records
<1>1. CASE stored # None
  <2>1. before[t].conf \in Configs /\ before[t].lastError \in BOOLEAN
    BY EditedTyped
  <2>2. \A e \in BOOLEAN : Configured(stored, before[t].conf, e) \in Records
    BY <2>1, <1>1, EditedTyped
  <2>. QED
    BY <2>1, <2>2 DEF Undone
<1>. QED
  BY <1>1 DEF Undone

LEMMA UpdateTyped ==
  ASSUME TypeInv, NEW t \in Ops,
         BeginUpdate(t) \/ CommitUpdate(t) \/ WriteInstructions(t) \/ UndoUpdate(t)
  PROVE  TypeInv'
<1>0. /\ t \in Updates /\ t \in Lockers /\ t \notin Deletes
      /\ AgentOf[t] \in Agents /\ InputOf[t] \in Configs
  BY OpsFacts DEF BeginUpdate, CommitUpdate, WriteInstructions, UndoUpdate
<1>1. HoldsLock(t)
  BY <1>0, StepperHolds
  DEF BeginUpdate, CommitUpdate, WriteInstructions, UndoUpdate, At, Holding
<1>2. \/ \E s \in {"done", "failed", "refused"} : Leave(t, s)
      \/ \E s \in {"writing", "undoing"} : Continue(t, s) /\ pc[t] \in {"updating", "writing"}
      \/ /\ Goto(t, "updating") /\ UNCHANGED <<lock, cancelling>>
         /\ Known(AgentOf[t]) /\ before' = [before EXCEPT ![t] = record[AgentOf[t]]]
  BY DEF BeginUpdate, CommitUpdate, WriteInstructions, UndoUpdate, At
<1>3. PcOK' /\ LockOK' /\ LockHolders' /\ cancelling' \subseteq Agents
  <2>1. CASE \E s \in {"done", "failed", "refused"} : Leave(t, s)
    BY <2>1, <1>0, <1>1, LeaveKeeps DEF Ended
  <2>2. CASE \E s \in {"writing", "undoing"} : Continue(t, s)
    BY <2>2, <1>0, <1>1, OpsFacts, ContinueKeeps DEF Continue, Steps, TypeInv, TypeOK
  <2>3. CASE Goto(t, "updating") /\ UNCHANGED <<lock, cancelling>>
    BY <2>3, <1>0, <1>1, OpsFacts, ContinueKeeps DEF Steps, TypeInv, TypeOK
  <2>. QED
    BY <1>2, <2>1, <2>2, <2>3
<1>4. BeforeOK' /\ UpdatesBegan'
  <2>1. CASE \E s \in {"done", "failed", "refused"} : Leave(t, s)
    BY <2>1, <1>0, OpsFacts DEF Leave, Goto, TypeInv, TypeOK, BeforeOK, UpdatesBegan
  <2>2. CASE \E s \in {"writing", "undoing"} : Continue(t, s) /\ pc[t] \in {"updating", "writing"}
    BY <2>2, <1>0, OpsFacts DEF Continue, Goto, TypeInv, TypeOK, BeforeOK, UpdatesBegan
  <2>3. CASE /\ Goto(t, "updating")
             /\ Known(AgentOf[t]) /\ before' = [before EXCEPT ![t] = record[AgentOf[t]]]
    BY <2>3, <1>0, OpsFacts DEF Known, Goto, TypeInv, TypeOK, BeforeOK, UpdatesBegan
  <2>. QED
    BY <1>2, <2>1, <2>2, <2>3
<1>5. DiskOK'
  BY <1>0 DEF TypeInv, TypeOK, DiskOK, BeginUpdate, CommitUpdate, WriteInstructions,
              UndoUpdate, disk
<1>6. RecordOK'
  <2>1. CASE UndoUpdate(t)
    <3>1. before[t] \in Records /\ before[t] # None
      BY <2>1, <1>0 DEF UndoUpdate, At, TypeInv, TypeOK, UpdatesBegan
    <3>2. Undone(t, record[AgentOf[t]]) \in Records
      BY <3>1, <1>0, UndoneTyped DEF TypeInv, TypeOK
    <3>. QED
      BY <3>2, <2>1, <1>0 DEF UndoUpdate, TypeInv, TypeOK, RecordOK
  <2>2. CASE CommitUpdate(t)
    <3>1. ASSUME Known(AgentOf[t])
          PROVE  Configured(record[AgentOf[t]], InputOf[t], FALSE) \in Records
      BY <3>1, <1>0, EditedTyped DEF Known, TypeInv, TypeOK
    <3>. QED
      BY <2>2, <3>1, <1>0 DEF CommitUpdate, TypeInv, TypeOK, RecordOK
  <2>3. CASE UNCHANGED record
    BY <2>3 DEF TypeInv, TypeOK, RecordOK
  <2>. QED
    BY <2>1, <2>2, <2>3 DEF BeginUpdate, WriteInstructions
<1>7. CountersOK'
  <2>1. /\ Fault \/ UNCHANGED faults
        /\ UNCHANGED <<up, crashes>>
    BY DEF BeginUpdate, CommitUpdate, WriteInstructions, UndoUpdate
  <2>2. CountersOK
    BY TypeParts DEF TypeInv
  <2>. QED
    BY <1>3, <2>1, <2>2, FaultCounts DEF CountersOK
<1>. QED
  BY <1>3, <1>4, <1>5, <1>6, <1>7, TypePartsNext DEF TypeInv

LEMMA DeleteTyped ==
  ASSUME TypeInv, NEW t \in Ops,
         BeginDelete(t) \/ Archive(t) \/ CommitDelete(t) \/ Restore(t)
  PROVE  TypeInv'
<1>0. t \in Deletes /\ t \in Lockers /\ t \notin Updates /\ AgentOf[t] \in Agents
  BY OpsFacts DEF BeginDelete, Archive, CommitDelete, Restore
<1>1. HoldsLock(t)
  BY <1>0, StepperHolds DEF BeginDelete, Archive, CommitDelete, Restore, At, Holding
<1>2. \/ \E s \in {"done", "failed", "refused"} : Leave(t, s)
      \/ \E s \in {"draining", "deleting", "restoring"} :
           /\ Goto(t, s) /\ UNCHANGED <<before, lock>>
           /\ cancelling' \subseteq cancelling \cup {AgentOf[t]}
  BY DEF BeginDelete, Archive, CommitDelete, Restore, Continue
<1>3. PcOK' /\ LockOK' /\ LockHolders' /\ BeforeOK' /\ cancelling' \subseteq Agents
  <2>1. CASE \E s \in {"done", "failed", "refused"} : Leave(t, s)
    BY <2>1, <1>0, <1>1, LeaveKeeps DEF Ended
  <2>2. CASE \E s \in {"draining", "deleting", "restoring"} :
               /\ Goto(t, s) /\ UNCHANGED <<before, lock>>
               /\ cancelling' \subseteq cancelling \cup {AgentOf[t]}
    <3>1. PcOK' /\ LockOK' /\ LockHolders'
      BY <2>2, <1>0, <1>1, OpsFacts, ContinueKeeps DEF Steps
    <3>2. BeforeOK' /\ cancelling' \subseteq Agents
      BY <2>2, <1>0 DEF TypeInv, TypeOK, BeforeOK
    <3>. QED
      BY <3>1, <3>2
  <2>. QED
    BY <1>2, <2>1, <2>2
<1>4. UpdatesBegan'
  BY <1>0, <1>2, OpsFacts DEF Leave, Goto, TypeInv, TypeOK, UpdatesBegan
<1>5. DiskOK'
  BY <1>0 DEF TypeInv, TypeOK, DiskOK, BeginDelete, Archive, CommitDelete, Restore, disk
<1>6. RecordOK'
  BY <1>0 DEF TypeInv, TypeOK, RecordOK, Records, BeginDelete, Archive, CommitDelete, Restore
<1>7. CountersOK'
  <2>1. /\ Fault \/ UNCHANGED faults
        /\ UNCHANGED <<up, crashes>>
    BY DEF BeginDelete, Archive, CommitDelete, Restore
  <2>2. CountersOK
    BY TypeParts DEF TypeInv
  <2>. QED
    BY <1>3, <2>1, <2>2, FaultCounts DEF CountersOK
<1>. QED
  BY <1>3, <1>4, <1>5, <1>6, <1>7, TypePartsNext DEF TypeInv

\* Runs, stops and starts change the status and the error of a record.
LEMMA AgentTyped ==
  ASSUME TypeInv, NEW a \in Agents, Admit(a) \/ RunEnds(a) \/ SetStatus(a)
  PROVE  TypeInv'
<1>1. Known(a) /\ record[a] \in Records
  BY DEF Admit, RunEnds, SetStatus, Busy, TypeInv, TypeOK
<1>2. RecordOK'
  <2>1. \A s \in Statuses, e \in BOOLEAN :
          Moved(record[a], s, e) \in Records
    BY <1>1, EditedTyped DEF Known
  <2>2. record[a].lastError \in BOOLEAN
    BY <1>1, EditedTyped DEF Known
  <2>3. \E r \in Records : record' = [record EXCEPT ![a] = r]
    BY <2>1, <2>2 DEF Admit, RunEnds, SetStatus, Statuses
  <2>. QED
    BY <2>3 DEF TypeInv, TypeOK, RecordOK
<1>3. UNCHANGED <<disk, service, up, faults, crashes>>
  BY DEF Admit, RunEnds, SetStatus
<1>4. DiskOK' /\ PcOK' /\ LockOK' /\ BeforeOK' /\ CountersOK'
  BY <1>3, TypeParts
  DEF TypeInv, DiskOK, PcOK, LockOK, BeforeOK, CountersOK, disk, service
<1>5. LockHolders' /\ UpdatesBegan'
  BY <1>3 DEF TypeInv, LockHolders, HoldsLock, UpdatesBegan, service
<1>. QED
  BY <1>2, <1>4, <1>5, TypePartsNext DEF TypeInv

\* A dead server holds no locks.
LEMMA CrashTyped ==
  ASSUME TypeInv, Crash
  PROVE  TypeInv'
<1>1. RecordOK' /\ DiskOK' /\ BeforeOK'
  BY DEF Crash, TypeInv, TypeOK, RecordOK, DiskOK, BeforeOK, disk
<1>2. PcOK' /\ (\A t \in Ops : pc'[t] \in Ended \cup {"new"})
  BY DEF Crash, TypeInv, TypeOK, PcOK, Steps, Ended
<1>3. LockOK'
  BY EmptySeq DEF Crash, LockOK
<1>4. CountersOK'
  <2>1. crashes' \in 0..MaxCrashes
    BY AgentFilesAssumption DEF Crash, TypeInv, TypeOK
  <2>. QED
    BY <2>1 DEF Crash, TypeInv, TypeOK, CountersOK
<1>5. LockHolders' /\ UpdatesBegan'
  BY <1>2, OpsFacts DEF LockHolders, UpdatesBegan, Holding, Ended
<1>. QED
  BY <1>1, <1>2, <1>3, <1>4, <1>5, TypePartsNext DEF TypeInv

LEMMA InitializeTyped ==
  ASSUME TypeInv, Initialize
  PROVE  TypeInv'
<1>1. RecordOK'
  <2>1. \A a \in Agents : Busy(a) => Moved(record[a], "ready", record[a].lastError) \in Records
    BY EditedTyped DEF Busy, Known, TypeInv, TypeOK, Statuses
  <2>. QED
    BY <2>1 DEF Initialize, TypeInv, TypeOK, RecordOK
<1>2. DiskOK' /\ PcOK' /\ LockOK' /\ BeforeOK' /\ CountersOK'
  BY TypeParts
  DEF Initialize, TypeInv, DiskOK, PcOK, LockOK, BeforeOK, CountersOK, disk, service
<1>3. LockHolders' /\ UpdatesBegan'
  BY DEF Initialize, TypeInv, LockHolders, HoldsLock, UpdatesBegan, service
<1>. QED
  BY <1>1, <1>2, <1>3, TypePartsNext DEF TypeInv

\* A request that joins the lock.
LEMMA QueueTyped ==
  ASSUME TypeInv, NEW t \in Ops, Queue(t)
  PROVE  TypeInv'
<1>1. PcOK' /\ LockOK' /\ LockHolders'
  BY QueueKeeps
<1>2. RecordOK' /\ DiskOK' /\ BeforeOK' /\ CountersOK'
  BY DEF Queue, TypeInv, TypeOK, RecordOK, DiskOK, BeforeOK, CountersOK, disk
<1>3. UpdatesBegan'
  BY OpsFacts DEF Queue, Goto, TypeInv, TypeOK, UpdatesBegan
<1>. QED
  BY <1>1, <1>2, <1>3, TypePartsNext DEF TypeInv

LEMMA TypeInvInductive == TypeInv /\ [Next]_vars => TypeInv'
<1>. SUFFICES ASSUME TypeInv, [Next]_vars PROVE TypeInv'
  OBVIOUS
<1>1. ASSUME NEW t \in Ops, Queue(t) PROVE TypeInv'
  BY <1>1, QueueTyped
<1>2. ASSUME NEW t \in Ops, Step(t) PROVE TypeInv'
  BY <1>2, CreateTyped, UpdateTyped, DeleteTyped DEF Step
<1>3. ASSUME NEW a \in Agents, Admit(a) \/ RunEnds(a) \/ SetStatus(a) PROVE TypeInv'
  BY <1>3, AgentTyped
<1>4. CASE Crash
  BY <1>4, CrashTyped
<1>5. CASE Initialize
  BY <1>5, InitializeTyped
<1>6. CASE UNCHANGED vars
  <2>1. RecordOK' /\ DiskOK' /\ PcOK' /\ LockOK' /\ BeforeOK' /\ CountersOK'
    BY <1>6, TypeParts
    DEF vars, TypeInv, RecordOK, DiskOK, PcOK, LockOK, BeforeOK, CountersOK, disk, service
  <2>2. LockHolders' /\ UpdatesBegan'
    BY <1>6 DEF vars, service, TypeInv, LockHolders, HoldsLock, UpdatesBegan
  <2>. QED
    BY <2>1, <2>2, TypePartsNext DEF TypeInv
<1>. QED
  BY <1>1, <1>2, <1>3, <1>4, <1>5, <1>6 DEF Next, Rest

\* Records, directories, requests and locks keep their types, for every number of
\* requests, faults and crashes; a lock that is released has a holder.
THEOREM FilesTypeCorrect == Spec => []TypeOK
<1>1. TypeInv => TypeOK
  BY DEF TypeInv
<1>. QED
  BY <1>1, InitTypeInv, TypeInvInductive, PTL DEF Spec

-----------------------------------------------------------------------------
(* Workspaces *)

LEMMA InitFilesInv == Init => FilesInv
  BY OpsFacts
  DEF Init, FilesInv, CreatesFirst, CommitsComplete, DeletesLast, WorkspacesSurvive, Known

\* A create works on a directory of its own.
LEMMA CreateKeepsFiles ==
  ASSUME TypeInv, FilesInv, NEW t \in Ops,
         MakeDirectory(t) \/ FillDirectory(t) \/ CommitCreate(t) \/ RemoveDirectory(t)
  PROVE  FilesInv'
<1>0. /\ t \in Creates /\ t \notin Deletes /\ AgentOf[t] \in Agents
      /\ pc[t] \in Uncommitted
      /\ \A c \in Creates : AgentOf[c] = AgentOf[t] => c = t
      /\ \A c \in Creates : c \in Ops /\ AgentOf[c] \in Agents
      /\ \A d \in Deletes : d \in Ops
  BY OpsFacts, AgentFilesAssumption
  DEF MakeDirectory, FillDirectory, CommitCreate, RemoveDirectory, At, Uncommitted
<1>1. record[AgentOf[t]] = None
  BY <1>0 DEF FilesInv, CreatesFirst
<1>2. CASE MakeDirectory(t) \/ FillDirectory(t)
  <2>1. /\ UNCHANGED <<record, archived>>
        /\ \E s : Goto(t, s)
        /\ pc'[t] = "creating" => dir'[AgentOf[t]] = "whole"
        /\ \A a \in Agents : a # AgentOf[t] => dir'[a] = dir[a]
    BY <1>0, <1>2 DEF MakeDirectory, FillDirectory, Continue, Goto, TypeInv, TypeOK
  <2>2. \A u \in Ops : u # t => pc'[u] = pc[u]
    BY <2>1 DEF Goto, TypeInv, TypeOK
  <2>3. CreatesFirst'
    BY <1>0, <1>1, <2>1, <2>2 DEF FilesInv, CreatesFirst
  <2>4. CommitsComplete'
    BY <1>0, <2>1, <2>2 DEF FilesInv, CommitsComplete
  <2>5. DeletesLast'
    BY <1>0, <2>2 DEF FilesInv, DeletesLast
  <2>6. WorkspacesSurvive'
    BY <1>0, <1>1, <2>1 DEF FilesInv, WorkspacesSurvive, Known
  <2>. QED
    BY <2>3, <2>4, <2>5, <2>6 DEF FilesInv
<1>4. CASE CommitCreate(t)
  BY <1>0, <1>1, <1>4
  DEF CommitCreate, Continue, Goto, At, TypeInv, TypeOK, FilesInv, CreatesFirst,
      CommitsComplete, DeletesLast, WorkspacesSurvive, Known, Uncommitted, disk
<1>5. CASE RemoveDirectory(t)
  BY <1>0, <1>1, <1>5
  DEF RemoveDirectory, Continue, Goto, At, TypeInv, TypeOK, FilesInv, CreatesFirst,
      CommitsComplete, DeletesLast, WorkspacesSurvive, Known, Uncommitted
<1>. QED
  BY <1>2, <1>4, <1>5

\* A step that makes no record and touches no directory, and moves no create and
\* no delete, keeps the files.
LEMMA SteadyFiles ==
  ASSUME FilesInv, UNCHANGED <<dir, archived>>,
         \A a \in Agents : Known(a)' => Known(a),
         \A t \in Creates : pc'[t] = pc[t] \/ pc'[t] = "lost",
         \A t \in Deletes : pc'[t] = pc[t] \/ pc'[t] \notin {"draining", "deleting", "restoring"}
  PROVE  FilesInv'
<1>1. \A t \in Creates : AgentOf[t] \in Agents
  BY OpsFacts
<1>. QED
  BY <1>1 DEF FilesInv, CreatesFirst, CommitsComplete, DeletesLast, WorkspacesSurvive,
              Known, Uncommitted

LEMMA UpdateKeepsFiles ==
  ASSUME TypeInv, FilesInv, NEW t \in Ops,
         BeginUpdate(t) \/ CommitUpdate(t) \/ WriteInstructions(t) \/ UndoUpdate(t)
  PROVE  FilesInv'
<1>0. t \in Updates /\ t \notin Creates /\ t \notin Deletes /\ AgentOf[t] \in Agents
  BY OpsFacts DEF BeginUpdate, CommitUpdate, WriteInstructions, UndoUpdate
<1>1. UNCHANGED <<dir, archived>>
  BY DEF BeginUpdate, CommitUpdate, WriteInstructions, UndoUpdate, disk
<1>2. \E s : Goto(t, s)
  BY DEF BeginUpdate, CommitUpdate, WriteInstructions, UndoUpdate, Leave, Continue
<1>3. \A a \in Agents : Known(a)' => Known(a)
  BY <1>0 DEF BeginUpdate, CommitUpdate, WriteInstructions, UndoUpdate, Undone, Known,
              TypeInv, TypeOK
<1>4. \A u \in Creates \cup Deletes : pc'[u] = pc[u]
  BY <1>0, <1>2, OpsFacts DEF Goto, TypeInv, TypeOK
<1>. QED
  BY <1>1, <1>3, <1>4, SteadyFiles

\* A delete works on an Agent whose create is over.
LEMMA DeleteKeepsFiles ==
  ASSUME TypeInv, FilesInv, NEW t \in Ops,
         BeginDelete(t) \/ Archive(t) \/ CommitDelete(t) \/ Restore(t)
  PROVE  FilesInv'
<1>0. /\ t \in Deletes /\ t \notin Creates /\ AgentOf[t] \in Agents
      /\ \A c \in Creates : c \in Ops /\ AgentOf[c] \in Agents /\ c # t
      /\ \A d \in Deletes : d \in Ops
  BY OpsFacts DEF BeginDelete, Archive, CommitDelete, Restore
<1>1. \E s : Goto(t, s)
  BY DEF BeginDelete, Archive, CommitDelete, Restore, Leave, Continue
<1>2. \A c \in Creates : pc'[c] = pc[c]
  BY <1>0, <1>1 DEF Goto, TypeInv, TypeOK
<1>3. \A c \in Creates : AgentOf[c] = AgentOf[t] /\ pc'[t] \in {"draining", "deleting", "restoring"}
                           => pc[c] \notin Uncommitted
  BY <1>0 DEF BeginDelete, Archive, CommitDelete, Restore, Leave, Continue, Goto, At, Known,
              FilesInv, CreatesFirst, DeletesLast, TypeInv, TypeOK
<1>4. DeletesLast'
  BY <1>0, <1>1, <1>2, <1>3 DEF FilesInv, DeletesLast, Goto, TypeInv, TypeOK
<1>5. /\ \A a \in Agents : Known(a)' => Known(a)
      /\ \A a \in Agents : dir'[a] # dir[a] => a = AgentOf[t] /\ t \in Deletes
                                               /\ pc[t] \in {"draining", "restoring"}
  BY <1>0 DEF BeginDelete, Archive, CommitDelete, Restore, Known, At, TypeInv, TypeOK, disk
<1>6. CreatesFirst'
  BY <1>0, <1>2, <1>5 DEF FilesInv, CreatesFirst, Known
<1>7. CommitsComplete'
  BY <1>0, <1>2, <1>5 DEF FilesInv, CommitsComplete, DeletesLast, Uncommitted
<1>8. WorkspacesSurvive'
  <2>1. CASE UNCHANGED <<dir, archived>>
    BY <1>5, <2>1 DEF FilesInv, WorkspacesSurvive, Known
  <2>2. CASE Archive(t)
    BY <1>0, <2>2 DEF Archive, FilesInv, WorkspacesSurvive, Known, TypeInv, TypeOK
  <2>3. CASE Restore(t)
    BY <1>0, <2>3 DEF Restore, FilesInv, WorkspacesSurvive, Known, TypeInv, TypeOK
  <2>. QED
    BY <2>1, <2>2, <2>3 DEF BeginDelete, CommitDelete, disk
<1>. QED
  BY <1>4, <1>6, <1>7, <1>8 DEF FilesInv

LEMMA FilesInvInductive == TypeInv /\ FilesInv /\ [Next]_vars => FilesInv'
<1>. SUFFICES ASSUME TypeInv, FilesInv, [Next]_vars PROVE FilesInv'
  OBVIOUS
<1>1. ASSUME NEW t \in Ops, Queue(t) PROVE FilesInv'
  <2>1. /\ UNCHANGED <<dir, archived, record>>
        /\ t \in Lockers /\ t \notin Creates /\ Goto(t, "waiting")
    BY <1>1, OpsFacts DEF Queue, disk
  <2>2. \A u \in Ops : pc'[u] = pc[u] \/ (u = t /\ pc'[u] = "waiting")
    BY <2>1 DEF Goto, TypeInv, TypeOK
  <2>. QED
    BY <2>1, <2>2, OpsFacts, SteadyFiles DEF Known
<1>2. ASSUME NEW t \in Ops, Step(t) PROVE FilesInv'
  BY <1>2, CreateKeepsFiles, UpdateKeepsFiles, DeleteKeepsFiles DEF Step
<1>3. ASSUME NEW a \in Agents, Admit(a) \/ RunEnds(a) \/ SetStatus(a) PROVE FilesInv'
  <2>1. UNCHANGED <<dir, archived, pc>>
    BY <1>3 DEF Admit, RunEnds, SetStatus, disk, service
  <2>2. \A b \in Agents : Known(b)' => Known(b)
    BY <1>3 DEF Admit, RunEnds, SetStatus, Busy, Known, TypeInv, TypeOK
  <2>. QED
    BY <2>1, <2>2, SteadyFiles
<1>4. CASE Crash
  <2>1. UNCHANGED <<dir, archived, record>>
    BY <1>4 DEF Crash, disk
  <2>2. \A u \in Ops : pc'[u] = pc[u] \/ pc'[u] = "lost"
    BY <1>4 DEF Crash
  <2>. QED
    BY <2>1, <2>2, OpsFacts, SteadyFiles DEF Known
<1>5. CASE Initialize
  <2>1. UNCHANGED <<dir, archived, pc>>
    BY <1>5 DEF Initialize, disk, service
  <2>2. \A b \in Agents : Known(b)' => Known(b)
    BY <1>5 DEF Initialize, Busy, Known
  <2>. QED
    BY <2>1, <2>2, SteadyFiles
<1>6. CASE UNCHANGED vars
  BY <1>6, SteadyFiles DEF vars, disk, service, Known
<1>. QED
  BY <1>1, <1>2, <1>3, <1>4, <1>5, <1>6 DEF Next, Rest

\* Whatever create, update and delete do, fail to do or are interrupted in, the
\* workspace of every Agent with a record is complete in its place or archived.
THEOREM WorkspacesAlwaysSurvive == Spec => []WorkspacesSurvive
<1>1. FilesInv => WorkspacesSurvive
  BY DEF FilesInv
<1>. QED
  BY <1>1, InitTypeInv, TypeInvInductive, InitFilesInv, FilesInvInductive, PTL DEF Spec

-----------------------------------------------------------------------------
(***************************************************************************)
(* An undisturbed server.  Whoever is between two steps at an Agent knows  *)
(* what the first one has done (UpdatesMid, DeletesMid, CreatesMid) and,   *)
(* when it undoes that, has met the one failure there is.  Where nobody is *)
(* between two steps, the record and the files agree (Current, Complete,   *)
(* NoLeftovers).                                                           *)
(***************************************************************************)

Rewriting == {"writing", "undoing"}
Moving == {"deleting", "restoring"}
Making == {"filling", "creating", "removing"}

UpdatesMid(a) ==
  \A u \in Updates : AgentOf[u] = a =>
    /\ pc[u] \in Rewriting \cup {"updating"} => Known(a) /\ ~Busy(a)
    /\ pc[u] = "updating" => before[u].conf = record[a].conf
    /\ pc[u] \in Rewriting => record[a].conf = InputOf[u] /\ agentsMd[a] = before[u].conf
    /\ pc[u] = "undoing" => faults = 1

DeletesMid(a) ==
  \A d \in Deletes : AgentOf[d] = a =>
    /\ pc[d] \in Moving \cup {"draining"} => Known(a)
    /\ pc[d] \in Moving => ~Busy(a) /\ dir[a] = "none"
    /\ pc[d] = "restoring" => faults = 1

CreatesMid(a) ==
  \A c \in Creates : AgentOf[c] = a =>
    /\ pc[c] = "new" => dir[a] = "none"
    /\ pc[c] = "creating" => agentsMd[a] = InputOf[c]
    /\ pc[c] = "removing" => faults = 1

\* The record is what AGENTS.md was generated from.
Current(a) ==
  Known(a) /\ (\A u \in Updates : AgentOf[u] = a => pc[u] \notin Rewriting) =>
    agentsMd[a] = record[a].conf

\* An Agent with a record has its workspace.
Complete(a) ==
  Known(a) /\ (\A d \in Deletes : AgentOf[d] = a => pc[d] \notin Moving) => dir[a] = "whole"

\* One without has none.
NoLeftovers(a) ==
  ~Known(a) /\ (\A c \in Creates : AgentOf[c] = a => pc[c] \notin Making) => dir[a] = "none"

CalmAt(a) ==
  UpdatesMid(a) /\ DeletesMid(a) /\ CreatesMid(a) /\ Current(a) /\ Complete(a) /\ NoLeftovers(a)

CalmInv == Undisturbed => up /\ \A a \in Agents : CalmAt(a)

\* There is no way back to an undisturbed server, and it has met one failure at most.
LEMMA CalmBefore ==
  ASSUME TypeInv, [Next]_vars, Undisturbed'
  PROVE  /\ Undisturbed /\ faults \in Nat /\ faults' \in Nat
         /\ faults = 1 => faults' = 1
         /\ Fault => faults = 0 /\ faults' = 1
<1>1. faults' \in {faults, faults + 1} /\ crashes' \in {crashes, crashes + 1}
  <2>1. ASSUME NEW t \in Ops, Queue(t) \/ Step(t)
        PROVE  faults' \in {faults, faults + 1} /\ crashes' = crashes
    BY <2>1 DEF Queue, Step, MakeDirectory, FillDirectory, CommitCreate, RemoveDirectory,
       BeginUpdate, CommitUpdate, WriteInstructions, UndoUpdate, BeginDelete, Archive,
       CommitDelete, Restore, Fault
  <2>2. ASSUME NEW a \in Agents, Admit(a) \/ RunEnds(a) \/ SetStatus(a)
        PROVE  faults' = faults /\ crashes' = crashes
    BY <2>2 DEF Admit, RunEnds, SetStatus
  <2>3. CASE Crash \/ Initialize \/ UNCHANGED vars
    BY <2>3 DEF Crash, Initialize, vars
  <2>. QED
    BY <2>1, <2>2, <2>3 DEF Next, Rest
<1>2. faults \in Nat /\ crashes \in Nat
  BY AgentFilesAssumption DEF TypeInv, TypeOK
<1>. QED
  BY <1>1, <1>2 DEF Undisturbed, Fault

\* At most one request that takes turns is at work on an Agent.
LEMMA AloneAtWork ==
  ASSUME TypeInv, NEW t \in Lockers, HoldsLock(t)
  PROVE  \A u \in Lockers : AgentOf[u] = AgentOf[t] /\ u # t => pc[u] \notin Holding
BY DEF TypeInv, LockHolders, HoldsLock

\* Whatever happens elsewhere, and a request that queues.
LEMMA CalmStays ==
  ASSUME NEW a, CalmAt(a), faults = 1 => faults' = 1,
         record'[a] = record[a], dir'[a] = dir[a], agentsMd'[a] = agentsMd[a],
         \A u \in Updates : AgentOf[u] = a => before'[u] = before[u],
         \A t \in Ops : AgentOf[t] = a =>
           pc'[t] = pc[t] \/ (t \in Lockers /\ pc[t] = "new" /\ pc'[t] = "waiting")
  PROVE  CalmAt(a)'
<1>1. \A t \in Creates : AgentOf[t] = a => pc'[t] = pc[t]
  BY OpsFacts
<1>2. \A t \in Lockers : AgentOf[t] = a =>
        pc'[t] = pc[t] \/ (pc[t] = "new" /\ pc'[t] = "waiting")
  BY OpsFacts
<1>3. (Known(a)' <=> Known(a)) /\ (Busy(a)' <=> Busy(a))
  BY DEF Known, Busy
<1>. USE DEF CalmAt, Rewriting, Moving, Making
<1>4. UpdatesMid(a)' /\ DeletesMid(a)' /\ CreatesMid(a)'
  BY <1>1, <1>2, <1>3, OpsFacts DEF UpdatesMid, DeletesMid, CreatesMid
<1>5. Current(a)'
  BY <1>2, <1>3, OpsFacts DEF Current
<1>6. Complete(a)'
  BY <1>2, <1>3, OpsFacts DEF Complete
<1>7. NoLeftovers(a)'
  BY <1>1, <1>3 DEF NoLeftovers
<1>. QED
  BY <1>4, <1>5, <1>6, <1>7

\* Who is not concerned by a step of t: every other Agent, and every other request.
LEMMA StepsAreLocal ==
  ASSUME TypeInv, NEW t \in Ops, Step(t)
  PROVE  /\ \A a \in Agents : a # AgentOf[t] =>
              record'[a] = record[a] /\ dir'[a] = dir[a] /\ agentsMd'[a] = agentsMd[a]
         /\ \A u \in Ops : u # t => pc'[u] = pc[u]
         /\ \A u \in Updates : u # t => before'[u] = before[u]
<1>. USE OpsFacts DEF TypeInv, TypeOK
<1>1. \E s : Goto(t, s)
  BY DEF Step, MakeDirectory, FillDirectory, CommitCreate, RemoveDirectory, BeginUpdate,
     CommitUpdate, WriteInstructions, UndoUpdate, BeginDelete, Archive, CommitDelete, Restore,
     Leave, Continue
<1>2. \A u \in Ops : u # t => pc'[u] = pc[u]
  BY <1>1 DEF Goto
<1>3. \A u \in Updates : u # t => before'[u] = before[u]
  BY DEF Step, MakeDirectory, FillDirectory, CommitCreate, RemoveDirectory, BeginUpdate,
     CommitUpdate, WriteInstructions, UndoUpdate, BeginDelete, Archive, CommitDelete, Restore,
     Leave, Continue
<1>4. \A a \in Agents : a # AgentOf[t] => record'[a] = record[a]
  BY DEF Step, MakeDirectory, FillDirectory, CommitCreate, RemoveDirectory, BeginUpdate,
     CommitUpdate, WriteInstructions, UndoUpdate, BeginDelete, Archive, CommitDelete, Restore
<1>5. \A a \in Agents : a # AgentOf[t] => dir'[a] = dir[a] /\ agentsMd'[a] = agentsMd[a]
  BY DEF Step, MakeDirectory, FillDirectory, CommitCreate, RemoveDirectory, BeginUpdate,
     CommitUpdate, WriteInstructions, UndoUpdate, BeginDelete, Archive, CommitDelete, Restore,
     disk
<1>. QED
  BY <1>2, <1>3, <1>4, <1>5

\* What an update has to leave, where nobody else is at work.
LEMMA UpdateCalm ==
  ASSUME TypeInv, FilesInv, NEW t \in Updates, CalmAt(AgentOf[t]), HoldsLock(t), Step(t),
         faults = 1 => faults' = 1, dir' = dir, Known(AgentOf[t])' <=> Known(AgentOf[t]),
         agentsMd' = agentsMd \/ Known(AgentOf[t]),
         pc'[t] \in Rewriting \cup {"updating"} => Known(AgentOf[t])' /\ ~Busy(AgentOf[t])',
         pc'[t] = "updating" => before'[t].conf = record'[AgentOf[t]].conf,
         pc'[t] \in Rewriting =>
           /\ record'[AgentOf[t]].conf = InputOf[t]
           /\ agentsMd'[AgentOf[t]] = before'[t].conf,
         pc'[t] = "undoing" => faults' = 1,
         Known(AgentOf[t]) /\ pc'[t] \notin Rewriting =>
           agentsMd'[AgentOf[t]] = record'[AgentOf[t]].conf
  PROVE  CalmAt(AgentOf[t])'
<1>. DEFINE a == AgentOf[t]
<1>1. t \in Lockers /\ t \in Ops /\ a \in Agents /\ t \notin Creates /\ t \notin Deletes
  BY OpsFacts
<1>2. \A u \in Lockers : AgentOf[u] = a /\ u # t => pc[u] \notin Holding /\ pc'[u] = pc[u]
  BY <1>1, AloneAtWork, StepsAreLocal, OpsFacts
<1>3. \A c \in Creates : pc'[c] = pc[c]
  BY <1>1, StepsAreLocal, OpsFacts
<1>4. Known(a) => \A c \in Creates : AgentOf[c] = a => pc[c] \notin Uncommitted
  BY DEF FilesInv, CreatesFirst, Known
<1>5. \A d \in Deletes : AgentOf[d] = a => pc'[d] \notin Moving \cup {"draining"} /\ pc[d] \notin Moving
  BY <1>1, <1>2, OpsFacts DEF Holding, Moving
<1>6. UpdatesMid(a)'
  BY <1>1, <1>2, OpsFacts DEF UpdatesMid, Holding, Rewriting
<1>7. DeletesMid(a)'
  BY <1>5 DEF DeletesMid, Moving
<1>8. CreatesMid(a)'
  BY <1>3, <1>4 DEF CalmAt, CreatesMid, Uncommitted
<1>9. Current(a)'
  BY <1>1 DEF Current
<1>10. Complete(a)'
  BY <1>5 DEF CalmAt, Complete
<1>11. NoLeftovers(a)'
  BY <1>3 DEF CalmAt, NoLeftovers
<1>. QED
  BY <1>6, <1>7, <1>8, <1>9, <1>10, <1>11 DEF CalmAt

\* An update changes the record and then AGENTS.md, or undoes the first.
LEMMA UpdateStaysCalm ==
  ASSUME TypeInv, FilesInv, Undisturbed, Undisturbed', NEW t \in Ops, CalmAt(AgentOf[t]),
         BeginUpdate(t) \/ CommitUpdate(t) \/ WriteInstructions(t) \/ UndoUpdate(t),
         faults = 1 => faults' = 1, Fault => faults = 0 /\ faults' = 1
  PROVE  CalmAt(AgentOf[t])'
<1>. DEFINE a == AgentOf[t]
<1>1. /\ t \in Updates /\ t \in Lockers /\ a \in Agents
      /\ HoldsLock(t) /\ Step(t) /\ dir' = dir
  BY OpsFacts DEF BeginUpdate, CommitUpdate, WriteInstructions, UndoUpdate, TypeInv, LockHolders,
     Holding, At, disk, Step
<1>2. \A u \in Lockers : AgentOf[u] = a /\ u # t => pc[u] \notin Holding
  BY <1>1, AloneAtWork
<1>3. Known(a) => dir[a] = "whole"
  BY <1>1, <1>2, OpsFacts DEF CalmAt, Complete, Moving, Holding
<1>4. Known(a) /\ pc[t] \notin Rewriting => agentsMd[a] = record[a].conf
  BY <1>1, <1>2, OpsFacts DEF CalmAt, Current, Rewriting, Holding
<1>5. \A s : Goto(t, s) => pc'[t] = s
  BY DEF Goto, TypeInv, TypeOK
<1>6. CASE BeginUpdate(t)
  <2>1. record' = record /\ agentsMd' = agentsMd /\ pc[t] = "waiting"
    BY <1>6 DEF BeginUpdate, disk, At
  <2>2. \/ pc'[t] = "updating" /\ before'[t] = record[a] /\ Known(a) /\ ~Busy(a)
        \/ pc'[t] = "refused"
    BY <1>1, <1>5, <1>6 DEF BeginUpdate, Leave, TypeInv, TypeOK
  <2>. QED
    BY <1>1, <1>4, <2>1, <2>2, UpdateCalm DEF Known, Busy, Rewriting
<1>7. CASE CommitUpdate(t)
  <2>1. agentsMd' = agentsMd /\ pc[t] = "updating"
    BY <1>7 DEF CommitUpdate, disk, At
  <2>2. /\ Known(a) /\ ~Busy(a) /\ before[t].conf = record[a].conf
        /\ agentsMd[a] = record[a].conf
    BY <1>1, <1>4, <2>1 DEF CalmAt, UpdatesMid, Rewriting
  <2>3. \/ /\ pc'[t] = "writing" /\ before' = before
           /\ record'[a] = Configured(record[a], InputOf[t], FALSE)
        \/ pc'[t] \in {"refused", "failed"} /\ record' = record
    BY <1>1, <1>5, <1>7 DEF CommitUpdate, Leave, Continue, TypeInv, TypeOK
  <2>4. CASE record' = record /\ pc'[t] \in {"refused", "failed"}
    BY <1>1, <2>1, <2>2, <2>4, UpdateCalm DEF Known, Busy, Rewriting
  <2>5. ASSUME pc'[t] = "writing", before' = before,
               record'[a] = Configured(record[a], InputOf[t], FALSE)
        PROVE  CalmAt(AgentOf[t])'
    <3>1. /\ record'[a] # None /\ record'[a].conf = InputOf[t]
          /\ record'[a].status = record[a].status
      <4>1. record[a] \in Records /\ record[a] # None /\ InputOf[t] \in Configs
        BY <1>1, <2>2, OpsFacts DEF Known, TypeInv, TypeOK
      <4>2. Configured(record[a], InputOf[t], FALSE) # None
        BY <4>1, EditedKnown
      <4>. QED
        BY <2>5, <4>2 DEF Configured
    <3>2. Known(a)' /\ ~Busy(a)'
      BY <2>2, <3>1 DEF Known, Busy
    <3>. QED
      BY <1>1, <2>1, <2>2, <2>5, <3>1, <3>2, UpdateCalm DEF Rewriting
  <2>. QED
    BY <2>3, <2>4, <2>5
<1>8. CASE WriteInstructions(t)
  <2>1. record' = record /\ pc[t] = "writing"
    BY <1>8 DEF WriteInstructions, At
  <2>2. /\ Known(a) /\ ~Busy(a) /\ record[a].conf = InputOf[t] /\ agentsMd[a] = before[t].conf
    BY <1>1, <2>1 DEF CalmAt, UpdatesMid, Rewriting
  <2>3. before' = before
    BY <1>8 DEF WriteInstructions, Leave, Continue
  <2>4. \/ pc'[t] = "done" /\ agentsMd'[a] = InputOf[t]
        \/ pc'[t] = "undoing" /\ agentsMd' = agentsMd /\ faults' = 1
    BY <1>1, <1>3, <1>5, <1>8, <2>2 DEF WriteInstructions, Leave, Continue, TypeInv, TypeOK
  <2>. QED
    BY <1>1, <2>1, <2>2, <2>3, <2>4, UpdateCalm DEF Known, Busy, Rewriting
<1>9. CASE UndoUpdate(t)
  <2>1. agentsMd' = agentsMd /\ pc[t] = "undoing" /\ pc'[t] = "failed"
    BY <1>5, <1>9 DEF UndoUpdate, At, Leave, disk
  <2>2. /\ Known(a) /\ ~Busy(a) /\ record[a].conf = InputOf[t] /\ agentsMd[a] = before[t].conf
        /\ faults = 1
    BY <1>1, <2>1 DEF CalmAt, UpdatesMid, Rewriting
  <2>3. record'[a] = Undone(t, record[a])
    BY <1>1, <1>9, <2>2 DEF UndoUpdate, TypeInv, TypeOK
  <2>4. record'[a] # None /\ record'[a].conf = before[t].conf
    <3>1. before[t] \in Records /\ before[t] # None /\ record[a] \in Records
      BY <1>1, <2>1 DEF TypeInv, TypeOK, UpdatesBegan
    <3>. DEFINE e == IF record[a].lastError THEN TRUE ELSE before[t].lastError
    <3>2. record'[a] = Configured(record[a], before[t].conf, e)
      BY <2>2, <2>3, Zenon DEF Undone, Known
    <3>3. before[t].conf \in Configs /\ e \in BOOLEAN
      BY <3>1, EditedTyped
    <3>. HIDE DEF e
    <3>4. Configured(record[a], before[t].conf, e) # None
      BY <2>2, <3>1, <3>3, EditedKnown DEF Known
    <3>. QED
      BY <3>2, <3>4 DEF Configured
  <2>. QED
    BY <1>1, <2>1, <2>2, <2>4, UpdateCalm DEF Known, Rewriting
<1>. QED
  BY <1>6, <1>7, <1>8, <1>9

\* A delete moves the workspace and then drops the record, or undoes the first.
LEMMA DeleteStaysCalm ==
  ASSUME TypeInv, FilesInv, Undisturbed, Undisturbed', NEW t \in Ops, CalmAt(AgentOf[t]),
         BeginDelete(t) \/ Archive(t) \/ CommitDelete(t) \/ Restore(t),
         faults = 1 => faults' = 1, Fault => faults = 0 /\ faults' = 1
  PROVE  CalmAt(AgentOf[t])'
<1>. DEFINE a == AgentOf[t]
<1>1. /\ t \in Deletes /\ t \in Lockers /\ t \notin Creates /\ t \notin Updates /\ a \in Agents
      /\ HoldsLock(t) /\ Step(t) /\ agentsMd' = agentsMd
      /\ Creates \subseteq Ops /\ Lockers \subseteq Ops
      /\ Updates \subseteq Lockers /\ Deletes \subseteq Lockers
  BY OpsFacts DEF BeginDelete, Archive, CommitDelete, Restore, TypeInv, LockHolders,
     Holding, At, disk, Step
<1>2. \A u \in Lockers : AgentOf[u] = a /\ u # t => pc[u] \notin Holding /\ pc'[u] = pc[u]
  BY <1>1, AloneAtWork, StepsAreLocal
<1>3. \A c \in Creates : pc'[c] = pc[c]
  BY <1>1, StepsAreLocal
<1>4. \A s : Goto(t, s) => pc'[t] = s
  BY DEF Goto, TypeInv, TypeOK
<1>5. Known(a) => \A c \in Creates : AgentOf[c] = a => pc[c] \notin Uncommitted
  BY DEF FilesInv, CreatesFirst, Known
<1>6. UpdatesMid(a)'
  BY <1>1, <1>2 DEF UpdatesMid, Holding, Rewriting
<1>7. Known(a) => agentsMd[a] = record[a].conf
  BY <1>1, <1>2 DEF CalmAt, Current, Rewriting, Holding
<1>8. Known(a) /\ pc[t] \notin Moving => dir[a] = "whole"
  BY <1>1, <1>2 DEF CalmAt, Complete, Moving, Holding
<1>9. ASSUME record' = record, dir'[a] = dir[a], pc[t] \notin Moving, pc'[t] \notin Moving,
             pc'[t] = "draining" => Known(a)
      PROVE  CalmAt(a)'
  BY <1>1, <1>2, <1>3, <1>6, <1>7, <1>8, <1>9
     DEF CalmAt, DeletesMid, CreatesMid, Current, Complete, NoLeftovers, Known, Moving, Holding
<1>10. CASE BeginDelete(t)
  BY <1>4, <1>9, <1>10 DEF BeginDelete, Leave, At, Moving, disk
<1>11. CASE Archive(t)
  <2>1. record' = record /\ pc[t] = "draining" /\ ~Busy(a) /\ Known(a)
    BY <1>1, <1>11 DEF Archive, At, CalmAt, DeletesMid
  <2>2. \/ dir' = dir /\ pc'[t] = "failed"
        \/ dir'[a] = "none" /\ pc'[t] = "deleting"
    BY <1>1, <1>4, <1>11 DEF Archive, Leave, Continue, TypeInv, TypeOK
  <2>3. CASE dir' = dir /\ pc'[t] = "failed"
    BY <1>9, <2>1, <2>3 DEF Moving
  <2>4. CASE dir'[a] = "none" /\ pc'[t] = "deleting"
    <3>1. DeletesMid(a)'
      BY <1>1, <1>2, <2>1, <2>4 DEF DeletesMid, Moving, Holding, Known, Busy
    <3>2. CreatesMid(a)'
      BY <1>3, <1>5, <2>1 DEF CreatesMid, Uncommitted
    <3>3. Current(a)' /\ Complete(a)' /\ NoLeftovers(a)'
      BY <1>1, <1>7, <2>1, <2>4 DEF Current, Complete, NoLeftovers, Known, Moving
    <3>. QED
      BY <1>6, <3>1, <3>2, <3>3 DEF CalmAt
  <2>. QED
    BY <2>2, <2>3, <2>4
<1>12. CASE CommitDelete(t)
  <2>1. dir' = dir /\ pc[t] = "deleting" /\ ~Busy(a) /\ Known(a) /\ dir[a] = "none"
    BY <1>1, <1>12 DEF CommitDelete, At, CalmAt, DeletesMid, Moving, disk
  <2>2. \/ record'[a] = None /\ pc'[t] = "done"
        \/ record' = record /\ pc'[t] = "restoring" /\ faults' = 1
    BY <1>1, <1>4, <1>12, <2>1 DEF CommitDelete, Leave, Continue, TypeInv, TypeOK
  <2>3. DeletesMid(a)'
    BY <1>1, <1>2, <2>1, <2>2 DEF DeletesMid, Moving, Holding, Known, Busy
  <2>4. CreatesMid(a)'
    BY <1>3, <1>5, <2>1 DEF CreatesMid, Uncommitted
  <2>5. Current(a)' /\ Complete(a)' /\ NoLeftovers(a)'
    BY <1>1, <1>7, <2>1, <2>2 DEF Current, Complete, NoLeftovers, Known, Moving
  <2>. QED
    BY <1>6, <2>3, <2>4, <2>5 DEF CalmAt
<1>13. CASE Restore(t)
  <2>1. record' = record /\ pc[t] = "restoring" /\ pc'[t] = "failed" /\ Known(a) /\ faults = 1
    BY <1>1, <1>4, <1>13 DEF Restore, Leave, At, CalmAt, DeletesMid, Moving
  <2>2. dir'[a] = "whole"
    BY <1>1, <1>13, <2>1 DEF Restore, TypeInv, TypeOK
  <2>3. DeletesMid(a)'
    BY <1>1, <1>2, <2>1 DEF DeletesMid, Moving, Holding
  <2>4. CreatesMid(a)'
    BY <1>3, <1>5, <2>1 DEF CreatesMid, Uncommitted
  <2>5. Current(a)' /\ Complete(a)' /\ NoLeftovers(a)'
    BY <1>1, <1>7, <2>1, <2>2 DEF Current, Complete, NoLeftovers, Known, Moving
  <2>. QED
    BY <1>6, <2>3, <2>4, <2>5 DEF CalmAt
<1>. QED
  BY <1>10, <1>11, <1>12, <1>13

\* A create makes the workspace and then the record, or undoes the first.
LEMMA CreateStaysCalm ==
  ASSUME TypeInv, FilesInv, Undisturbed, Undisturbed', NEW t \in Ops, CalmAt(AgentOf[t]),
         MakeDirectory(t) \/ FillDirectory(t) \/ CommitCreate(t) \/ RemoveDirectory(t),
         faults = 1 => faults' = 1, Fault => faults = 0 /\ faults' = 1
  PROVE  CalmAt(AgentOf[t])'
<1>. DEFINE a == AgentOf[t]
<1>1. /\ t \in Creates /\ t \notin Lockers /\ a \in Agents /\ Step(t)
      /\ Creates \subseteq Ops /\ Lockers \subseteq Ops
      /\ Updates \subseteq Lockers /\ Deletes \subseteq Lockers
      /\ \A c \in Creates : AgentOf[c] = a => c = t
      /\ pc[t] \in Uncommitted
  BY OpsFacts, AgentFilesAssumption DEF MakeDirectory, FillDirectory, CommitCreate,
     RemoveDirectory, At, Step, Uncommitted
<1>2. record[a] = None /\ ~Known(a)
  BY <1>1 DEF FilesInv, CreatesFirst, Known
<1>3. \A s : Goto(t, s) => pc'[t] = s
  BY DEF Goto, TypeInv, TypeOK
<1>4. \A u \in Lockers : pc'[u] = pc[u]
  BY <1>1, StepsAreLocal
<1>5. /\ \A u \in Updates : AgentOf[u] = a => pc[u] \notin Rewriting \cup {"updating"}
      /\ \A d \in Deletes : AgentOf[d] = a => pc[d] \notin Moving \cup {"draining"}
  BY <1>2 DEF CalmAt, UpdatesMid, DeletesMid
<1>6. UpdatesMid(a)' /\ DeletesMid(a)'
  BY <1>1, <1>4, <1>5 DEF UpdatesMid, DeletesMid, Rewriting, Moving
<1>7. CASE MakeDirectory(t)
  <2>1. record' = record /\ pc[t] = "new" /\ dir[a] = "none"
    BY <1>1, <1>7 DEF MakeDirectory, At, CalmAt, CreatesMid
  <2>2. pc'[t] = "filling" \/ (pc'[t] = "failed" /\ dir' = dir)
    BY <1>3, <1>7 DEF MakeDirectory, Continue
  <2>3. CreatesMid(a)' /\ Current(a)' /\ Complete(a)' /\ NoLeftovers(a)'
    BY <1>1, <1>2, <2>1, <2>2 DEF CreatesMid, Current, Complete, NoLeftovers, Known, Making
  <2>. QED
    BY <1>6, <2>3 DEF CalmAt
<1>8. CASE FillDirectory(t)
  <2>1. record' = record
    BY <1>8 DEF FillDirectory
  <2>2. \/ pc'[t] = "creating" /\ agentsMd'[a] = InputOf[t]
        \/ pc'[t] = "removing" /\ faults' = 1
    BY <1>1, <1>3, <1>8 DEF FillDirectory, Continue, TypeInv, TypeOK
  <2>3. CreatesMid(a)' /\ Current(a)' /\ Complete(a)' /\ NoLeftovers(a)'
    BY <1>1, <1>2, <2>1, <2>2 DEF CreatesMid, Current, Complete, NoLeftovers, Known, Making
  <2>. QED
    BY <1>6, <2>3 DEF CalmAt
<1>9. CASE CommitCreate(t)
  <2>1. dir' = dir /\ agentsMd' = agentsMd /\ dir[a] = "whole" /\ agentsMd[a] = InputOf[t]
    BY <1>1, <1>9 DEF CommitCreate, At, CalmAt, CreatesMid, FilesInv, CommitsComplete, disk
  <2>2. \/ pc'[t] = "done" /\ record'[a] = Fresh(InputOf[t])
        \/ pc'[t] = "removing" /\ faults' = 1 /\ record' = record
    BY <1>1, <1>3, <1>9 DEF CommitCreate, Continue, TypeInv, TypeOK
  <2>3. Fresh(InputOf[t]) # None /\ Fresh(InputOf[t]).conf = InputOf[t]
    <3>1. InputOf[t] \in Configs
      BY <1>1, OpsFacts
    <3>2. Fresh(InputOf[t]) \in [conf : Configs, status : Statuses, lastError : BOOLEAN]
      BY <3>1 DEF Fresh, Statuses
    <3>3. Fresh(InputOf[t]) # None
      BY <3>2, AgentFilesAssumption
    <3>. QED
      BY <3>3 DEF Fresh
  <2>4. CreatesMid(a)' /\ NoLeftovers(a)'
    BY <1>1, <1>2, <2>1, <2>2, <2>3 DEF CreatesMid, NoLeftovers, Known, Making
  <2>5. Current(a)' /\ Complete(a)'
    BY <1>1, <1>2, <2>1, <2>2, <2>3 DEF Current, Complete, Known
  <2>. QED
    BY <1>6, <2>4, <2>5 DEF CalmAt
<1>10. CASE RemoveDirectory(t)
  <2>1. record' = record /\ pc'[t] = "failed" /\ faults = 1
    BY <1>1, <1>3, <1>10 DEF RemoveDirectory, At, Continue, CalmAt, CreatesMid
  <2>2. dir'[a] = "none"
    BY <1>1, <1>10, <2>1 DEF RemoveDirectory, TypeInv, TypeOK
  <2>3. CreatesMid(a)' /\ Current(a)' /\ Complete(a)' /\ NoLeftovers(a)'
    BY <1>1, <1>2, <2>1, <2>2 DEF CreatesMid, Current, Complete, NoLeftovers, Known, Making
  <2>. QED
    BY <1>6, <2>3 DEF CalmAt
<1>. QED
  BY <1>7, <1>8, <1>9, <1>10

\* Runs, stops and starts leave the configuration alone, and an Agent gets busy while
\* nobody holds its lock.
LEMMA StatusStaysCalm ==
  ASSUME TypeInv, NEW a \in Agents, CalmAt(a), Admit(a) \/ RunEnds(a) \/ SetStatus(a)
  PROVE  CalmAt(a)'
<1>1. UNCHANGED <<dir, agentsMd, pc, before, lock, faults>>
  BY DEF Admit, RunEnds, SetStatus, disk, service
<1>2. record[a] \in Records /\ record[a] # None
  BY DEF Admit, RunEnds, SetStatus, Busy, Known, TypeInv, TypeOK
<1>3. \E s \in Statuses, e \in BOOLEAN :
        /\ record'[a] = Moved(record[a], s, e)
        /\ s = "busy" => Admit(a)
  <2>1. record[a].lastError \in BOOLEAN
    BY <1>2, EditedTyped
  <2>. QED
    BY <2>1 DEF Admit, RunEnds, SetStatus, TypeInv, TypeOK, Statuses
<1>4. Known(a)' /\ Known(a) /\ record'[a].conf = record[a].conf
  BY <1>2, <1>3, EditedKnown DEF Known, Moved
<1>5. Busy(a)' => Admit(a)
  BY <1>3 DEF Busy, Moved
<1>6. Admit(a) => \A u \in Lockers : AgentOf[u] = a => pc[u] \notin Holding
  BY DEF Admit, TypeInv, LockHolders, HoldsLock
<1>7. UpdatesMid(a)'
  BY <1>1, <1>4, <1>5, <1>6, OpsFacts DEF CalmAt, UpdatesMid, Rewriting, Holding
<1>8. DeletesMid(a)'
  BY <1>1, <1>4, <1>5, <1>6, OpsFacts DEF CalmAt, DeletesMid, Moving, Holding
<1>9. CreatesMid(a)' /\ Current(a)' /\ Complete(a)' /\ NoLeftovers(a)'
  BY <1>1, <1>4 DEF CalmAt, CreatesMid, Current, Complete, NoLeftovers
<1>. QED
  BY <1>7, <1>8, <1>9 DEF CalmAt

LEMMA InitCalm == Init => CalmInv
  BY OpsFacts DEF Init, CalmInv, CalmAt, UpdatesMid, DeletesMid, CreatesMid, Current, Complete,
     NoLeftovers, Known, Rewriting, Moving, Making

LEMMA CalmInductive == TypeInv /\ FilesInv /\ CalmInv /\ [Next]_vars => CalmInv'
<1>. SUFFICES ASSUME TypeInv, FilesInv, CalmInv, [Next]_vars, Undisturbed'
              PROVE  up' /\ \A a \in Agents : CalmAt(a)'
  BY DEF CalmInv
<1>1. /\ Undisturbed /\ faults = 1 => faults' = 1
      /\ Fault => faults = 0 /\ faults' = 1
  BY CalmBefore
<1>2. Undisturbed /\ up /\ \A a \in Agents : CalmAt(a)
  BY <1>1, CalmBefore DEF CalmInv
<1>3. ASSUME NEW t \in Ops, Step(t) PROVE up' /\ \A a \in Agents : CalmAt(a)'
  <2>1. up' = up
    BY <1>3 DEF Step, MakeDirectory, FillDirectory, CommitCreate, RemoveDirectory,
       BeginUpdate, CommitUpdate, WriteInstructions, UndoUpdate, BeginDelete, Archive,
       CommitDelete, Restore
  <2>2. CalmAt(AgentOf[t])'
    BY <1>1, <1>2, <1>3, OpsFacts, UpdateStaysCalm, DeleteStaysCalm, CreateStaysCalm, CalmBefore
       DEF Step
  <2>3. ASSUME NEW a \in Agents, a # AgentOf[t] PROVE CalmAt(a)'
    BY <1>2, <1>3, <2>3, StepsAreLocal, CalmStays, CalmBefore, OpsFacts
  <2>. QED
    BY <1>2, <2>1, <2>2, <2>3
<1>4. ASSUME NEW t \in Ops, Queue(t) PROVE up' /\ \A a \in Agents : CalmAt(a)'
  <2>1. /\ record' = record /\ dir' = dir /\ agentsMd' = agentsMd /\ before' = before /\ up' = up
        /\ \A u \in Ops : \/ pc'[u] = pc[u]
                          \/ u \in Lockers /\ pc[u] = "new" /\ pc'[u] = "waiting"
    BY <1>4 DEF Queue, disk, Goto, At, TypeInv, TypeOK
  <2>. QED
    BY <1>2, <2>1, CalmStays, CalmBefore
<1>5. ASSUME NEW a \in Agents, Admit(a) \/ RunEnds(a) \/ SetStatus(a)
      PROVE  up' /\ \A b \in Agents : CalmAt(b)'
  <2>1. /\ dir' = dir /\ agentsMd' = agentsMd /\ before' = before /\ up' = up /\ pc' = pc
        /\ \A b \in Agents : b # a => record'[b] = record[b]
    BY <1>5 DEF Admit, RunEnds, SetStatus, disk, service, TypeInv, TypeOK
  <2>2. CalmAt(a)'
    BY <1>2, <1>5, StatusStaysCalm
  <2>3. ASSUME NEW b \in Agents, b # a PROVE CalmAt(b)'
    BY <1>2, <2>1, <2>3, CalmStays, CalmBefore
  <2>. QED
    BY <1>2, <2>1, <2>2, <2>3
<1>6. CASE Crash
  BY <1>6, AgentFilesAssumption DEF Crash, Undisturbed, TypeInv, TypeOK
<1>7. CASE Initialize
  BY <1>2, <1>7 DEF Initialize
<1>8. CASE UNCHANGED vars
  BY <1>2, <1>8, CalmStays, CalmBefore DEF vars, disk, service
<1>. QED
  BY <1>3, <1>4, <1>5, <1>6, <1>7, <1>8 DEF Next, Rest

\* The invariant of the files, of a disturbed server and of an undisturbed one.
THEOREM FilesInvCorrect == Spec => [](TypeInv /\ FilesInv /\ CalmInv)
  BY InitTypeInv, TypeInvInductive, InitFilesInv, FilesInvInductive, InitCalm, CalmInductive, PTL
     DEF Spec

\* Of an undisturbed server every Run works in a complete workspace and reads the
\* instructions of its Agent's record.
THEOREM RunsReadTheRecord == Spec => []RunsSeeTheirInstructions
<1>1. ASSUME CalmInv PROVE RunsSeeTheirInstructions
  <2>. SUFFICES ASSUME Undisturbed, NEW a \in Agents, Busy(a)
                PROVE  dir[a] = "whole" /\ agentsMd[a] = record[a].conf
    BY DEF RunsSeeTheirInstructions
  <2>1. CalmAt(a) /\ Known(a)
    BY <1>1 DEF CalmInv, Busy
  <2>. QED
    BY <2>1 DEF CalmAt, UpdatesMid, DeletesMid, Current, Complete, Rewriting, Moving
<1>. QED
  BY <1>1, FilesInvCorrect, PTL

\* Of an undisturbed server an Agent nobody is at work on has a record exactly if it has
\* a workspace, and nothing half done.
THEOREM RecordsAndDirectoriesMatch == Spec => []RecordsMatchDirectories
<1>1. ASSUME CalmInv PROVE RecordsMatchDirectories
  <2>. SUFFICES ASSUME Undisturbed, NEW a \in Agents, Idle(a)
                PROVE  (Known(a) <=> dir[a] = "whole") /\ dir[a] # "partial"
    BY DEF RecordsMatchDirectories
  <2>1. CalmAt(a)
    BY <1>1 DEF CalmInv
  <2>2. \A t \in Ops : AgentOf[t] = a => pc[t] \notin Moving \cup Making
    BY DEF Idle, Ended, Moving, Making
  <2>. QED
    BY <2>1, <2>2, OpsFacts DEF CalmAt, Complete, NoLeftovers
<1>. QED
  BY <1>1, FilesInvCorrect, PTL

\* An update whose second step has failed takes back its first, and nothing else: the
\* record is again the one that AGENTS.md was generated from, in the status it has now.
THEOREM UndoesSpareOthers == Spec => UndoSparesOthers
<1>. DEFINE Spared ==
       \A t \in Updates :
         Undisturbed /\ pc[t] = "undoing" /\ pc'[t] = "failed" /\ faults' = faults =>
         LET a == AgentOf[t] IN
         Known(a) => /\ record'[a].status = record[a].status
                     /\ record'[a].conf = agentsMd[a]
<1>1. ASSUME TypeInv, CalmInv, [Next]_vars PROVE Spared
  <2>. SUFFICES ASSUME NEW t \in Updates, Undisturbed, pc[t] = "undoing", pc'[t] = "failed",
                       faults' = faults, Known(AgentOf[t])
                PROVE  /\ record'[AgentOf[t]].status = record[AgentOf[t]].status
                       /\ record'[AgentOf[t]].conf = agentsMd[AgentOf[t]]
    OBVIOUS
  <2>. DEFINE a == AgentOf[t]
  <2>1. a \in Agents /\ t \in Ops /\ CalmAt(a)
    BY <1>1, OpsFacts DEF CalmInv
  <2>2. UndoUpdate(t)
    <3>1. ASSUME NEW u \in Ops, Step(u) PROVE u = t
      BY <2>1, <3>1, <1>1, StepsAreLocal
    <3>2. \/ Step(t)
          \/ \E u \in Ops : Queue(u)
          \/ Crash
          \/ pc' = pc
      BY <1>1, <3>1 DEF Next, Rest, Admit, RunEnds, SetStatus, Initialize, service, vars
    <3>3. ~Crash /\ ~\E u \in Ops : Queue(u)
      BY <1>1, <2>1 DEF Crash, Queue, Goto, Ended, TypeInv, TypeOK
    <3>4. Step(t)
      BY <3>2, <3>3
    <3>. QED
      BY <3>4, OpsFacts DEF Step, MakeDirectory, FillDirectory, CommitCreate, RemoveDirectory,
         BeginUpdate, CommitUpdate, WriteInstructions, BeginDelete, Archive, CommitDelete,
         Restore, At
  <2>3. record[a].conf = InputOf[t] /\ agentsMd[a] = before[t].conf
    BY <2>1 DEF CalmAt, UpdatesMid, Rewriting
  <2>4. record'[a] = Undone(t, record[a])
    BY <1>1, <2>1, <2>2 DEF UndoUpdate, Fault, TypeInv, TypeOK
  <2>. DEFINE e == IF record[a].lastError THEN TRUE ELSE before[t].lastError
  <2>5. record'[a] = Configured(record[a], before[t].conf, e)
    BY <2>3, <2>4, Zenon DEF Undone, Known
  <2>. HIDE DEF e
  <2>. QED
    BY <2>3, <2>5 DEF Configured
<1>2. TypeInv /\ CalmInv /\ [Next]_vars => [Spared]_vars
  BY <1>1
<1>. QED
  BY <1>2, FilesInvCorrect, PTL DEF Spec, UndoSparesOthers
=============================================================================
