------------------------- MODULE RunLifecycleProofs -------------------------
(***************************************************************************)
(* Type correctness of the Run lifecycle, the truth of a denial for        *)
(* staleness, and the agreement of a Run record with its Receipt.          *)
(***************************************************************************)
EXTENDS RunProperties, SequenceTheorems, TLAPS

-----------------------------------------------------------------------------
(***************************************************************************)
(* Type correctness of the Run lifecycle and the exclusion of the file     *)
(* operations of one Agent, for every number of Agents, requests, failed   *)
(* writes and crashes.                                                     *)
(*                                                                         *)
(* The type invariant is not inductive alone: releasing a file lock takes  *)
(* the tail of its sequence, which is one only because whoever releases    *)
(* the lock holds it (LockHolders), and the terminal mutations write the   *)
(* verdict of the Run, which is an outcome only by then (VerdictFits).     *)
(***************************************************************************)

FileOps == Runs \cup Deletes

\* The steps between the lock and its release.  No file operation is ever at
\* "settingStopped", but its error path would lead into the others.
HoldSteps == FileSteps \cup {"settingStopped"}

LockHolders == \A t \in FileOps : pc[t] \in HoldSteps => HoldsLock(t)

Outcomes == {"failed", "cancelled"}

Fits(r) ==
  /\ pc[r] \in {"awaitDeny", "denying"} => verdict[r] \in DenialReasons
  /\ pc[r] \in {"caught", "lateRetrying", "prefailing", "failing"} =>
       verdict[r] \in Outcomes

VerdictFits == \A r \in Runs : Fits(r)

TypeInv == TypeOK /\ LockHolders /\ VerdictFits

-----------------------------------------------------------------------------
(* Sequences *)

\* Appending keeps the head of a sequence that has one.
LEMMA AppendFacts ==
  ASSUME NEW S, NEW s \in Seq(S), NEW e \in S
  PROVE  /\ Append(s, e) \in Seq(S)
         /\ Append(s, e) # <<>>
         /\ s # <<>> => Head(Append(s, e)) = Head(s)
<1>1. /\ Append(s, e) \in Seq(S)
      /\ Append(s, e) # <<>>
      /\ \A i \in 1 .. Len(s) : Append(s, e)[i] = s[i]
  BY AppendProperties
<1>2. ASSUME s # <<>> PROVE Head(Append(s, e)) = Head(s)
  <2>1. 1 \in 1 .. Len(s)
    BY <1>2, EmptySeq, LenProperties
  <2>. QED
    BY <1>1, <2>1
<1>. QED
  BY <1>1, <1>2

\* The tail of a non-empty sequence is a sequence over the same set.
LEMMA TailFacts ==
  ASSUME NEW S, NEW s \in Seq(S), s # <<>>
  PROVE  Tail(s) \in Seq(S)
  OBVIOUS

-----------------------------------------------------------------------------
(* What the building blocks of the actions preserve *)

\* Every kind of request is an operation.
LEMMA OpsFacts ==
  /\ Runs \subseteq Ops /\ Cancels \subseteq Ops /\ Stops \subseteq Ops
  /\ Deletes \subseteq Ops /\ Starts \subseteq Ops /\ Grants \subseteq Ops
  /\ Revokes \subseteq Ops /\ FileOps \subseteq Ops
  /\ Stops \subseteq Cancels /\ Deletes \subseteq Cancels
  BY DEF Ops, Cancels, FileOps

\* Every request names an Agent of the server.
LEMMA AgentOfOps == \A t \in Ops : AgentOf[t] \in Agents
  BY ConstantsAssumption

\* A step that leaves the database and the environment alone keeps their types.
LEMMA SteadyTyped ==
  ASSUME TypeOK, UNCHANGED steady, verdict' \in [Runs -> Verdicts]
  PROVE  DatabaseOK' /\ LocalOK' /\ EnvironmentOK'
  BY DEF TypeOK, DatabaseOK, LocalOK, EnvironmentOK, steady, database, environment

\* What a step does not touch keeps its type, group of variables by group.
LEMMA UnchangedTyped ==
  ASSUME TypeOK
  PROVE  /\ UNCHANGED database => DatabaseOK'
         /\ UNCHANGED store => StoreOK'
         /\ UNCHANGED service => ServiceOK'
         /\ UNCHANGED process => ProcessOK'
         /\ UNCHANGED environment => EnvironmentOK'
         /\ UNCHANGED verdict => verdict' \in [Runs -> Verdicts]
         /\ UNCHANGED control => StepsOK' /\ LocalOK'
  BY DEF TypeOK, DatabaseOK, StoreOK, ServiceOK, ProcessOK, StepsOK, LocalOK,
         EnvironmentOK, database, store, service, process, control, environment

\* Moving an operation to a known step.
LEMMA GotoTyped ==
  ASSUME TypeOK, NEW t, NEW s \in Steps, Goto(t, s)
  PROVE  StepsOK'
  BY DEF TypeOK, StepsOK, Goto

\* Queueing a mutation keeps the store a queue of known operations.
LEMMA SubmitTyped ==
  ASSUME TypeOK, NEW t \in Ops, NEW m \in Mutations, Submit(t, m)
  PROVE  StepsOK' /\ StoreOK'
<1>1. m \in Steps
  BY DEF Steps
<1>2. StepsOK'
  BY <1>1, GotoTyped DEF Submit
<1>3. StoreOK'
  BY AppendFacts DEF TypeOK, StoreOK, Submit
<1>. QED
  BY <1>2, <1>3

\* Joining the lock keeps it a sequence of sends and deletes.
LEMMA JoinTyped ==
  ASSUME TypeOK, NEW t \in FileOps, NEW s \in Steps, JoinLock(t, s)
  PROVE  StepsOK' /\ lock' \in [Agents -> Seq(Runs \cup Deletes)]
<1>1. StepsOK'
  BY GotoTyped DEF JoinLock
<1>2. AgentOf[t] \in Agents
  BY OpsFacts, AgentOfOps
<1>3. Append(lock[AgentOf[t]], t) \in Seq(Runs \cup Deletes)
  BY <1>2, AppendFacts DEF TypeOK, ServiceOK, FileOps
<1>. QED
  BY <1>1, <1>3 DEF TypeOK, ServiceOK, JoinLock

\* Releasing the lock is safe for whoever holds it: there is a tail to take.
LEMMA ReleaseTyped ==
  ASSUME TypeOK, NEW t \in FileOps, HoldsLock(t), ReleaseLock(t)
  PROVE  lock' \in [Agents -> Seq(Runs \cup Deletes)]
<1>1. AgentOf[t] \in Agents
  BY OpsFacts, AgentOfOps
<1>2. Tail(lock[AgentOf[t]]) \in Seq(Runs \cup Deletes)
  BY <1>1, TailFacts DEF TypeOK, ServiceOK, HoldsLock
<1>. QED
  BY <1>2 DEF TypeOK, ServiceOK, ReleaseLock

\* A throw inside executeRun leaves an outcome for the catch clause.
LEMMA ThrowTyped ==
  ASSUME TypeOK, NEW r, NEW o \in Outcomes, Throw(r, o)
  PROVE  StepsOK' /\ verdict' \in [Runs -> Verdicts]
<1>1. "caught" \in Steps /\ o \in Verdicts
  BY DEF Steps, Outcomes, Verdicts
<1>2. StepsOK'
  BY <1>1, GotoTyped DEF Throw
<1>. QED
  BY <1>1, <1>2 DEF TypeOK, LocalOK, Throw

\* The store's queue after its oldest mutation has left it.
LEMMA DequeueTyped ==
  ASSUME TypeOK, NEW t, AtHead(t)
  PROVE  Tail(queue) \in Seq(Ops)
  BY TailFacts DEF TypeOK, StoreOK, AtHead

\* Publishing a commit disturbs only the database and the verdict.
LEMMA PublishTyped ==
  ASSUME TypeOK, NEW t, NEW m, NEW s \in Steps, Publish(t, m, s)
  PROVE  /\ StoreOK' /\ ServiceOK' /\ ProcessOK' /\ StepsOK' /\ EnvironmentOK'
         /\ UNCHANGED <<gen, waitFor>>
<1>1. StoreOK'
  BY DequeueTyped DEF Publish, StoreOK
<1>2. StepsOK'
  BY GotoTyped DEF Publish
<1>. QED
  BY <1>1, <1>2, UnchangedTyped DEF Publish

\* The local state of the operations when no generation is read.
LEMMA LocalTyped ==
  ASSUME TypeOK, UNCHANGED <<gen, waitFor>>, verdict' \in [Runs -> Verdicts]
  PROVE  LocalOK'
  BY DEF TypeOK, LocalOK

-----------------------------------------------------------------------------
(* Type correctness, one step per action *)

\* A send, up to the launch of its execution.
LEMMA AdmitTyped ==
  ASSUME TypeInv, NEW r \in Runs,
         \/ SendRefused(r) \/ SendBaseline(r) \/ SendCapsule(r) \/ Admit(r)
  PROVE  TypeOK'
<1>. TypeOK /\ LockHolders /\ r \in FileOps /\ r \in Ops
  BY OpsFacts DEF TypeInv, FileOps
<1>. {"refused", "authorized", "validating", "awaitAdmit", "awaitDeny"} \subseteq Steps
  BY DEF Steps, Answered
<1>. DenialReasons \subseteq Verdicts /\ {"admitting", "denying", "marking"} \subseteq Mutations
  BY DEF Verdicts, Mutations
<1>1. CASE SendRefused(r) \/ BeginValidation(r)
  BY <1>1, GotoTyped, SteadyTyped, UnchangedTyped
     DEF SendRefused, BeginValidation, TypeOK
<1>2. CASE SendBaseline(r) \/ PlanCompiled(r)
  BY <1>2, JoinTyped, SteadyTyped, UnchangedTyped
     DEF SendBaseline, PlanCompiled, TypeOK, ServiceOK
<1>3. CASE SendCapsule(r)
  <2>1. ASSUME ResourceOf[r] \in Registered PROVE DecisionGeneration(r) \in Nat
    <3>1. PairOf(r) \in Entitlements
      BY <2>1, ConstantsAssumption, OpsFacts DEF PairOf, Entitlements
    <3>. QED
      BY <3>1 DEF DecisionGeneration, TypeOK, DatabaseOK
  <2>2. ASSUME ResourceOf[r] \notin Registered PROVE DecisionGeneration(r) \in Nat
    BY <2>2 DEF DecisionGeneration, Authorization
  <2>3. DecisionGeneration(r) \in Nat
    BY <2>1, <2>2
  <2>4. Authorization(r) \in DenialReasons \cup {"allowed"}
    BY DEF Authorization, DenialReasons
  <2>. QED
    BY <1>3, <2>3, <2>4, GotoTyped, JoinTyped, UnchangedTyped
       DEF SendCapsule, TypeOK, ServiceOK, LocalOK
<1>4. CASE PlanRefused(r)
  BY <1>4, JoinTyped, SteadyTyped, UnchangedTyped
     DEF PlanRefused, TypeOK, ServiceOK, LocalOK
<1>5. CASE LateNotFound(r)
  BY <1>5, GotoTyped, ReleaseTyped, SteadyTyped, UnchangedTyped
     DEF LateNotFound, TypeOK, ServiceOK
<1>6. CASE RequestAdmission(r)
  BY <1>6, SubmitTyped, SteadyTyped, UnchangedTyped
     DEF RequestAdmission, TypeOK, ServiceOK
<1>7. CASE RequestDenial(r)
  BY <1>7, SubmitTyped, SteadyTyped, UnchangedTyped DEF RequestDenial, TypeOK
<1>8. CASE Launch(r)
  <2>1. HoldsLock(r)
    BY <1>8 DEF Launch, LockHolders, HoldSteps, FileSteps
  <2>. QED
    BY <1>8, <2>1, SubmitTyped, ReleaseTyped, SteadyTyped, UnchangedTyped
       DEF Launch, TypeOK, ServiceOK
<1>. QED
  BY <1>1, <1>2, <1>3, <1>4, <1>5, <1>6, <1>7, <1>8 DEF Admit

\* executeRun, outside the store.
LEMMA ExecuteTyped ==
  ASSUME TypeInv, NEW r \in Runs, Execute(r)
  PROVE  TypeOK'
<1>. TypeOK /\ VerdictFits /\ r \in Ops
  BY OpsFacts DEF TypeInv
<1>. {"preparing", "deriving", "inRunner", "done", "broken"} \subseteq Steps
  BY DEF Steps, Answered
<1>. {"evidencing", "retracting", "lateDenying", "lateRetrying", "prefailing",
      "failing", "completing"} \subseteq Mutations
  BY DEF Mutations
<1>. "failed" \in Outcomes /\ "cancelled" \in Outcomes
  BY DEF Outcomes
<1>1. CASE CancelAfterMark(r) \/ PrepareHomeAborted(r) \/ DeriveAborted(r)
  BY <1>1, ThrowTyped, SteadyTyped, UnchangedTyped
     DEF CancelAfterMark, PrepareHomeAborted, DeriveAborted, TypeOK
<1>2. CASE PrepareHome(r)
  BY <1>2, GotoTyped, SteadyTyped, UnchangedTyped DEF PrepareHome, TypeOK
<1>3. CASE HomePrepared(r) \/ RecheckAfterEvidence(r) \/ WithdrawBeforeHandoff(r)
  BY <1>3, GotoTyped, SubmitTyped, SteadyTyped, UnchangedTyped
     DEF HomePrepared, RecheckAfterEvidence, WithdrawBeforeHandoff, TypeOK
<1>4. CASE Handoff(r)
  <2>1. ProcessOK'
    BY <1>4 DEF Handoff, TypeOK, ProcessOK
  <2>. QED
    BY <1>4, <2>1, GotoTyped, ThrowTyped, SteadyTyped, UnchangedTyped
       DEF Handoff, TypeOK
<1>5. CASE RunnerExits(r)
  <2>1. ProcessOK'
    BY <1>5 DEF RunnerExits, TypeOK, ProcessOK
  <2>. QED
    BY <1>5, <2>1, SubmitTyped, ThrowTyped, SteadyTyped, UnchangedTyped
       DEF RunnerExits, TypeOK
<1>6. CASE Catch(r)
  <2>1. Outcome(r) \in Outcomes
    BY <1>6 DEF Catch, Outcome, VerdictFits, Fits, Outcomes
  <2>2. verdict' \in [Runs -> Verdicts]
    BY <1>6, <2>1 DEF Catch, TypeOK, LocalOK, Outcomes, Verdicts
  <2>. QED
    BY <1>6, <2>2, SubmitTyped, SteadyTyped, UnchangedTyped DEF Catch, TypeOK
<1>7. CASE Finish(r)
  <2>1. ServiceOK'
    BY <1>7 DEF Finish, Forget, TypeOK, ServiceOK
  <2>. QED
    BY <1>7, <2>1, GotoTyped, SteadyTyped, UnchangedTyped DEF Finish, TypeOK
<1>. QED
  BY <1>1, <1>2, <1>3, <1>4, <1>5, <1>6, <1>7 DEF Execute

\* stopAgent and deleteAgent, outside the store.
LEMMA CancelTyped ==
  ASSUME TypeInv, NEW t \in Cancels,
         \/ Cancel(t)
         \/ t \in Stops /\ BeginStop(t)
         \/ t \in Deletes /\ (BeginDelete(t) \/ DeleteFiles(t))
  PROVE  TypeOK'
<1>. TypeOK /\ LockHolders /\ t \in Ops /\ AgentOf[t] \in Agents
  BY OpsFacts, AgentOfOps DEF TypeInv
<1>. {"refused", "killing", "draining", "awaitAdmissions", "awaitRun",
      "archiving", "unwinding", "awaitDelete"} \subseteq Steps
  BY DEF Steps, Answered
<1>. "settingStopped" \in Mutations /\ "removing" \in Mutations
  BY DEF Mutations
<1>1. CASE RunnerCancelled(t)
  BY <1>1, GotoTyped, SteadyTyped, UnchangedTyped DEF RunnerCancelled, TypeOK
<1>2. CASE Drain(t) \/ AdmissionsReleased(t) \/ ExecutionSettled(t)
  <2>1. ASSUME ReadExecution(t) PROVE StepsOK' /\ StoreOK'
    BY <2>1, GotoTyped, SubmitTyped, UnchangedTyped DEF ReadExecution, Proceed, store
  <2>2. StepsOK' /\ StoreOK'
    BY <1>2, <2>1, GotoTyped, UnchangedTyped
       DEF Drain, AdmissionsReleased, ExecutionSettled, store
  <2>3. ASSUME ReadExecution(t) PROVE waitFor' \in [Cancels -> SUBSET Runs]
    BY <2>3 DEF ReadExecution, TypeOK, ServiceOK, LocalOK
  <2>4. waitFor' \in [Cancels -> SUBSET Runs]
    BY <1>2, <2>3 DEF Drain, AdmissionsReleased, ExecutionSettled, Outstanding,
                      TypeOK, ServiceOK, LocalOK
  <2>5. LocalOK'
    BY <1>2, <2>4 DEF Drain, AdmissionsReleased, ExecutionSettled, TypeOK, LocalOK
  <2>. QED
    BY <1>2, <2>2, <2>5, UnchangedTyped
       DEF Drain, AdmissionsReleased, ExecutionSettled, TypeOK
<1>3. ASSUME RequestCancel(t), UNCHANGED <<runner, attempted, pending, active, gen, verdict>>,
             lock' \in [Agents -> Seq(Runs \cup Deletes)]
      PROVE  ServiceOK' /\ ProcessOK' /\ StepsOK' /\ LocalOK'
  <2>1. {runner[AgentOf[t]]} \ {None} \subseteq Runs
    BY DEF TypeOK, ProcessOK
  <2>2. StepsOK'
    BY <1>3, GotoTyped DEF RequestCancel
  <2>. QED
    BY <1>3, <2>1, <2>2
       DEF RequestCancel, RaiseFlag, TypeOK, ServiceOK, ProcessOK, LocalOK
<1>4. CASE BeginStop(t)
  BY <1>3, <1>4, GotoTyped, UnchangedTyped
     DEF BeginStop, TypeOK, ServiceOK, ProcessOK, LocalOK
<1>5. CASE t \in Deletes /\ BeginDelete(t)
  BY <1>5, JoinTyped, SteadyTyped, UnchangedTyped
     DEF BeginDelete, TypeOK, ServiceOK, FileOps
<1>6. CASE t \in Deletes /\ DeleteUnderLock(t)
  BY <1>3, <1>6, GotoTyped, ReleaseTyped, UnchangedTyped
     DEF DeleteUnderLock, TypeOK, ServiceOK, ProcessOK, LocalOK, FileOps
<1>7. CASE Archive(t) \/ Restore(t)
  <2>1. EnvironmentOK'
    BY <1>7 DEF Archive, Restore, TypeOK, EnvironmentOK
  <2>2. StepsOK' /\ StoreOK'
    BY <1>7, GotoTyped, SubmitTyped, UnchangedTyped DEF Archive, Restore
  <2>. QED
    BY <1>7, <2>1, <2>2, UnchangedTyped, LocalTyped DEF Archive, Restore, TypeOK
<1>. QED
  BY <1>1, <1>2, <1>4, <1>5, <1>6, <1>7 DEF Cancel, DeleteFiles

\* The commits of a Run's mutations: the verdict they write is an outcome or a
\* denial reason by VerdictFits.
LEMMA CommitRunTyped ==
  ASSUME TypeInv, NEW r \in Runs, CommitRun(r)
  PROVE  TypeOK'
<1>. TypeOK /\ VerdictFits /\ r \in Ops /\ AgentOf[r] \in Agents
  BY OpsFacts, AgentOfOps DEF TypeInv
<1>. {"returning", "launching", "marked", "caught", "evidenced", "resolved"}
     \subseteq Steps
  BY DEF Steps, Answered
<1>1. \A d \in {"allow", "deny"}, w \in DenialReasons \cup {"allowed"}, s \in BOOLEAN :
        SetReceipt(r, d, w, s) => receipt' \in [Runs -> Records]
  BY DEF SetReceipt, TypeOK, DatabaseOK, LocalOK, Records
<1>2. \A s \in Running \cup Terminal :
        SetRun(r, s) => run' \in [Runs -> Running \cup Terminal \cup {"none"}]
  BY DEF SetRun, TypeOK, DatabaseOK
<1>3. \A s \in AgentStatus : SetAgent(r, s) => agent' \in [Agents -> AgentStatus]
  BY DEF SetAgent, TypeOK, DatabaseOK
<1>. {"busy", "ready", "error"} \subseteq AgentStatus
  BY DEF AgentStatus
<1>. {"queued", "running", "denied", "completed"} \cup Outcomes
     \subseteq Running \cup Terminal
  BY DEF Running, Terminal, Outcomes
<1>4. \A o \in Outcomes \cup {"denied"}, s \in {"ready", "error"} :
        EndRun(r, o, s) => /\ run' \in [Runs -> Running \cup Terminal \cup {"none"}]
                           /\ agent' \in [Agents -> AgentStatus]
  BY <1>2, <1>3 DEF EndRun, TypeOK, DatabaseOK
<1>. UNCHANGED agent => agent' \in [Agents -> AgentStatus]
  BY DEF TypeOK, DatabaseOK
<1>. UNCHANGED run => run' \in [Runs -> Running \cup Terminal \cup {"none"}]
  BY DEF TypeOK, DatabaseOK
<1>. UNCHANGED receipt => receipt' \in [Runs -> Records]
  BY DEF TypeOK, DatabaseOK
<1>. UNCHANGED ent => ent' \in [Entitlements -> [gen : Nat, active : BOOLEAN]]
  BY DEF TypeOK, DatabaseOK
<1>5. CASE CommitDenial(r)
  <2>1. verdict[r] \in DenialReasons
    BY <1>5 DEF CommitDenial, Publish, VerdictFits, Fits
  <2>. QED
    BY <1>1, <1>2, <1>5, <2>1, PublishTyped, LocalTyped, UnchangedTyped
       DEF CommitDenial, RecordDenial, TypeOK, DatabaseOK
<1>6. CASE CommitAdmission(r)
  BY <1>1, <1>2, <1>3, <1>6, PublishTyped, LocalTyped, UnchangedTyped
     DEF CommitAdmission, TypeOK, DatabaseOK
<1>7. CASE CommitMark(r)
  <2>1. verdict' \in [Runs -> Verdicts]
    BY <1>7 DEF CommitMark, TypeOK, LocalOK, Verdicts
  <2>. QED
    BY <1>2, <1>7, <2>1, PublishTyped, LocalTyped DEF CommitMark, TypeOK, DatabaseOK
<1>8. CASE CommitEvidence(r)
  BY <1>1, <1>8, PublishTyped, LocalTyped, UnchangedTyped
     DEF CommitEvidence, TypeOK, DatabaseOK
<1>9. CASE CommitRetraction(r)
  <2>1. verdict' \in [Runs -> Verdicts]
    BY <1>9 DEF CommitRetraction, TypeOK, LocalOK, Verdicts
  <2>. QED
    BY <1>1, <1>9, <2>1, PublishTyped, LocalTyped
       DEF CommitRetraction, RestoreEvidence, TypeOK, DatabaseOK
<1>10. CASE CommitLateDenial(r)
  <2>1. "stale_entitlement_generation" \in DenialReasons
    BY DEF DenialReasons
  <2>. QED
    BY <1>1, <1>4, <1>10, <2>1, PublishTyped, LocalTyped, UnchangedTyped
       DEF CommitLateDenial, AfterLateDenial, TypeOK, DatabaseOK
<1>11. CASE CommitPreRunnerFailure(r)
  <2>1. verdict[r] \in Outcomes
    BY <1>11 DEF CommitPreRunnerFailure, Publish, VerdictFits, Fits
  <2>. QED
    BY <1>1, <1>4, <1>11, <2>1, PublishTyped, LocalTyped, UnchangedTyped
       DEF CommitPreRunnerFailure, RestoreEvidence, TypeOK, DatabaseOK
<1>12. CASE CommitFailure(r)
  <2>1. verdict[r] \in Outcomes
    BY <1>12 DEF CommitFailure, Publish, VerdictFits, Fits
  <2>. QED
    BY <1>4, <1>12, <2>1, PublishTyped, LocalTyped, UnchangedTyped
       DEF CommitFailure, TypeOK, DatabaseOK
<1>13. CASE CommitCompletion(r)
  BY <1>2, <1>3, <1>13, PublishTyped, LocalTyped, UnchangedTyped
     DEF CommitCompletion, TypeOK, DatabaseOK
<1>. QED
  BY <1>5, <1>6, <1>7, <1>8, <1>9, <1>10, <1>11, <1>12, <1>13 DEF CommitRun

\* The commits of stops, deletes, starts, grants and revokes.
LEMMA CommitOtherTyped ==
  ASSUME TypeInv,
         \/ \E s \in Stops : CommitStopped(s)
         \/ \E d \in Deletes : CommitRemoval(d)
         \/ \E t \in Starts : CommitReady(t)
         \/ \E t \in Grants : CommitGrant(t)
         \/ \E t \in Revokes : CommitRevoke(t)
  PROVE  TypeOK'
<1>. TypeOK
  BY DEF TypeInv
<1>. "returning" \in Steps /\ "done" \in Steps
  BY DEF Steps, Answered
<1>. {"stopped", "absent", "ready"} \subseteq AgentStatus
  BY DEF AgentStatus
<1>. UNCHANGED verdict => verdict' \in [Runs -> Verdicts]
  BY UnchangedTyped
<1>1. ASSUME NEW s \in Stops, CommitStopped(s) PROVE TypeOK'
  BY <1>1, PublishTyped, LocalTyped
     DEF CommitStopped, SetAgent, TypeOK, DatabaseOK
<1>2. ASSUME NEW d \in Deletes, CommitRemoval(d) PROVE TypeOK'
  <2>1. NoReceipt \in Records
    BY DEF NoReceipt, Records
  <2>2. DatabaseOK'
    BY <1>2, <2>1 DEF CommitRemoval, SetAgent, RemoveReceipts, TypeOK, DatabaseOK
  <2>. QED
    BY <1>2, <2>2, PublishTyped, LocalTyped DEF CommitRemoval, TypeOK
<1>3. ASSUME NEW t \in Starts, CommitReady(t) PROVE TypeOK'
  BY <1>3, PublishTyped, LocalTyped DEF CommitReady, SetAgent, TypeOK, DatabaseOK
<1>4. ASSUME NEW t \in Grants, CommitGrant(t) PROVE TypeOK'
  <2>1. \A e \in [gen : Nat, active : BOOLEAN] :
          NextEntitlement(e) \in [gen : Nat, active : BOOLEAN]
    BY DEF NextEntitlement
  <2>2. DatabaseOK'
    BY <1>4, <2>1 DEF CommitGrant, TypeOK, DatabaseOK
  <2>. QED
    BY <1>4, <2>2, PublishTyped, LocalTyped DEF CommitGrant, TypeOK
<1>5. ASSUME NEW t \in Revokes, CommitRevoke(t) PROVE TypeOK'
  <2>2. DatabaseOK'
    BY <1>5 DEF CommitRevoke, TypeOK, DatabaseOK
  <2>. QED
    BY <1>5, <2>2, PublishTyped, LocalTyped DEF CommitRevoke, TypeOK
<1>. QED
  BY <1>1, <1>2, <1>3, <1>4, <1>5

\* The store's mutations that are evaluated, rejected or fail to be written.
LEMMA StoreTyped ==
  ASSUME TypeInv,
         \E t \in Ops : StoreRejects(t) \/ StoreEvaluates(t) \/ StoreWriteFails(t)
  PROVE  TypeOK'
<1>. TypeOK
  BY DEF TypeInv
<1>1. ASSUME NEW t \in Ops, AtHead(t), MutationFails(t), faults' \in Nat
      PROVE  TypeOK'
  <2>1. AfterError(t) \in Steps
    BY DEF AfterError, Steps, Answered, Mutations
  <2>2. Tail(queue) \in Seq(Ops)
    BY <1>1, DequeueTyped
  <2>3. StoreOK'
    BY <1>1, <2>2, AppendFacts DEF MutationFails, StoreOK
  <2>4. StepsOK'
    BY <1>1, <2>1, GotoTyped DEF MutationFails
  <2>5. verdict' \in [Runs -> Verdicts]
    BY <1>1 DEF MutationFails, TypeOK, LocalOK, Verdicts
  <2>6. EnvironmentOK'
    BY <1>1 DEF MutationFails, TypeOK, EnvironmentOK
  <2>. QED
    BY <1>1, <2>3, <2>4, <2>5, <2>6, LocalTyped, UnchangedTyped
       DEF MutationFails, TypeOK
<1>2. ASSUME NEW t \in Ops, StoreRejects(t) PROVE TypeOK'
  BY <1>1, <1>2 DEF StoreRejects, TypeOK, EnvironmentOK
<1>3. ASSUME NEW t \in Ops, StoreEvaluates(t) PROVE TypeOK'
  BY <1>3, SteadyTyped, UnchangedTyped
     DEF StoreEvaluates, TypeOK, StoreOK, StepsOK
<1>4. ASSUME NEW t \in Ops, StoreWriteFails(t) PROVE TypeOK'
  BY <1>1, <1>4 DEF StoreWriteFails, TypeOK, EnvironmentOK
<1>. QED
  BY <1>2, <1>3, <1>4

\* startAgent, grant and revoke on arrival.
LEMMA RequestTyped ==
  ASSUME TypeInv,
         \/ \E t \in Starts : BeginStart(t)
         \/ \E t \in Grants : BeginGrant(t)
         \/ \E t \in Revokes : BeginRevoke(t)
  PROVE  TypeOK'
<1>. TypeOK
  BY DEF TypeInv
<1>. "refused" \in Steps /\ {"settingReady", "granting", "revoking"} \subseteq Mutations
  BY DEF Steps, Answered, Mutations
<1>1. ASSUME NEW t \in Starts, BeginStart(t) PROVE TypeOK'
  BY <1>1, OpsFacts, GotoTyped, SubmitTyped, SteadyTyped, UnchangedTyped
     DEF BeginStart, TypeOK, StoreOK
<1>2. ASSUME NEW t \in Grants, BeginGrant(t) PROVE TypeOK'
  BY <1>2, OpsFacts, GotoTyped, SubmitTyped, SteadyTyped, UnchangedTyped
     DEF BeginGrant, TypeOK, StoreOK
<1>3. ASSUME NEW t \in Revokes, BeginRevoke(t) PROVE TypeOK'
  BY <1>3, OpsFacts, GotoTyped, SubmitTyped, SteadyTyped, UnchangedTyped
     DEF BeginRevoke, TypeOK, StoreOK
<1>. QED
  BY <1>1, <1>2, <1>3

\* The finally clauses: the lock they release is held by LockHolders.
LEMMA UnwindTyped ==
  ASSUME TypeInv, NEW t \in Runs \cup Cancels, Unwind(t)
  PROVE  TypeOK'
<1>. TypeOK /\ LockHolders /\ t \in Ops /\ AgentOf[t] \in Agents
  BY OpsFacts, AgentOfOps DEF TypeInv
<1>. "refused" \in Steps /\ "done" \in Steps
  BY DEF Steps, Answered
<1>1. lock' \in [Agents -> Seq(Runs \cup Deletes)]
  <2>1. CASE t \in FileOps
    <3>1. HoldsLock(t)
      BY <2>1 DEF Unwind, LockHolders, HoldSteps, FileSteps
    <3>. QED
      BY <2>1, <3>1, ReleaseTyped DEF Unwind, FileOps
  <2>2. CASE t \notin FileOps
    BY <2>2 DEF Unwind, FileOps, TypeOK, ServiceOK
  <2>. QED
    BY <2>1, <2>2
<1>2. ServiceOK'
  BY <1>1 DEF Unwind, TypeOK, ServiceOK
<1>. QED
  BY <1>2, GotoTyped, SteadyTyped, UnchangedTyped DEF Unwind, TypeOK

\* A crash and the initialization after it.
LEMMA RestartTyped ==
  ASSUME TypeInv, Crash \/ Initialize
  PROVE  TypeOK'
<1>. TypeOK
  BY DEF TypeInv
<1>1. CASE Crash
  <2>1. "lost" \in Steps
    BY DEF Steps, Answered
  <2>2. StepsOK'
    BY <1>1, <2>1 DEF Crash, TypeOK, StepsOK
  <2>3. StoreOK' /\ ServiceOK'
    <3>1. \A S : <<>> \in Seq(S)
      BY EmptySeq
    <3>. QED
      BY <1>1, <3>1 DEF Crash, StoreOK, ServiceOK
  <2>4. ProcessOK'
    BY <1>1 DEF Crash, TypeOK, ProcessOK
  <2>5. EnvironmentOK'
    <3>1. archived' = archived /\ up' = FALSE /\ faults' = faults /\ crashes' = crashes + 1
      BY <1>1 DEF Crash
    <3>2. up' \in BOOLEAN
      BY <3>1, Zenon
    <3>3. archived' \subseteq Agents /\ faults' \in Nat /\ crashes' \in Nat
      BY <3>1 DEF TypeOK, EnvironmentOK
    <3>. QED
      BY <3>2, <3>3 DEF EnvironmentOK
  <2>. QED
    BY <1>1, <2>2, <2>3, <2>4, <2>5, UnchangedTyped, LocalTyped DEF Crash, TypeOK
<1>2. CASE Initialize
  <2>1. DatabaseOK'
    BY <1>2 DEF Initialize, RestartedRun, RestartedAgent, TypeOK, DatabaseOK,
                Terminal, AgentStatus
  <2>2. EnvironmentOK'
    BY <1>2 DEF Initialize, TypeOK, EnvironmentOK
  <2>. QED
    BY <1>2, <2>1, <2>2, UnchangedTyped DEF Initialize, TypeOK
<1>. QED
  BY <1>1, <1>2

\* Every step of the server, of its clients and of its environment is one of
\* the groups above.
LEMMA NextTyped ==
  ASSUME TypeInv, [Next]_vars
  PROVE  TypeOK'
<1>1. CASE Request
  BY <1>1, AdmitTyped, CancelTyped, RequestTyped, OpsFacts DEF Request
<1>2. CASE \E r \in Runs : Admit(r) \/ Execute(r)
  BY <1>2, AdmitTyped, ExecuteTyped
<1>3. CASE \/ \E t \in Cancels : Cancel(t)
           \/ \E d \in Deletes : DeleteFiles(d)
  BY <1>3, CancelTyped, OpsFacts
<1>4. CASE StoreStep \/ \E t \in Ops : StoreWriteFails(t)
  BY <1>4, CommitRunTyped, CommitOtherTyped, StoreTyped DEF StoreStep, CommitOp
<1>5. CASE \E t \in Runs \cup Cancels : Unwind(t)
  BY <1>5, UnwindTyped
<1>6. CASE Crash \/ Initialize
  BY <1>6, RestartTyped
<1>7. CASE UNCHANGED vars
  BY <1>7, UnchangedTyped DEF vars, TypeInv, TypeOK
<1>. QED
  BY <1>1, <1>2, <1>3, <1>4, <1>5, <1>6, <1>7 DEF Next, Rest

-----------------------------------------------------------------------------
(* Who is inside a file operation holds the lock *)

\* A step of t leaves every other holder alone, because a lock only grows at
\* its end or loses the head that is t.
LEMMA LockStep ==
  ASSUME TypeOK, LockHolders, NEW t \in Ops, NEW s, Goto(t, s),
         \/ UNCHANGED lock
         \/ t \in FileOps /\ lock' = [lock EXCEPT ![AgentOf[t]] = Append(@, t)]
         \/ t \in FileOps /\ HoldsLock(t) /\ ReleaseLock(t) /\ s \notin HoldSteps,
         t \in FileOps /\ s \in HoldSteps => HoldsLock(t)
  PROVE  LockHolders'
<1>1. SUFFICES ASSUME NEW u \in FileOps, pc'[u] \in HoldSteps
               PROVE  HoldsLock(u)'
  BY DEF LockHolders
<1>2. u \in Ops /\ AgentOf[u] \in Agents /\ AgentOf[t] \in Agents
  BY OpsFacts, AgentOfOps
<1>3. HoldsLock(u) /\ (u = t => s \in HoldSteps)
  BY <1>1, <1>2 DEF Goto, TypeOK, StepsOK, LockHolders
<1>4. CASE UNCHANGED lock
  BY <1>3, <1>4 DEF HoldsLock
<1>5. CASE t \in FileOps /\ lock' = [lock EXCEPT ![AgentOf[t]] = Append(@, t)]
  <2>1. lock[AgentOf[t]] \in Seq(FileOps)
    BY <1>2 DEF TypeOK, ServiceOK, FileOps
  <2>2. Append(lock[AgentOf[t]], t) # <<>>
    BY <1>5, <2>1, AppendFacts
  <2>3. lock[AgentOf[t]] # <<>> =>
          Head(Append(lock[AgentOf[t]], t)) = Head(lock[AgentOf[t]])
    BY <1>5, <2>1, AppendFacts
  <2>. QED
    BY <1>2, <1>3, <1>5, <2>2, <2>3 DEF HoldsLock, TypeOK, ServiceOK
<1>6. CASE t \in FileOps /\ HoldsLock(t) /\ ReleaseLock(t) /\ s \notin HoldSteps
  <2>1. AgentOf[u] # AgentOf[t]
    BY <1>3, <1>6 DEF HoldsLock
  <2>. QED
    BY <1>2, <1>3, <1>6, <2>1 DEF HoldsLock, ReleaseLock, TypeOK, ServiceOK
<1>. QED
  BY <1>4, <1>5, <1>6

\* A send works under the lock only once it is at the head of it.
LEMMA LockAdmit ==
  ASSUME TypeInv, NEW r \in Runs,
         \/ SendRefused(r) \/ SendBaseline(r) \/ SendCapsule(r) \/ Admit(r)
  PROVE  LockHolders'
<1>. TypeOK /\ LockHolders /\ r \in FileOps /\ r \in Ops
  BY OpsFacts DEF TypeInv, FileOps
<1>1. CASE SendRefused(r) \/ BeginValidation(r)
  BY <1>1, LockStep DEF SendRefused, BeginValidation, service, HoldSteps, FileSteps
<1>2. CASE SendBaseline(r) \/ SendCapsule(r) \/ PlanRefused(r) \/ PlanCompiled(r)
  BY <1>2, LockStep
     DEF SendBaseline, SendCapsule, PlanRefused, PlanCompiled, JoinLock, HoldSteps, FileSteps
<1>3. CASE LateNotFound(r)
  BY <1>3, LockStep DEF LateNotFound, HoldSteps, FileSteps
<1>4. CASE RequestAdmission(r) \/ RequestDenial(r)
  BY <1>4, LockStep DEF RequestAdmission, RequestDenial, Submit, service
<1>5. CASE Launch(r)
  <2>1. HoldsLock(r)
    BY <1>5 DEF Launch, LockHolders, HoldSteps, FileSteps
  <2>. QED
    BY <1>5, <2>1, LockStep DEF Launch, Submit, HoldSteps, FileSteps
<1>. QED
  BY <1>1, <1>2, <1>3, <1>4, <1>5 DEF Admit

\* An execution runs without the lock.
LEMMA LockExecute ==
  ASSUME TypeInv, NEW r \in Runs, Execute(r)
  PROVE  LockHolders'
<1>. TypeOK /\ LockHolders /\ r \in Ops
  BY OpsFacts DEF TypeInv
<1>1. UNCHANGED lock
  BY DEF Execute, CancelAfterMark, PrepareHome, PrepareHomeAborted, HomePrepared,
         RecheckAfterEvidence, DeriveAborted, WithdrawBeforeHandoff, Handoff,
         RunnerExits, Catch, Finish, service
<1>2. PICK s : Goto(r, s) /\ s \notin HoldSteps
  BY DEF Execute, CancelAfterMark, PrepareHome, PrepareHomeAborted, HomePrepared,
         RecheckAfterEvidence, DeriveAborted, WithdrawBeforeHandoff, Handoff,
         RunnerExits, Catch, Finish, Throw, Submit, HoldSteps, FileSteps
<1>. QED
  BY <1>1, <1>2, LockStep

\* A delete holds the lock from the moment it finds the Agent; a stop has none.
LEMMA LockCancel ==
  ASSUME TypeInv, NEW t \in Cancels,
         \/ Cancel(t)
         \/ t \in Stops /\ BeginStop(t)
         \/ t \in Deletes /\ (BeginDelete(t) \/ DeleteFiles(t))
  PROVE  LockHolders'
<1>. TypeOK /\ LockHolders /\ t \in Ops
  BY OpsFacts DEF TypeInv
<1>1. CASE t \in Stops /\ (BeginStop(t) \/ Cancel(t))
  <2>1. t \notin FileOps
    BY <1>1, OperationsDisjoint DEF FileOps, Cancels
  <2>2. UNCHANGED lock
    BY <1>1 DEF BeginStop, Cancel, RunnerCancelled, Drain, AdmissionsReleased,
                ExecutionSettled, service
  <2>3. \E s : Goto(t, s)
    BY <1>1 DEF BeginStop, RequestCancel, Cancel, RunnerCancelled, Drain,
                AdmissionsReleased, ExecutionSettled, ReadExecution, Proceed, Submit
  <2>. QED
    BY <2>1, <2>2, <2>3, LockStep
<1>2. CASE t \in Deletes /\ Cancel(t)
  <2>1. HoldsLock(t)
    BY <1>2 DEF Cancel, RunnerCancelled, Drain, AdmissionsReleased,
                ExecutionSettled, LockHolders, HoldSteps, FileSteps, FileOps
  <2>2. UNCHANGED lock
    BY <1>2 DEF Cancel, RunnerCancelled, Drain, AdmissionsReleased,
                ExecutionSettled, service
  <2>3. \E s : Goto(t, s)
    BY <1>2 DEF Cancel, RunnerCancelled, Drain, AdmissionsReleased,
                ExecutionSettled, ReadExecution, Proceed, Submit
  <2>. QED
    BY <2>1, <2>2, <2>3, LockStep
<1>3. CASE t \in Deletes /\ BeginDelete(t)
  BY <1>3, LockStep DEF BeginDelete, JoinLock, FileOps, HoldSteps, FileSteps
<1>4. CASE t \in Deletes /\ DeleteUnderLock(t)
  BY <1>4, LockStep DEF DeleteUnderLock, RequestCancel, FileOps, HoldSteps, FileSteps
<1>5. CASE t \in Deletes /\ (Archive(t) \/ Restore(t))
  <2>1. HoldsLock(t)
    BY <1>5 DEF Archive, Restore, LockHolders, HoldSteps, FileSteps, FileOps
  <2>. QED
    BY <1>5, <2>1, LockStep DEF Archive, Restore, Submit, service
<1>. QED
  BY <1>1, <1>2, <1>3, <1>4, <1>5 DEF DeleteFiles, Cancels

\* Whatever the store does for t, t was already where the lock was needed.
LEMMA LockStore ==
  ASSUME TypeInv,
         \/ StoreStep
         \/ \E t \in Ops : StoreWriteFails(t)
  PROVE  LockHolders'
<1>. TypeOK /\ LockHolders
  BY DEF TypeInv
<1>1. ASSUME NEW t \in Ops, NEW m, NEW s, Publish(t, m, s),
             s \in HoldSteps => t \notin FileOps \/ m \in HoldSteps
      PROVE  LockHolders'
  BY <1>1, LockStep DEF Publish, service, LockHolders
<1>2. ASSUME NEW r \in Runs, CommitRun(r) PROVE LockHolders'
  BY <1>1, <1>2, OpsFacts
     DEF CommitRun, CommitDenial, CommitAdmission, CommitMark, CommitEvidence,
         CommitRetraction, CommitLateDenial, AfterLateDenial,
         CommitPreRunnerFailure, CommitFailure, CommitCompletion, HoldSteps, FileSteps
<1>3. ASSUME NEW t \in Stops, CommitStopped(t) PROVE LockHolders'
  <2>1. t \notin FileOps
    BY OperationsDisjoint DEF FileOps, Cancels
  <2>. QED
    BY <1>1, <1>3, <2>1, OpsFacts DEF CommitStopped
<1>4. ASSUME NEW t \in Deletes, CommitRemoval(t) PROVE LockHolders'
  BY <1>1, <1>4, OpsFacts DEF CommitRemoval, HoldSteps, FileSteps
<1>5. ASSUME NEW t \in Ops, CommitReady(t) \/ CommitGrant(t) \/ CommitRevoke(t)
      PROVE  LockHolders'
  BY <1>1, <1>5 DEF CommitReady, CommitGrant, CommitRevoke, HoldSteps, FileSteps
<1>6. ASSUME NEW t \in Ops, MutationFails(t) PROVE LockHolders'
  <2>1. AfterError(t) \in HoldSteps => pc[t] \in HoldSteps
    BY DEF AfterError, HoldSteps, FileSteps
  <2>. QED
    BY <1>6, <2>1, LockStep DEF MutationFails, service, LockHolders
<1>7. ASSUME NEW t \in Ops, StoreEvaluates(t) PROVE LockHolders'
  BY <1>7 DEF StoreEvaluates, service, LockHolders, HoldsLock
<1>. QED
  BY <1>2, <1>3, <1>4, <1>5, <1>6, <1>7, OpsFacts
     DEF StoreStep, CommitOp, StoreRejects, StoreWriteFails

\* No step of anybody puts an operation inside the lock that does not hold it.
LEMMA LockNext ==
  ASSUME TypeInv, [Next]_vars
  PROVE  LockHolders'
<1>. TypeOK /\ LockHolders
  BY DEF TypeInv
<1>1. CASE Request
  <2>1. ASSUME NEW t \in Ops, BeginStart(t) \/ BeginGrant(t) \/ BeginRevoke(t)
        PROVE  LockHolders'
    BY <2>1, LockStep
       DEF BeginStart, BeginGrant, BeginRevoke, Submit, service, HoldSteps, FileSteps
  <2>. QED
    BY <1>1, <2>1, LockAdmit, LockCancel, OpsFacts DEF Request
<1>2. CASE \E r \in Runs : Admit(r) \/ Execute(r)
  BY <1>2, LockAdmit, LockExecute
<1>3. CASE \/ \E t \in Cancels : Cancel(t)
           \/ \E d \in Deletes : DeleteFiles(d)
  BY <1>3, LockCancel, OpsFacts
<1>4. CASE StoreStep \/ \E t \in Ops : StoreWriteFails(t)
  BY <1>4, LockStore
<1>5. ASSUME NEW t \in Runs \cup Cancels, Unwind(t) PROVE LockHolders'
  <2>1. CASE t \in FileOps
    <3>1. HoldsLock(t)
      BY <1>5, <2>1 DEF Unwind, LockHolders, HoldSteps, FileSteps
    <3>. QED
      BY <1>5, <2>1, <3>1, LockStep, OpsFacts DEF Unwind, FileOps, HoldSteps, FileSteps
  <2>2. CASE t \notin FileOps
    BY <1>5, <2>2, LockStep, OpsFacts DEF Unwind, FileOps
  <2>. QED
    BY <2>1, <2>2
<1>6. CASE Crash
  <2>1. \A t \in Ops : pc'[t] \in Answered \cup {"idle"}
    BY <1>6 DEF Crash, Answered
  <2>. QED
    BY <2>1, OpsFacts DEF LockHolders, HoldSteps, FileSteps, Answered
<1>7. CASE Initialize \/ UNCHANGED vars
  BY <1>7 DEF Initialize, vars, service, control, LockHolders, HoldsLock
<1>. QED
  BY <1>1, <1>2, <1>3, <1>4, <1>5, <1>6, <1>7 DEF Next, Rest

-----------------------------------------------------------------------------
(* The verdict of a Run is what its next mutation may write *)

\* A step of one operation concerns only its own verdict.
LEMMA VerdictStep ==
  ASSUME TypeInv, NEW t \in Ops, NEW s, Goto(t, s),
         \/ UNCHANGED verdict
         \/ \E o : verdict' = [verdict EXCEPT ![t] = o],
         t \in Runs => Fits(t)'
  PROVE  VerdictFits'
  BY OpsFacts DEF TypeInv, TypeOK, StepsOK, LocalOK, Goto, VerdictFits, Fits

\* A step to a place where no verdict is due.
LEMMA VerdictIdle ==
  ASSUME TypeInv, NEW t \in Ops, NEW s, Goto(t, s),
         s \notin {"awaitDeny", "denying", "caught", "lateRetrying", "prefailing",
                   "failing"},
         \/ UNCHANGED verdict
         \/ \E o : verdict' = [verdict EXCEPT ![t] = o]
  PROVE  VerdictFits'
<1>1. pc'[t] = s
  BY DEF TypeInv, TypeOK, StepsOK, Goto
<1>. QED
  BY <1>1, VerdictStep DEF Fits

\* What a throw leaves is an outcome.
LEMMA VerdictThrow ==
  ASSUME TypeInv, NEW r \in Runs, NEW o \in Outcomes, Throw(r, o)
  PROVE  VerdictFits'
<1>1. r \in Ops
  BY OpsFacts
<1>2. pc'[r] = "caught" /\ verdict'[r] = o
  BY <1>1 DEF TypeInv, TypeOK, StepsOK, LocalOK, Throw, Goto
<1>. QED
  BY <1>1, <1>2, VerdictStep DEF Throw, Fits

\* A send waits to be denied only with a reason to deny it for.
LEMMA VerdictAdmit ==
  ASSUME TypeInv, NEW r \in Runs,
         \/ SendRefused(r) \/ SendBaseline(r) \/ SendCapsule(r) \/ Admit(r)
  PROVE  VerdictFits'
<1>. r \in Ops
  BY OpsFacts
<1>1. CASE \/ SendRefused(r) \/ SendBaseline(r) \/ BeginValidation(r)
           \/ PlanCompiled(r) \/ LateNotFound(r) \/ RequestAdmission(r) \/ Launch(r)
  BY <1>1, VerdictIdle
     DEF SendRefused, SendBaseline, BeginValidation, PlanCompiled, LateNotFound,
         RequestAdmission, Launch, JoinLock, Submit
<1>2. CASE SendCapsule(r)
  <2>1. Authorization(r) \in DenialReasons \cup {"allowed"}
    BY DEF Authorization, DenialReasons
  <2>2. CASE Goto(r, "authorized") /\ UNCHANGED verdict
    BY <2>2, VerdictIdle
  <2>3. CASE /\ Authorization(r) # "allowed" /\ Goto(r, "awaitDeny")
             /\ verdict' = [verdict EXCEPT ![r] = Authorization(r)]
    <3>1. pc'[r] = "awaitDeny" /\ verdict'[r] \in DenialReasons
      BY <2>1, <2>3 DEF TypeInv, TypeOK, StepsOK, LocalOK, Goto
    <3>. QED
      BY <2>3, <3>1, VerdictStep DEF Fits
  <2>. QED
    BY <1>2, <2>2, <2>3 DEF SendCapsule, JoinLock
<1>3. CASE PlanRefused(r)
  <2>1. PICK why \in DenialReasons : verdict' = [verdict EXCEPT ![r] = why]
    BY <1>3 DEF PlanRefused
  <2>2. pc'[r] = "awaitDeny" /\ verdict'[r] \in DenialReasons
    BY <1>3, <2>1 DEF PlanRefused, JoinLock, TypeInv, TypeOK, StepsOK, LocalOK, Goto
  <2>. QED
    BY <1>3, <2>1, <2>2, VerdictStep DEF PlanRefused, JoinLock, Fits
<1>4. CASE RequestDenial(r)
  <2>1. pc'[r] = "denying" /\ verdict'[r] \in DenialReasons
    BY <1>4 DEF RequestDenial, Submit, Goto, TypeInv, TypeOK, StepsOK, VerdictFits, Fits
  <2>. QED
    BY <1>4, <2>1, VerdictStep DEF RequestDenial, Submit, Fits
<1>. QED
  BY <1>1, <1>2, <1>3, <1>4 DEF Admit

\* The catch clause passes an outcome on to the terminal mutation.
LEMMA VerdictExecute ==
  ASSUME TypeInv, NEW r \in Runs, Execute(r)
  PROVE  VerdictFits'
<1>. r \in Ops /\ "failed" \in Outcomes /\ "cancelled" \in Outcomes
  BY OpsFacts DEF Outcomes
<1>1. CASE \/ CancelAfterMark(r) \/ PrepareHome(r) \/ PrepareHomeAborted(r)
           \/ HomePrepared(r) \/ RecheckAfterEvidence(r) \/ DeriveAborted(r)
           \/ WithdrawBeforeHandoff(r) \/ Handoff(r) \/ RunnerExits(r) \/ Finish(r)
  BY <1>1, VerdictThrow, VerdictIdle
     DEF CancelAfterMark, PrepareHome, PrepareHomeAborted, HomePrepared,
         RecheckAfterEvidence, DeriveAborted, WithdrawBeforeHandoff, Handoff,
         RunnerExits, Finish, Submit
<1>2. CASE Catch(r)
  <2>1. verdict'[r] \in Outcomes
    BY <1>2 DEF Catch, Outcome, VerdictFits, Fits, Outcomes, TypeInv, TypeOK, LocalOK
  <2>2. PICK s \in {"failing", "lateRetrying", "prefailing"} : Goto(r, s)
    BY <1>2 DEF Catch, Submit
  <2>3. pc'[r] = s
    BY <2>2 DEF Goto, TypeInv, TypeOK, StepsOK
  <2>. QED
    BY <1>2, <2>1, <2>2, <2>3, VerdictStep DEF Catch, Fits
<1>. QED
  BY <1>1, <1>2 DEF Execute

\* Stops and deletes have no verdict.
LEMMA VerdictCancel ==
  ASSUME TypeInv, NEW t \in Cancels,
         \/ Cancel(t)
         \/ t \in Stops /\ BeginStop(t)
         \/ t \in Deletes /\ (BeginDelete(t) \/ DeleteFiles(t))
  PROVE  VerdictFits'
<1>1. t \in Ops /\ t \notin Runs
  BY OpsFacts, OperationsDisjoint
<1>2. UNCHANGED verdict
  BY DEF Cancel, RunnerCancelled, Drain, AdmissionsReleased, ExecutionSettled,
         BeginStop, BeginDelete, DeleteFiles, DeleteUnderLock, Archive, Restore
<1>3. \E s : Goto(t, s)
  BY DEF Cancel, RunnerCancelled, Drain, AdmissionsReleased, ExecutionSettled,
         ReadExecution, Proceed, BeginStop, BeginDelete, DeleteFiles,
         DeleteUnderLock, RequestCancel, Archive, Restore, Submit, JoinLock
<1>. QED
  BY <1>1, <1>2, <1>3, VerdictStep

\* An error of a mutation turns into the outcome failed, or keeps the verdict.
LEMMA VerdictStore ==
  ASSUME TypeInv,
         \/ StoreStep
         \/ \E t \in Ops : StoreWriteFails(t)
  PROVE  VerdictFits'
<1>1. ASSUME NEW r \in Runs, CommitRun(r) PROVE VerdictFits'
  <2>. r \in Ops /\ "cancelled" \in Outcomes
    BY OpsFacts DEF Outcomes
  <2>1. CASE CommitMark(r) \/ CommitRetraction(r)
    <3>1. CASE Goto(r, "marked") /\ UNCHANGED verdict
      BY <3>1, VerdictIdle
    <3>2. CASE Throw(r, "cancelled")
      BY <3>2, VerdictThrow
    <3>. QED
      BY <2>1, <3>1, <3>2 DEF CommitMark, CommitRetraction, Publish, Throw
  <2>2. CASE \/ CommitDenial(r) \/ CommitAdmission(r) \/ CommitEvidence(r)
             \/ CommitLateDenial(r) \/ CommitPreRunnerFailure(r)
             \/ CommitFailure(r) \/ CommitCompletion(r)
    BY <2>2, VerdictIdle
       DEF CommitDenial, CommitAdmission, CommitEvidence, CommitLateDenial,
           AfterLateDenial, CommitPreRunnerFailure, CommitFailure,
           CommitCompletion, Publish
  <2>. QED
    BY <1>1, <2>1, <2>2 DEF CommitRun
<1>2. ASSUME NEW t \in Ops,
             \/ CommitStopped(t) \/ CommitRemoval(t) \/ CommitReady(t)
             \/ CommitGrant(t) \/ CommitRevoke(t)
      PROVE  VerdictFits'
  BY <1>2, VerdictIdle
     DEF CommitStopped, CommitRemoval, CommitReady, CommitGrant, CommitRevoke, Publish
<1>3. ASSUME NEW t \in Ops, MutationFails(t) PROVE VerdictFits'
  <2>1. Goto(t, AfterError(t))
    BY <1>3 DEF MutationFails
  <2>2. CASE AfterError(t) = "caught"
    <3>1. t \in Runs => pc'[t] = "caught" /\ verdict'[t] = "failed"
      BY <1>3, <2>1, <2>2
         DEF MutationFails, Goto, TypeInv, TypeOK, StepsOK, LocalOK
    <3>. QED
      BY <1>3, <2>1, <2>2, <3>1, VerdictStep DEF MutationFails, Fits, Outcomes
  <2>3. CASE pc[t] = "lateRetrying"
    <3>1. AfterError(t) = "prefailing"
      BY <2>3 DEF AfterError
    <3>2. UNCHANGED verdict
      BY <1>3, <3>1 DEF MutationFails
    <3>3. pc'[t] = "prefailing"
      BY <2>1, <3>1 DEF Goto, TypeInv, TypeOK, StepsOK
    <3>. QED
      BY <2>1, <2>3, <3>2, <3>3, VerdictStep DEF Fits, VerdictFits, TypeInv
  <2>4. CASE AfterError(t) # "caught" /\ pc[t] # "lateRetrying"
    <3>1. AfterError(t) \notin {"awaitDeny", "denying", "caught", "lateRetrying",
                                "prefailing", "failing"}
      BY <2>4 DEF AfterError
    <3>. QED
      BY <1>3, <2>1, <2>4, <3>1, VerdictIdle DEF MutationFails
  <2>. QED
    BY <2>2, <2>3, <2>4
<1>4. ASSUME NEW t \in Ops, StoreEvaluates(t) PROVE VerdictFits'
  BY <1>4 DEF StoreEvaluates, TypeInv, VerdictFits, Fits
<1>. QED
  BY <1>1, <1>2, <1>3, <1>4, OpsFacts
     DEF StoreStep, CommitOp, StoreRejects, StoreWriteFails

\* Every step keeps the verdicts fit for the mutations that will write them.
LEMMA VerdictNext ==
  ASSUME TypeInv, [Next]_vars
  PROVE  VerdictFits'
<1>1. CASE Request
  <2>1. ASSUME NEW t \in Ops, BeginStart(t) \/ BeginGrant(t) \/ BeginRevoke(t)
        PROVE  VerdictFits'
    BY <2>1, VerdictIdle DEF BeginStart, BeginGrant, BeginRevoke, Submit
  <2>. QED
    BY <1>1, <2>1, VerdictAdmit, VerdictCancel, OpsFacts DEF Request
<1>2. CASE \E r \in Runs : Admit(r) \/ Execute(r)
  BY <1>2, VerdictAdmit, VerdictExecute
<1>3. CASE \/ \E t \in Cancels : Cancel(t)
           \/ \E d \in Deletes : DeleteFiles(d)
  BY <1>3, VerdictCancel, OpsFacts
<1>4. CASE StoreStep \/ \E t \in Ops : StoreWriteFails(t)
  BY <1>4, VerdictStore
<1>5. CASE \E t \in Runs \cup Cancels : Unwind(t)
  BY <1>5, VerdictIdle, OpsFacts DEF Unwind
<1>6. CASE Crash
  <2>1. \A t \in Ops : pc'[t] \in Answered \cup {"idle"}
    BY <1>6 DEF Crash, Answered
  <2>. QED
    BY <2>1, OpsFacts DEF VerdictFits, Fits, Answered
<1>7. CASE Initialize \/ UNCHANGED vars
  BY <1>7 DEF Initialize, vars, control, TypeInv, VerdictFits, Fits
<1>. QED
  BY <1>1, <1>2, <1>3, <1>4, <1>5, <1>6, <1>7 DEF Next, Rest

-----------------------------------------------------------------------------
(* The theorems *)

\* The freshly seeded server satisfies the invariant.
LEMMA InitTypeInv == Init => TypeInv
<1>. SUFFICES ASSUME Init PROVE TypeInv
  OBVIOUS
<1>1. DatabaseOK
  <2>1. NoReceipt \in Records
    BY DEF NoReceipt, Records
  <2>. QED
    BY <2>1 DEF Init, DatabaseOK, AgentStatus
<1>2. \A S : <<>> \in Seq(S)
  BY EmptySeq
<1>3. StoreOK /\ ServiceOK /\ ProcessOK
  BY <1>2 DEF Init, StoreOK, ServiceOK, ProcessOK
<1>4. StepsOK
  BY DEF Init, StepsOK, Steps
<1>5. LocalOK
  BY DEF Init, LocalOK, Verdicts
<1>6. EnvironmentOK
  BY DEF Init, EnvironmentOK
<1>7. \A t \in Ops : pc[t] = "idle"
  BY DEF Init
<1>8. LockHolders /\ VerdictFits
  BY <1>7, OpsFacts DEF LockHolders, HoldSteps, FileSteps, VerdictFits, Fits
<1>. QED
  BY <1>1, <1>3, <1>4, <1>5, <1>6, <1>8 DEF TypeInv, TypeOK

\* Every step preserves the invariant.
LEMMA TypeInvInductive == TypeInv /\ [Next]_vars => TypeInv'
  BY NextTyped, LockNext, VerdictNext DEF TypeInv

\* The inductive invariant holds in every reachable state.
THEOREM TypeInvCorrect == Spec => []TypeInv
  BY InitTypeInv, TypeInvInductive, PTL DEF Spec

\* Statuses, Receipts, sequences and steps stay among the values the code
\* gives them, through any number of failed writes and restarts.
THEOREM TypeCorrect == Spec => []TypeOK
<1>1. TypeInv => TypeOK
  BY DEF TypeInv
<1>. QED
  BY <1>1, TypeInvCorrect, PTL

\* withAgentFileOperation excludes: of all sends and deletes of one Agent, at
\* most one is between its lock and its release.
THEOREM FileOperationsExclude == Spec => []OneFileOperation
<1>1. TypeInv => OneFileOperation
  BY DEF TypeInv, LockHolders, HoldSteps, OneFileOperation, FileOps, HoldsLock
<1>. QED
  BY <1>1, TypeInvCorrect, PTL

-----------------------------------------------------------------------------
(***************************************************************************)
(* A Receipt that denies with stale_entitlement_generation stays right     *)
(* through every later grant and revoke, for every instance.               *)
(*                                                                         *)
(* The reason is an ordering: what a request was authorized with, and what *)
(* a Receipt names, is a generation the ledger has already reached, and a  *)
(* grant that revives a pair opens a new one.  So "no longer current",     *)
(* once seen, stays true while the denial waits for its lock, for the      *)
(* store and for a second attempt.                                         *)
(***************************************************************************)
Stale == "stale_entitlement_generation"

\* The steps that only a Capsule Run takes.
CapsuleSteps ==
  {"authorized", "validating", "awaitDeny", "denying", "evidencing", "evidenced",
   "retracting", "lateDenying", "lateRetrying", "prefailing"}

\* The Entitlement of r, if it has one, has reached generation g.
Reached(r, g) == ent[PairOf(r)].gen >= g

\* A denial of r for staleness is on its way to the store.
Denying(r) ==
  \/ pc[r] \in {"awaitDeny", "denying"} /\ verdict[r] = Stale
  \/ pc[r] \in {"lateDenying", "lateRetrying"}

DenialHolds(r) ==
  receipt[r].reason = Stale =>
    ~ (ent[PairOf(r)].active /\ ent[PairOf(r)].gen = receipt[r].gen)

\* What is known of the Entitlement of r.
Known(r) ==
  /\ pc[r] \in CapsuleSteps => Capsule(r)
  /\ ~Capsule(r) => receipt[r] = NoReceipt
  /\ Capsule(r) => Reached(r, gen[r]) /\ Reached(r, receipt[r].gen)
  /\ Denying(r) => ~Current(r)
  /\ DenialHolds(r)

StaleInv == \A r \in Runs : Known(r)

-----------------------------------------------------------------------------
(* Building blocks *)

\* A Capsule request names a pair of the ledger.
LEMMA PairInLedger ==
  ASSUME NEW t \in Ops, ResourceOf[t] # None
  PROVE  PairOf(t) \in Entitlements
  BY ConstantsAssumption DEF PairOf, Entitlements

\* A step of t that leaves the ledger alone concerns no other Run.
LEMMA KnownStep ==
  ASSUME TypeInv, StaleInv, NEW t \in Ops, NEW s, Goto(t, s), UNCHANGED ent,
         \/ UNCHANGED gen
         \/ \E g : gen' = [gen EXCEPT ![t] = g],
         \/ UNCHANGED verdict
         \/ \E o : verdict' = [verdict EXCEPT ![t] = o],
         \/ UNCHANGED receipt
         \/ \E c : receipt' = [receipt EXCEPT ![t] = c],
         t \in Runs => Known(t)'
  PROVE  StaleInv'
<1>. SUFFICES ASSUME NEW r \in Runs, r # t PROVE Known(r)'
  BY DEF StaleInv
<1>1. /\ pc'[r] = pc[r] /\ gen'[r] = gen[r]
      /\ verdict'[r] = verdict[r] /\ receipt'[r] = receipt[r]
  BY OpsFacts DEF TypeInv, TypeOK, DatabaseOK, StepsOK, LocalOK, Goto
<1>2. Known(r)
  BY DEF StaleInv
<1>. QED
  BY <1>1, <1>2 DEF Known, Reached, Denying, DenialHolds, Current, Capsule, PairOf

\* A step of t to where nothing about its Entitlement is known.
LEMMA KnownIdle ==
  ASSUME TypeInv, StaleInv, NEW t \in Ops, NEW s, Goto(t, s),
         UNCHANGED <<ent, gen, receipt>>,
         \/ UNCHANGED verdict
         \/ \E o : verdict' = [verdict EXCEPT ![t] = o],
         s \notin CapsuleSteps
  PROVE  StaleInv'
<1>1. pc'[t] = s
  BY DEF TypeInv, TypeOK, StepsOK, Goto
<1>2. ASSUME t \in Runs PROVE Known(t)'
  <2>1. Known(t)
    BY <1>2 DEF StaleInv
  <2>. QED
    BY <1>1, <2>1 DEF Known, Reached, Denying, DenialHolds, Capsule, PairOf, CapsuleSteps
<1>. QED
  BY <1>2, KnownStep

\* A step of a Capsule Run t that keeps its gen and Receipt, to where at most a
\* denial is on its way that the ledger bears out.
LEMMA KnownMove ==
  ASSUME TypeInv, StaleInv, NEW t \in Runs, Capsule(t), NEW s, Goto(t, s),
         UNCHANGED <<ent, gen, receipt>>,
         \/ UNCHANGED verdict
         \/ \E o : verdict' = [verdict EXCEPT ![t] = o],
         \/ ~Current(t)
         \/ s \notin {"awaitDeny", "denying", "lateDenying", "lateRetrying"}
         \/ s \in {"awaitDeny", "denying"} /\ verdict'[t] # Stale
  PROVE  StaleInv'
<1>1. t \in Ops
  BY OpsFacts
<1>2. pc'[t] = s
  BY <1>1 DEF TypeInv, TypeOK, StepsOK, Goto
<1>3. Known(t)
  BY DEF StaleInv
<1>4. Current(t)' <=> Current(t)
  BY DEF Current, PairOf
<1>5. Denying(t)' => ~Current(t)'
  BY <1>2, <1>4 DEF Denying
<1>6. Known(t)'
  BY <1>3, <1>5 DEF Known, Reached, DenialHolds, Capsule, PairOf
<1>. QED
  BY <1>1, <1>6, KnownStep

-----------------------------------------------------------------------------
(* One step per action *)

\* A send reads its generation from the ledger, and waits to be denied as stale
\* only after it saw that the generation has passed.
LEMMA KnownAdmit ==
  ASSUME TypeInv, StaleInv, NEW r \in Runs,
         \/ SendRefused(r) \/ SendBaseline(r) \/ SendCapsule(r) \/ Admit(r)
  PROVE  StaleInv'
<1>. r \in Ops /\ Known(r)
  BY OpsFacts DEF StaleInv
<1>1. CASE \/ SendRefused(r) \/ SendBaseline(r) \/ PlanCompiled(r)
           \/ LateNotFound(r) \/ RequestAdmission(r) \/ Launch(r)
  BY <1>1, KnownIdle
     DEF SendRefused, SendBaseline, PlanCompiled, LateNotFound, RequestAdmission,
         Launch, JoinLock, Submit, steady, database, CapsuleSteps
<1>2. CASE SendCapsule(r)
  <2>1. PairOf(r) \in Entitlements /\ Capsule(r)
    BY <1>2, PairInLedger DEF SendCapsule, Capsule
  <2>2. ent[PairOf(r)].gen \in Nat
    BY <2>1 DEF TypeInv, TypeOK, DatabaseOK
  <2>3. Reached(r, DecisionGeneration(r))
    BY <2>2 DEF Reached, DecisionGeneration
  <2>4. gen'[r] = DecisionGeneration(r)
    BY <1>2 DEF SendCapsule, TypeInv, TypeOK, LocalOK
  <2>5. pc'[r] = "authorized" \/ (pc'[r] = "awaitDeny" /\ verdict'[r] # Stale)
    <3>1. Authorization(r) # Stale
      BY DEF Authorization, Stale
    <3>. QED
      BY <1>2, <3>1
         DEF SendCapsule, JoinLock, Goto, TypeInv, TypeOK, StepsOK, LocalOK
  <2>6. Known(r)'
    BY <1>2, <2>1, <2>3, <2>4, <2>5
       DEF SendCapsule, database, Known, Reached, Denying, DenialHolds, Capsule, PairOf
  <2>. QED
    BY <1>2, <2>6, KnownStep DEF SendCapsule, JoinLock, database
<1>3. CASE BeginValidation(r)
  <2>1. Capsule(r)
    BY <1>3 DEF BeginValidation, Known, CapsuleSteps
  <2>. QED
    BY <1>3, <2>1, KnownMove DEF BeginValidation, steady, database
<1>4. CASE PlanRefused(r)
  <2>1. PICK why \in DenialReasons :
          PlanFails(r, why) /\ verdict' = [verdict EXCEPT ![r] = why]
    BY <1>4 DEF PlanRefused
  <2>2. ~Current(r) \/ verdict'[r] # Stale
    BY <2>1 DEF PlanFails, Stale, TypeInv, TypeOK, LocalOK
  <2>3. Capsule(r)
    BY <1>4 DEF PlanRefused, Known, CapsuleSteps
  <2>. QED
    BY <1>4, <2>1, <2>2, <2>3, KnownMove DEF PlanRefused, JoinLock, steady, database
<1>5. CASE RequestDenial(r)
  <2>1. Capsule(r) /\ (~Current(r) \/ verdict[r] # Stale)
    BY <1>5 DEF RequestDenial, Known, Denying, CapsuleSteps
  <2>. QED
    BY <1>5, <2>1, KnownMove DEF RequestDenial, Submit, steady, database
<1>. QED
  BY <1>1, <1>2, <1>3, <1>4, <1>5 DEF Admit

\* An execution queues a late denial only when the ledger has moved on.
LEMMA KnownExecute ==
  ASSUME TypeInv, StaleInv, NEW r \in Runs, Execute(r)
  PROVE  StaleInv'
<1>. r \in Ops /\ Known(r)
  BY OpsFacts DEF StaleInv
<1>1. CASE \/ CancelAfterMark(r) \/ PrepareHome(r) \/ PrepareHomeAborted(r)
           \/ DeriveAborted(r) \/ Handoff(r) \/ RunnerExits(r) \/ Finish(r)
  BY <1>1, KnownIdle
     DEF CancelAfterMark, PrepareHome, PrepareHomeAborted, DeriveAborted, Handoff,
         RunnerExits, Finish, Throw, Submit, steady, database, CapsuleSteps
<1>2. CASE HomePrepared(r)
  <2>1. CASE ~Capsule(r) /\ Goto(r, "deriving")
    BY <1>2, <2>1, KnownIdle DEF HomePrepared, steady, database, CapsuleSteps
  <2>2. CASE Capsule(r) /\ Submit(r, "evidencing")
    BY <1>2, <2>2, KnownMove DEF HomePrepared, Submit, steady, database
  <2>3. CASE Capsule(r) /\ ~Current(r) /\ Submit(r, "lateDenying")
    BY <1>2, <2>3, KnownMove DEF HomePrepared, Submit, steady, database
  <2>. QED
    BY <1>2, <2>1, <2>2, <2>3 DEF HomePrepared
<1>3. CASE RecheckAfterEvidence(r)
  <2>1. Capsule(r)
    BY <1>3 DEF RecheckAfterEvidence, Known, CapsuleSteps
  <2>. QED
    BY <1>3, <2>1, KnownMove DEF RecheckAfterEvidence, Submit, steady, database
<1>4. CASE WithdrawBeforeHandoff(r)
  BY <1>4, KnownMove DEF WithdrawBeforeHandoff, Submit, steady, database
<1>5. CASE Catch(r)
  <2>1. CASE Submit(r, "failing")
    BY <1>5, <2>1, KnownIdle DEF Catch, Submit, steady, database, CapsuleSteps
  <2>2. CASE PreRunner(r) /\ ~Current(r) /\ Submit(r, "lateRetrying")
    BY <1>5, <2>2, KnownMove DEF Catch, PreRunner, Submit, steady, database
  <2>3. CASE PreRunner(r) /\ Submit(r, "prefailing")
    BY <1>5, <2>3, KnownMove DEF Catch, PreRunner, Submit, steady, database
  <2>. QED
    BY <1>5, <2>1, <2>2, <2>3 DEF Catch
<1>. QED
  BY <1>1, <1>2, <1>3, <1>4, <1>5 DEF Execute

\* Stops and deletes read nothing of the ledger.
LEMMA KnownCancel ==
  ASSUME TypeInv, StaleInv, NEW t \in Cancels,
         \/ Cancel(t)
         \/ t \in Stops /\ BeginStop(t)
         \/ t \in Deletes /\ (BeginDelete(t) \/ DeleteFiles(t))
  PROVE  StaleInv'
<1>1. t \in Ops
  BY OpsFacts
<1>2. UNCHANGED <<ent, gen, receipt, verdict>>
  BY DEF Cancel, RunnerCancelled, Drain, AdmissionsReleased, ExecutionSettled,
         BeginStop, BeginDelete, DeleteFiles, DeleteUnderLock, Archive, Restore,
         steady, database
<1>3. \E s : Goto(t, s) /\ s \notin CapsuleSteps
  BY DEF Cancel, RunnerCancelled, Drain, AdmissionsReleased, ExecutionSettled,
         ReadExecution, Proceed, BeginStop, BeginDelete, DeleteFiles,
         DeleteUnderLock, RequestCancel, Archive, Restore, Submit, JoinLock,
         CapsuleSteps
<1>. QED
  BY <1>1, <1>2, <1>3, KnownIdle

\* A commit of the Receipt of r names the generation r was authorized with,
\* and calls it stale only when it is.
LEMMA KnownReceipt ==
  ASSUME TypeInv, StaleInv, NEW r \in Runs, Capsule(r), NEW s, Goto(r, s),
         s \notin {"awaitDeny", "denying", "lateDenying", "lateRetrying"},
         UNCHANGED <<ent, gen>>,
         \/ UNCHANGED verdict
         \/ \E o : verdict' = [verdict EXCEPT ![r] = o],
         NEW decision, NEW why, NEW started, SetReceipt(r, decision, why, started),
         why = Stale => ~Current(r)
  PROVE  StaleInv'
<1>1. r \in Ops /\ Known(r)
  BY OpsFacts DEF StaleInv
<1>2. pc'[r] = s
  BY <1>1 DEF TypeInv, TypeOK, StepsOK, Goto
<1>3. receipt'[r].gen = gen[r] /\ receipt'[r].reason = why
  BY DEF SetReceipt, TypeInv, TypeOK, DatabaseOK
<1>4. Known(r)'
  BY <1>1, <1>2, <1>3
     DEF Known, Reached, Denying, DenialHolds, Current, Capsule, PairOf
<1>. QED
  BY <1>1, <1>4, KnownStep DEF SetReceipt

\* The commits of a Run.
LEMMA KnownCommitRun ==
  ASSUME TypeInv, StaleInv, NEW r \in Runs, CommitRun(r)
  PROVE  StaleInv'
<1>. r \in Ops /\ Known(r)
  BY OpsFacts DEF StaleInv
<1>. "allowed" # Stale
  BY DEF Stale
<1>1. CASE CommitMark(r) \/ CommitFailure(r) \/ CommitCompletion(r)
  BY <1>1, KnownIdle
     DEF CommitMark, CommitFailure, CommitCompletion, Publish, CapsuleSteps
<1>2. CASE CommitDenial(r)
  <2>1. Capsule(r) /\ (verdict[r] = Stale => ~Current(r))
    BY <1>2 DEF CommitDenial, Publish, Known, Denying, CapsuleSteps
  <2>. QED
    BY <1>2, <2>1, KnownReceipt DEF CommitDenial, RecordDenial, Publish
<1>3. CASE CommitAdmission(r)
  <2>1. CASE Capsule(r)
    BY <1>3, <2>1, KnownReceipt DEF CommitAdmission, Publish
  <2>2. CASE ~Capsule(r)
    BY <1>3, <2>2, KnownIdle DEF CommitAdmission, Publish, CapsuleSteps
  <2>. QED
    BY <2>1, <2>2
<1>4. CASE CommitEvidence(r)
  <2>1. Capsule(r)
    BY <1>4 DEF CommitEvidence, Publish, Known, CapsuleSteps
  <2>. QED
    BY <1>4, <2>1, KnownReceipt DEF CommitEvidence, Publish
<1>5. CASE CommitRetraction(r) \/ CommitPreRunnerFailure(r)
  <2>1. Capsule(r)
    BY <1>5 DEF CommitRetraction, CommitPreRunnerFailure, Publish, Known, CapsuleSteps
  <2>. QED
    BY <1>5, <2>1, KnownReceipt
       DEF CommitRetraction, CommitPreRunnerFailure, RestoreEvidence, Publish
<1>6. CASE CommitLateDenial(r)
  <2>1. Capsule(r) /\ ~Current(r)
    BY <1>6 DEF CommitLateDenial, Publish, Known, Denying, CapsuleSteps
  <2>2. SetReceipt(r, "deny", Stale, FALSE)
    BY <1>6 DEF CommitLateDenial, Stale
  <2>. QED
    BY <1>6, <2>1, <2>2, KnownReceipt DEF CommitLateDenial, AfterLateDenial, Publish
<1>. QED
  BY <1>1, <1>2, <1>3, <1>4, <1>5, <1>6 DEF CommitRun

\* A grant of a pair that is not active opens a generation that no request and
\* no Receipt has named; a revoke only makes a generation less current.
LEMMA KnownLedger ==
  ASSUME TypeInv, StaleInv, NEW t \in Grants \cup Revokes,
         CommitGrant(t) \/ CommitRevoke(t)
  PROVE  StaleInv'
<1>. SUFFICES ASSUME NEW r \in Runs PROVE Known(r)'
  BY DEF StaleInv
<1>1. /\ UNCHANGED <<gen, receipt, verdict>> /\ Known(r)
      /\ t \in Ops /\ r \in Ops /\ t # r
  BY OpsFacts, OperationsDisjoint DEF CommitGrant, CommitRevoke, Publish, StaleInv
<1>2. pc'[r] = pc[r]
  BY <1>1 DEF CommitGrant, CommitRevoke, Publish, Goto, TypeInv, TypeOK, StepsOK
<1>3. CASE ~Capsule(r)
  <2>1. receipt[r].reason # Stale
    BY <1>1, <1>3 DEF Known, NoReceipt, Stale
  <2>2. ~Denying(r)'
    <3>1. pc[r] \notin CapsuleSteps
      BY <1>1, <1>3 DEF Known
    <3>. QED
      BY <1>2, <3>1 DEF Denying, CapsuleSteps
  <2>. QED
    BY <1>1, <1>2, <1>3, <2>1, <2>2 DEF Known, DenialHolds, Capsule
<1>4. CASE Capsule(r)
  <2>1. PairOf(r) \in Entitlements
    BY <1>1, <1>4, PairInLedger DEF Capsule
  <2>2. /\ ent[PairOf(r)].gen \in Nat /\ ent[PairOf(r)].active \in BOOLEAN
        /\ gen[r] \in Nat /\ receipt[r].gen \in Nat
    BY <2>1 DEF TypeInv, TypeOK, DatabaseOK, LocalOK, Records
  <2>3. \/ ent'[PairOf(r)] = ent[PairOf(r)]
        \/ /\ ~ent[PairOf(r)].active
           /\ ent'[PairOf(r)] = [gen |-> ent[PairOf(r)].gen + 1, active |-> TRUE]
        \/ ~ent'[PairOf(r)].active /\ ent'[PairOf(r)].gen = ent[PairOf(r)].gen
    <3>1. CASE CommitGrant(t)
      BY <2>1, <3>1 DEF CommitGrant, NextEntitlement, TypeInv, TypeOK, DatabaseOK
    <3>2. CASE CommitRevoke(t)
      BY <2>1, <3>2 DEF CommitRevoke, TypeInv, TypeOK, DatabaseOK
    <3>. QED
      BY <3>1, <3>2
  <2>4. Reached(r, gen[r])' /\ Reached(r, receipt[r].gen)'
    BY <1>1, <1>4, <2>2, <2>3 DEF Known, Reached, PairOf
  <2>5. ~Current(r) => ~Current(r)'
    BY <1>1, <1>4, <2>2, <2>3 DEF Known, Reached, Current, PairOf
  <2>6. DenialHolds(r)'
    BY <1>1, <1>4, <2>2, <2>3 DEF Known, Reached, DenialHolds, PairOf
  <2>7. Denying(r)' => Denying(r)
    BY <1>1, <1>2 DEF Denying
  <2>. QED
    BY <1>1, <1>2, <1>4, <2>4, <2>5, <2>6, <2>7 DEF Known, Capsule
<1>. QED
  BY <1>3, <1>4

\* The store.  An error takes a late denial that was retried to the terminal
\* mutation without a denial, and every other operation out of CapsuleSteps.
LEMMA KnownStore ==
  ASSUME TypeInv, StaleInv,
         \/ StoreStep
         \/ \E t \in Ops : StoreWriteFails(t)
  PROVE  StaleInv'
<1>1. ASSUME NEW t \in Ops, CommitStopped(t) \/ CommitReady(t) PROVE StaleInv'
  BY <1>1, KnownIdle DEF CommitStopped, CommitReady, Publish, CapsuleSteps
<1>2. ASSUME NEW d \in Deletes, CommitRemoval(d) PROVE StaleInv'
  <2>. SUFFICES ASSUME NEW r \in Runs PROVE Known(r)'
    BY DEF StaleInv
  <2>1. Known(r) /\ d \in Ops /\ r \in Ops /\ d # r
    BY OpsFacts, OperationsDisjoint DEF StaleInv, Cancels
  <2>2. /\ pc'[r] = pc[r] /\ UNCHANGED <<ent, gen, verdict>>
        /\ receipt'[r] \in {receipt[r], NoReceipt}
    BY <1>2, <2>1
       DEF CommitRemoval, RemoveReceipts, Publish, Goto, TypeInv, TypeOK, StepsOK
  <2>3. NoReceipt.gen = 0 /\ NoReceipt.reason # Stale
    BY DEF NoReceipt, Stale
  <2>4. Capsule(r) => ent[PairOf(r)].gen >= 0
    BY <2>1, PairInLedger DEF Capsule, TypeInv, TypeOK, DatabaseOK
  <2>. QED
    BY <2>1, <2>2, <2>3, <2>4
       DEF Known, Reached, Denying, DenialHolds, Current, Capsule, PairOf
<1>3. ASSUME NEW t \in Ops, MutationFails(t) PROVE StaleInv'
  <2>1. /\ Goto(t, AfterError(t)) /\ UNCHANGED <<ent, gen, receipt>>
        /\ \/ UNCHANGED verdict
           \/ \E o : verdict' = [verdict EXCEPT ![t] = o]
    BY <1>3 DEF MutationFails, database
  <2>2. CASE AfterError(t) \notin CapsuleSteps
    BY <2>1, <2>2, KnownIdle
  <2>3. CASE pc[t] = "lateRetrying"
    <3>1. AfterError(t) = "prefailing"
      BY <2>3 DEF AfterError
    <3>2. CASE t \in Runs
      <4>1. Capsule(t)
        BY <2>3, <3>2 DEF StaleInv, Known, CapsuleSteps
      <4>. QED
        BY <2>1, <3>1, <3>2, <4>1, KnownMove
    <3>3. CASE t \notin Runs
      BY <2>1, <3>3, KnownStep
    <3>. QED
      BY <3>2, <3>3
  <2>4. pc[t] # "lateRetrying" => AfterError(t) \notin CapsuleSteps
    BY DEF AfterError, CapsuleSteps
  <2>. QED
    BY <2>2, <2>3, <2>4
<1>4. ASSUME NEW t \in Ops, StoreEvaluates(t) PROVE StaleInv'
  <2>1. UNCHANGED <<ent, gen, receipt, verdict, pc>>
    BY <1>4 DEF StoreEvaluates, steady, database
  <2>. QED
    BY <2>1 DEF StaleInv, Known, Reached, Denying, DenialHolds, Current, Capsule, PairOf
<1>. QED
  BY <1>1, <1>2, <1>3, <1>4, KnownCommitRun, KnownLedger, OpsFacts
     DEF StoreStep, CommitOp, StoreRejects, StoreWriteFails

-----------------------------------------------------------------------------
(* The theorem *)

\* Every step keeps what is known of the Entitlements.
LEMMA StaleInvInductive == TypeInv /\ StaleInv /\ [Next]_vars => StaleInv'
<1>. SUFFICES ASSUME TypeInv, StaleInv, [Next]_vars PROVE StaleInv'
  OBVIOUS
<1>1. CASE Request
  <2>1. ASSUME NEW t \in Ops, BeginStart(t) \/ BeginGrant(t) \/ BeginRevoke(t)
        PROVE  StaleInv'
    BY <2>1, KnownIdle
       DEF BeginStart, BeginGrant, BeginRevoke, Submit, steady, database, CapsuleSteps
  <2>. QED
    BY <1>1, <2>1, KnownAdmit, KnownCancel, OpsFacts DEF Request
<1>2. CASE \E r \in Runs : Admit(r) \/ Execute(r)
  BY <1>2, KnownAdmit, KnownExecute
<1>3. CASE \/ \E t \in Cancels : Cancel(t)
           \/ \E d \in Deletes : DeleteFiles(d)
  BY <1>3, KnownCancel, OpsFacts
<1>4. CASE StoreStep \/ \E t \in Ops : StoreWriteFails(t)
  BY <1>4, KnownStore
<1>5. CASE \E t \in Runs \cup Cancels : Unwind(t)
  BY <1>5, KnownIdle, OpsFacts DEF Unwind, steady, database, CapsuleSteps
<1>6. CASE Crash \/ Initialize \/ UNCHANGED vars
  <2>. SUFFICES ASSUME NEW r \in Runs PROVE Known(r)'
    BY DEF StaleInv
  <2>1. Known(r) /\ r \in Ops
    BY OpsFacts DEF StaleInv
  <2>2. UNCHANGED <<ent, gen, receipt, verdict>>
    BY <1>6 DEF Crash, Initialize, vars, database, control
  <2>3. pc'[r] = pc[r] \/ pc'[r] = "lost"
    BY <1>6, <2>1 DEF Crash, Initialize, vars, control
  <2>. QED
    BY <2>1, <2>2, <2>3
       DEF Known, Reached, Denying, DenialHolds, Current, Capsule, PairOf, CapsuleSteps
<1>. QED
  BY <1>1, <1>2, <1>3, <1>4, <1>5, <1>6 DEF Next, Rest

\* At the start nothing has been authorized or denied.
LEMMA InitStaleInv == Init => StaleInv
<1>. SUFFICES ASSUME Init, NEW r \in Runs PROVE Known(r)
  BY DEF StaleInv
<1>1. r \in Ops /\ pc[r] = "idle" /\ gen[r] = 0 /\ receipt[r] = NoReceipt
  BY OpsFacts DEF Init
<1>2. Capsule(r) => ent[PairOf(r)].gen >= 0
  BY <1>1, PairInLedger DEF Capsule, Init
<1>. QED
  BY <1>1, <1>2 DEF Known, Reached, Denying, DenialHolds, NoReceipt, Stale, CapsuleSteps

\* The ordering of generations holds in every reachable state.
THEOREM StaleInvCorrect == Spec => []StaleInv
  BY InitStaleInv, StaleInvInductive, TypeInvCorrect, PTL DEF Spec

\* A Receipt that denies with stale_entitlement_generation is never made wrong
\* by a later grant (finalizeLateCapsuleDenial and denyCapsuleRun against
\* grant).
THEOREM StaleDenialsStayTrue == Spec => []StaleDenialIsTrue
<1>1. StaleInv => StaleDenialIsTrue
  BY DEF StaleInv, Known, DenialHolds, StaleDenialIsTrue, Stale
<1>. QED
  BY <1>1, StaleInvCorrect, PTL

-----------------------------------------------------------------------------
(***************************************************************************)
(* A Run record and its Receipt tell one story, for every instance and     *)
(* every number of failed writes and crashes.                              *)
(*                                                                         *)
(* Two facts carry the proof.  The store evaluates each operation's        *)
(* mutation once and holds it until it is written, so a Receipt that the   *)
(* mutation found is still there when the commit replaces it.  And no      *)
(* execution has anything left to write once its Run has been denied.      *)
(***************************************************************************)
\* JsonStore's queue holds mutations only, and no operation's twice.
QueueFits ==
  /\ \A i \in 1 .. Len(queue) : pc[queue[i]] \in Mutations
  /\ \A i, j \in 1 .. Len(queue) : queue[i] = queue[j] => i = j

\* The mutations that replace a Receipt, and fail when there is none.
ReceiptMutations ==
  {"evidencing", "retracting", "lateDenying", "lateRetrying", "prefailing"}

EvaluatedFits ==
  /\ writing => queue # <<>>
  /\ \A r \in Runs :
       writing /\ AtHead(r) /\ pc[r] \in ReceiptMutations => receipt[r] # NoReceipt

\* From the published admission to the last terminal mutation.
ExecSteps ==
  ReceiptMutations \cup
  {"launching", "marking", "marked", "preparing", "evidenced", "deriving",
   "inRunner", "caught", "failing", "completing"}

\* The records of r agree, and nothing is left to write for a denied Run.
Agree(r) ==
  /\ pc[r] \in ExecSteps => run[r] # "denied"
  /\ run[r] = "none" => receipt[r] = NoReceipt
  /\ run[r] # "none" => (receipt[r] # NoReceipt <=> Capsule(r))
  /\ run[r] = "denied" <=> receipt[r].decision = "deny"
  /\ receipt[r].started => receipt[r].decision = "allow"

RecordInv == QueueFits /\ EvaluatedFits /\ \A r \in Runs : Agree(r)

-----------------------------------------------------------------------------
(* The store's queue *)

\* The four things an operation does to the queue: nothing, join it, leave it,
\* and leave it to join it again.
LEMMA QueueStep ==
  ASSUME TypeInv, QueueFits, NEW t \in Ops, NEW s, Goto(t, s),
         \/ pc[t] \notin Mutations /\ queue' = queue
         \/ pc[t] \notin Mutations /\ s \in Mutations /\ queue' = Append(queue, t)
         \/ AtHead(t) /\ queue' = Tail(queue)
         \/ AtHead(t) /\ s \in Mutations /\ queue' = Append(Tail(queue), t)
  PROVE  QueueFits'
<1>. queue \in Seq(Ops) /\ pc \in [Ops -> Steps]
  BY DEF TypeInv, TypeOK, StoreOK, StepsOK
<1>1. pc'[t] = s /\ \A u \in Ops : u # t => pc'[u] = pc[u]
  BY DEF Goto
<1>2. CASE pc[t] \notin Mutations /\ queue' = queue
  BY <1>1, <1>2 DEF QueueFits
<1>3. CASE pc[t] \notin Mutations /\ s \in Mutations /\ queue' = Append(queue, t)
  <2>1. /\ Len(queue') = Len(queue) + 1 /\ queue'[Len(queue) + 1] = t
        /\ \A i \in 1 .. Len(queue) : queue'[i] = queue[i] /\ queue[i] \in Ops
    BY <1>3, AppendProperties
  <2>2. Len(queue) \in Nat
    BY LenProperties
  <2>3. \A i \in 1 .. Len(queue) : queue[i] # t
    BY <1>3 DEF QueueFits
  <2>. QED
    BY <1>1, <1>3, <2>1, <2>2, <2>3 DEF QueueFits
<1>4. ASSUME AtHead(t)
      PROVE  /\ Tail(queue) \in Seq(Ops) /\ Len(queue) \in Nat \ {0}
             /\ queue[1] = t /\ Len(Tail(queue)) = Len(queue) - 1
             /\ \A i \in 1 .. Len(queue) - 1 : /\ Tail(queue)[i] = queue[i + 1]
                                               /\ queue[i + 1] \in Ops \ {t}
  <2>1. /\ Tail(queue) \in Seq(Ops) /\ Len(queue) \in Nat \ {0} /\ queue[1] = t
        /\ Len(Tail(queue)) = Len(queue) - 1
        /\ \A i \in 1 .. Len(queue) - 1 : Tail(queue)[i] = queue[i + 1]
    BY <1>4, HeadTailProperties, EmptySeq, LenProperties DEF AtHead
  <2>2. \A i \in 1 .. Len(queue) - 1 : queue[i + 1] \in Ops /\ queue[i + 1] # queue[1]
    BY <2>1 DEF QueueFits
  <2>. QED
    BY <2>1, <2>2
<1>5. CASE AtHead(t) /\ queue' = Tail(queue)
  BY <1>1, <1>4, <1>5 DEF QueueFits
<1>6. CASE AtHead(t) /\ s \in Mutations /\ queue' = Append(Tail(queue), t)
  <2>1. /\ Len(queue') = Len(queue) /\ queue'[Len(queue)] = t
        /\ \A i \in 1 .. Len(queue) - 1 : queue'[i] = queue[i + 1]
    <3>1. /\ Len(queue') = Len(Tail(queue)) + 1 /\ queue'[Len(Tail(queue)) + 1] = t
          /\ \A i \in 1 .. Len(Tail(queue)) : queue'[i] = Tail(queue)[i]
      BY <1>4, <1>6, AppendProperties
    <3>. QED
      BY <1>4, <1>6, <3>1
  <2>2. \A i \in 1 .. Len(queue) - 1 : queue'[i] \in Ops \ {t}
    BY <1>4, <1>6, <2>1
  <2>3. Len(queue) \in Nat \ {0} /\ s \in Mutations
    BY <1>4, <1>6
  <2>4. /\ \A i \in 1 .. Len(queue) - 1 : pc[queue[i + 1]] \in Mutations
        /\ \A i, j \in 1 .. Len(queue) - 1 : queue[i + 1] = queue[j + 1] => i = j
    BY <2>3 DEF QueueFits
  <2>5. ASSUME NEW i \in 1 .. Len(queue) PROVE pc'[queue'[i]] \in Mutations
    <3>1. CASE i = Len(queue)
      BY <1>1, <2>1, <2>3, <3>1
    <3>2. CASE i \in 1 .. Len(queue) - 1
      BY <1>1, <2>1, <2>2, <2>4, <3>2
    <3>. QED
      BY <2>3, <3>1, <3>2
  <2>6. ASSUME NEW i \in 1 .. Len(queue), NEW j \in 1 .. Len(queue),
               queue'[i] = queue'[j]
        PROVE  i = j
    <3>1. CASE i = Len(queue) \/ j = Len(queue)
      BY <2>1, <2>2, <2>3, <2>6, <3>1
    <3>2. CASE i \in 1 .. Len(queue) - 1 /\ j \in 1 .. Len(queue) - 1
      BY <2>1, <2>4, <2>6, <3>2
    <3>. QED
      BY <2>3, <3>1, <3>2
  <2>. QED
    BY <2>1, <2>5, <2>6 DEF QueueFits
<1>. QED
  BY <1>2, <1>3, <1>4, <1>5, <1>6

-----------------------------------------------------------------------------
(* Outside the store *)

\* A step outside the store keeps the records and leaves the mutation that is
\* being written alone, because no operation moves while its own is queued.
LEMMA RecordMove ==
  ASSUME TypeInv, RecordInv, NEW t \in Ops, NEW s, Goto(t, s),
         UNCHANGED <<run, receipt, writing>>, pc[t] \notin Mutations,
         \/ queue' = queue
         \/ s \in Mutations /\ queue' = Append(queue, t),
         t \in Runs /\ s \in ExecSteps => pc[t] \in ExecSteps
  PROVE  RecordInv'
<1>. pc \in [Ops -> Steps] /\ queue \in Seq(Ops) /\ Runs \subseteq Ops
  BY OpsFacts DEF TypeInv, TypeOK, StoreOK, StepsOK
<1>1. QueueFits'
  BY QueueStep DEF RecordInv
<1>2. pc'[t] = s /\ \A u \in Ops : u # t => pc'[u] = pc[u]
  BY DEF Goto
<1>3. ASSUME NEW r \in Runs, writing, AtHead(r)', pc'[r] \in ReceiptMutations
      PROVE  receipt[r] # NoReceipt
  <2>1. queue # <<>>
    BY <1>3 DEF RecordInv, EvaluatedFits
  <2>2. AtHead(r)
    BY <1>3, <2>1, AppendFacts DEF AtHead
  <2>3. pc[r] \in Mutations
    <3>1. 1 \in 1 .. Len(queue) /\ queue[1] = r
      BY <2>1, <2>2, EmptySeq, LenProperties DEF AtHead
    <3>. QED
      BY <3>1 DEF RecordInv, QueueFits
  <2>. QED
    BY <1>2, <1>3, <2>2, <2>3 DEF RecordInv, EvaluatedFits
<1>4. writing' => queue' # <<>>
  BY AppendFacts DEF RecordInv, EvaluatedFits
<1>5. EvaluatedFits'
  BY <1>3, <1>4 DEF EvaluatedFits
<1>6. ASSUME NEW r \in Runs PROVE Agree(r)'
  BY <1>2 DEF RecordInv, Agree, Capsule
<1>. QED
  BY <1>1, <1>5, <1>6 DEF RecordInv

\* What a send does, up to the launch of its execution.
LEMMA RecordAdmit ==
  ASSUME TypeInv, RecordInv, NEW r \in Runs,
         \/ SendRefused(r) \/ SendBaseline(r) \/ SendCapsule(r) \/ Admit(r)
  PROVE  RecordInv'
<1>. r \in Ops
  BY OpsFacts
<1>1. UNCHANGED <<run, receipt, writing>>
  BY DEF SendRefused, SendBaseline, SendCapsule, Admit, BeginValidation, PlanRefused,
         PlanCompiled, LateNotFound, RequestAdmission, RequestDenial, Launch,
         Submit, steady, database, store
<1>2. pc[r] \notin Mutations
  BY DEF SendRefused, SendBaseline, SendCapsule, Begin, Admit, BeginValidation,
         PlanRefused, PlanCompiled, LateNotFound, RequestAdmission, RequestDenial,
         Launch, Mutations
<1>3. PICK s : /\ Goto(r, s)
               /\ s \in ExecSteps => pc[r] \in ExecSteps
               /\ \/ queue' = queue
                  \/ s \in Mutations /\ queue' = Append(queue, r)
  <2>1. CASE RequestAdmission(r) \/ RequestDenial(r)
    BY <2>1 DEF RequestAdmission, RequestDenial, Submit, Mutations, ExecSteps,
                ReceiptMutations
  <2>2. CASE Launch(r)
    BY <2>2 DEF Launch, Submit, Mutations, ExecSteps
  <2>3. CASE \/ SendRefused(r) \/ SendBaseline(r) \/ SendCapsule(r)
             \/ BeginValidation(r) \/ PlanRefused(r) \/ PlanCompiled(r)
             \/ LateNotFound(r)
    BY <2>3 DEF SendRefused, SendBaseline, SendCapsule, BeginValidation, PlanRefused,
                PlanCompiled, LateNotFound, JoinLock, store, ExecSteps,
                ReceiptMutations
  <2>. QED
    BY <2>1, <2>2, <2>3 DEF Admit
<1>. QED
  BY <1>1, <1>2, <1>3, RecordMove

\* What executeRun does between its commits.
LEMMA RecordExecute ==
  ASSUME TypeInv, RecordInv, NEW r \in Runs, Execute(r)
  PROVE  RecordInv'
<1>. r \in Ops
  BY OpsFacts
<1>1. UNCHANGED <<run, receipt, writing>>
  BY DEF Execute, CancelAfterMark, PrepareHome, PrepareHomeAborted, HomePrepared,
         RecheckAfterEvidence, DeriveAborted, WithdrawBeforeHandoff, Handoff,
         RunnerExits, Catch, Finish, Submit, steady, database, store
<1>2. pc[r] \notin Mutations
  BY DEF Execute, CancelAfterMark, PrepareHome, PrepareHomeAborted, HomePrepared,
         RecheckAfterEvidence, DeriveAborted, WithdrawBeforeHandoff, Handoff,
         RunnerExits, Catch, Finish, Mutations
<1>3. PICK s : /\ Goto(r, s)
               /\ s \in ExecSteps => pc[r] \in ExecSteps
               /\ \/ queue' = queue
                  \/ s \in Mutations /\ queue' = Append(queue, r)
  <2>1. CASE \/ CancelAfterMark(r) \/ PrepareHome(r) \/ PrepareHomeAborted(r)
             \/ DeriveAborted(r) \/ Handoff(r)
    BY <2>1 DEF CancelAfterMark, PrepareHome, PrepareHomeAborted, DeriveAborted,
                Handoff, Throw, store, ExecSteps
  <2>2. CASE HomePrepared(r) \/ RecheckAfterEvidence(r) \/ WithdrawBeforeHandoff(r)
    BY <2>2 DEF HomePrepared, RecheckAfterEvidence, WithdrawBeforeHandoff, Submit,
                store, Mutations, ExecSteps
  <2>3. CASE RunnerExits(r) \/ Catch(r)
    BY <2>3 DEF RunnerExits, Catch, Throw, Submit, store, Mutations, ExecSteps
  <2>4. CASE Finish(r)
    BY <2>4 DEF Finish, store, ExecSteps, ReceiptMutations
  <2>. QED
    BY <2>1, <2>2, <2>3, <2>4 DEF Execute
<1>. QED
  BY <1>1, <1>2, <1>3, RecordMove

\* What a stop or a delete does between its commits.
LEMMA RecordCancel ==
  ASSUME TypeInv, RecordInv, NEW t \in Cancels,
         \/ Cancel(t)
         \/ t \in Stops /\ BeginStop(t)
         \/ t \in Deletes /\ (BeginDelete(t) \/ DeleteFiles(t))
  PROVE  RecordInv'
<1>1. t \in Ops /\ t \notin Runs
  BY OpsFacts, OperationsDisjoint
<1>2. UNCHANGED <<run, receipt, writing>>
  BY DEF Cancel, RunnerCancelled, Drain, AdmissionsReleased, ExecutionSettled,
         ReadExecution, Proceed, BeginStop, BeginDelete, DeleteFiles, DeleteUnderLock,
         Archive, Restore, Submit, steady, database, store
<1>3. pc[t] \notin Mutations
  BY DEF Cancel, RunnerCancelled, Drain, AdmissionsReleased, ExecutionSettled,
         BeginStop, BeginDelete, Begin, DeleteFiles, DeleteUnderLock, Archive,
         Restore, Mutations
<1>4. PICK s : /\ Goto(t, s)
               /\ \/ queue' = queue
                  \/ s \in Mutations /\ queue' = Append(queue, t)
  <2>1. CASE Drain(t) \/ AdmissionsReleased(t) \/ ExecutionSettled(t)
    BY <2>1 DEF Drain, AdmissionsReleased, ExecutionSettled, ReadExecution, Proceed,
                Submit, store, Mutations
  <2>2. CASE Archive(t) \/ Restore(t)
    BY <2>2 DEF Archive, Restore, Submit, store, Mutations
  <2>3. CASE RunnerCancelled(t) \/ BeginStop(t) \/ BeginDelete(t) \/ DeleteUnderLock(t)
    BY <2>3 DEF RunnerCancelled, BeginStop, BeginDelete, DeleteUnderLock,
                RequestCancel, JoinLock, store
  <2>. QED
    BY <2>1, <2>2, <2>3 DEF Cancel, DeleteFiles
<1>. QED
  BY <1>1, <1>2, <1>3, <1>4, RecordMove

-----------------------------------------------------------------------------
(* The commits *)

\* A commit that leaves other Runs alone has only its own Run to answer for.
LEMMA RecordPublish ==
  ASSUME TypeInv, RecordInv, NEW t \in Ops, NEW m, NEW s, Publish(t, m, s),
         \A r \in Runs : r # t => run'[r] = run[r] /\ receipt'[r] = receipt[r],
         t \in Runs => Agree(t)'
  PROVE  RecordInv'
<1>1. QueueFits'
  BY QueueStep DEF Publish, RecordInv
<1>2. EvaluatedFits'
  BY DEF Publish, EvaluatedFits
<1>3. ASSUME NEW r \in Runs, r # t PROVE Agree(r)'
  <2>1. pc'[r] = pc[r] /\ run'[r] = run[r] /\ receipt'[r] = receipt[r]
    BY <1>3, OpsFacts DEF Publish, Goto, TypeInv, TypeOK, StepsOK
  <2>. QED
    BY <2>1 DEF RecordInv, Agree, Capsule
<1>. QED
  BY <1>1, <1>2, <1>3 DEF RecordInv

\* A Receipt that a mutation replaces is there, so its Run is recorded, and by
\* a Capsule Run.
LEMMA Replaceable ==
  ASSUME RecordInv, NEW r \in Runs, NEW m \in ReceiptMutations, NEW s,
         Publish(r, m, s)
  PROVE  /\ receipt[r] # NoReceipt /\ Capsule(r)
         /\ run[r] # "none" /\ run[r] # "denied"
<1>1. writing /\ AtHead(r) /\ pc[r] \in ReceiptMutations
  BY DEF Publish
<1>2. receipt[r] # NoReceipt
  BY <1>1 DEF RecordInv, EvaluatedFits
<1>. QED
  BY <1>1, <1>2 DEF RecordInv, Agree, ExecSteps

\* What the records of r are after a commit of r.
LEMMA AgreeAfter ==
  ASSUME TypeInv, NEW r \in Runs, NEW m, NEW s, Publish(r, m, s),
         s \notin ExecSteps \/ run'[r] # "denied",
         \/ run'[r] = "none" /\ receipt'[r] = NoReceipt
         \/ /\ run'[r] \notin {"none", "denied"} /\ ~Capsule(r)
            /\ receipt'[r] = NoReceipt
         \/ /\ run'[r] # "none" /\ Capsule(r)
            /\ \/ receipt'[r].decision = "allow" /\ run'[r] # "denied"
               \/ /\ receipt'[r].decision = "deny" /\ run'[r] = "denied"
                  /\ ~receipt'[r].started
  PROVE  Agree(r)'
<1>1. pc'[r] = s
  BY OpsFacts DEF Publish, Goto, TypeInv, TypeOK, StepsOK
<1>. QED
  BY <1>1 DEF Agree, NoReceipt, Capsule

\* A commit that leaves the Receipt alone and gives the Run a status that is
\* neither a denial nor nothing, or leaves the Run alone as well.
LEMMA AgreeKept ==
  ASSUME TypeInv, RecordInv, NEW r \in Runs, NEW m \in ExecSteps, NEW s,
         Publish(r, m, s), UNCHANGED receipt,
         \/ run'[r] = run[r]
         \/ run[r] # "none" /\ run'[r] \notin {"none", "denied"}
  PROVE  Agree(r)'
<1>1. pc'[r] = s /\ pc[r] = m
  BY OpsFacts DEF Publish, Goto, TypeInv, TypeOK, StepsOK
<1>2. Agree(r) /\ run[r] # "denied"
  BY <1>1 DEF RecordInv, Agree
<1>. QED
  BY <1>1, <1>2 DEF Agree, Capsule

\* The commits of a Run, one by one.
LEMMA RecordCommit ==
  ASSUME TypeInv, StaleInv, RecordInv, NEW r \in Runs, CommitRun(r)
  PROVE  RecordInv'
<1>. r \in Ops /\ Agree(r) /\ Known(r)
  BY OpsFacts DEF RecordInv, StaleInv
<1>. /\ run \in [Runs -> Running \cup Terminal \cup {"none"}]
     /\ receipt \in [Runs -> Records]
  BY DEF TypeInv, TypeOK, DatabaseOK
<1>1. CASE CommitDenial(r)
  <2>1. Capsule(r)
    BY <1>1 DEF CommitDenial, Publish, Known, CapsuleSteps
  <2>2. /\ run'[r] = "denied" /\ receipt'[r].decision = "deny"
        /\ ~receipt'[r].started
    BY <1>1 DEF CommitDenial, RecordDenial, SetRun, SetReceipt
  <2>3. Agree(r)'
    BY <1>1, <2>1, <2>2, AgreeAfter DEF CommitDenial, ExecSteps, ReceiptMutations
  <2>. QED
    BY <1>1, <2>3, RecordPublish
       DEF CommitDenial, RecordDenial, SetRun, SetReceipt
<1>2. CASE CommitAdmission(r)
  <2>1. run'[r] = "queued"
    BY <1>2 DEF CommitAdmission, SetRun
  <2>2. CASE Capsule(r)
    <3>1. receipt'[r].decision = "allow"
      BY <1>2, <2>2 DEF CommitAdmission, SetReceipt
    <3>2. Agree(r)'
      BY <1>2, <2>1, <2>2, <3>1, AgreeAfter DEF CommitAdmission
    <3>. QED
      BY <1>2, <2>2, <3>2, RecordPublish DEF CommitAdmission, SetRun, SetReceipt
  <2>3. CASE ~Capsule(r)
    <3>1. receipt'[r] = NoReceipt
      BY <1>2, <2>3 DEF CommitAdmission, Known
    <3>2. Agree(r)'
      BY <1>2, <2>1, <2>3, <3>1, AgreeAfter DEF CommitAdmission
    <3>. QED
      BY <1>2, <2>3, <3>2, RecordPublish DEF CommitAdmission, SetRun
  <2>. QED
    BY <2>2, <2>3
<1>3. CASE CommitMark(r) \/ CommitCompletion(r)
  <2>m. PICK m \in ExecSteps : \E s : Publish(r, m, s)
    BY <1>3 DEF CommitMark, CommitCompletion, ExecSteps
  <2>1. PICK s : Publish(r, m, s)
    BY <2>m
  <2>2. /\ UNCHANGED receipt
        /\ \/ UNCHANGED run
           \/ /\ run[r] # "none"
              /\ \/ run' = [run EXCEPT ![r] = "running"]
                 \/ run' = [run EXCEPT ![r] = "completed"]
    BY <1>3 DEF CommitMark, CommitCompletion, Recorded, SetRun
  <2>3. Agree(r)'
    BY <2>1, <2>2, AgreeKept
  <2>. QED
    BY <2>1, <2>2, <2>3, RecordPublish
<1>4. CASE CommitFailure(r)
  <2>1. Publish(r, "failing", "resolved") /\ "failing" \in ExecSteps
    BY <1>4 DEF CommitFailure, ExecSteps
  <2>2. verdict[r] \in Outcomes
    BY <2>1 DEF Publish, TypeInv, VerdictFits, Fits
  <2>3. /\ UNCHANGED receipt
        /\ \/ UNCHANGED run
           \/ run[r] # "none" /\ run' = [run EXCEPT ![r] = verdict[r]]
    BY <1>4 DEF CommitFailure, EndRun, SetRun
  <2>4. Agree(r)'
    BY <2>1, <2>2, <2>3, AgreeKept DEF Outcomes
  <2>. QED
    BY <2>1, <2>3, <2>4, RecordPublish
<1>5. CASE CommitEvidence(r) \/ CommitRetraction(r)
  <2>m. PICK m \in ReceiptMutations : \E s : Publish(r, m, s)
    BY <1>5 DEF CommitEvidence, CommitRetraction, ReceiptMutations
  <2>1. PICK s : Publish(r, m, s)
    BY <2>m
  <2>2. /\ UNCHANGED run
        /\ \E c : receipt' = [receipt EXCEPT ![r] = c] /\ c.decision = "allow"
    BY <1>5 DEF CommitEvidence, CommitRetraction, RestoreEvidence, SetReceipt
  <2>3. Agree(r)'
    BY <2>1, <2>2, Replaceable, AgreeAfter
  <2>. QED
    BY <2>1, <2>2, <2>3, RecordPublish
<1>6. CASE CommitPreRunnerFailure(r)
  <2>1. /\ Publish(r, "prefailing", "resolved")
        /\ "prefailing" \in ReceiptMutations
    BY <1>6 DEF CommitPreRunnerFailure, ReceiptMutations
  <2>2. run[r] # "none" /\ Capsule(r)
    BY <2>1, Replaceable
  <2>3. verdict[r] \in Outcomes
    BY <2>1 DEF Publish, TypeInv, VerdictFits, Fits
  <2>4. run' = [run EXCEPT ![r] = verdict[r]]
    BY <1>6, <2>2 DEF CommitPreRunnerFailure, EndRun, SetRun
  <2>5. SetReceipt(r, "allow", "allowed", FALSE)
    BY <1>6 DEF CommitPreRunnerFailure, RestoreEvidence
  <2>6. receipt'[r].decision = "allow"
    BY <2>5 DEF SetReceipt
  <2>7. Agree(r)'
    BY <2>1, <2>2, <2>3, <2>4, <2>6, AgreeAfter DEF Outcomes
  <2>. QED
    BY <2>1, <2>4, <2>5, <2>7, RecordPublish DEF SetReceipt
<1>7. CASE CommitLateDenial(r)
  <2>1. PICK m \in ReceiptMutations : Publish(r, m, "resolved")
    BY <1>7 DEF CommitLateDenial, AfterLateDenial, ReceiptMutations
  <2>2. run[r] # "none" /\ Capsule(r)
    BY <2>1, Replaceable
  <2>3. run' = [run EXCEPT ![r] = "denied"]
    BY <1>7, <2>2 DEF CommitLateDenial, EndRun, SetRun
  <2>4. SetReceipt(r, "deny", "stale_entitlement_generation", FALSE)
    BY <1>7 DEF CommitLateDenial
  <2>5. receipt'[r].decision = "deny" /\ ~receipt'[r].started
    BY <2>4 DEF SetReceipt
  <2>6. Agree(r)'
    BY <2>1, <2>2, <2>3, <2>5, AgreeAfter DEF ExecSteps, ReceiptMutations
  <2>. QED
    BY <2>1, <2>3, <2>4, <2>6, RecordPublish DEF SetReceipt
<1>. QED
  BY <1>1, <1>2, <1>3, <1>4, <1>5, <1>6, <1>7 DEF CommitRun

\* A delete removes the Runs and the Receipts of its Agent together, and
\* nothing else touches two Runs at once.
LEMMA RecordRemoval ==
  ASSUME TypeInv, RecordInv, NEW d \in Deletes, CommitRemoval(d)
  PROVE  RecordInv'
<1>1. d \in Ops /\ d \notin Runs
  BY OpsFacts, OperationsDisjoint DEF Cancels
<1>2. QueueFits' /\ EvaluatedFits'
  <2>1. QueueFits'
    BY <1>1, QueueStep DEF CommitRemoval, Publish, RecordInv
  <2>. QED
    BY <2>1 DEF CommitRemoval, Publish, EvaluatedFits
<1>3. ASSUME NEW r \in Runs PROVE Agree(r)'
  <2>1. pc'[r] = pc[r]
    BY <1>1, OpsFacts DEF CommitRemoval, Publish, Goto, TypeInv, TypeOK, StepsOK
  <2>2. \/ run'[r] = run[r] /\ receipt'[r] = receipt[r]
        \/ run'[r] = "none" /\ receipt'[r] = NoReceipt
    BY DEF CommitRemoval, RemoveReceipts
  <2>. QED
    BY <2>1, <2>2 DEF RecordInv, Agree, Capsule, NoReceipt
<1>. QED
  BY <1>2, <1>3 DEF RecordInv

\* An error of a mutation changes no record, and ends no more of an execution
\* than its Run allows.
LEMMA RecordStore ==
  ASSUME TypeInv, StaleInv, RecordInv,
         \/ StoreStep
         \/ \E t \in Ops : StoreWriteFails(t)
  PROVE  RecordInv'
<1>1. ASSUME NEW t \in Ops, t \notin Runs,
             \/ CommitStopped(t) \/ CommitReady(t) \/ CommitGrant(t) \/ CommitRevoke(t)
      PROVE  RecordInv'
  <2>1. UNCHANGED <<run, receipt>> /\ \E m, s : Publish(t, m, s)
    BY <1>1 DEF CommitStopped, CommitReady, CommitGrant, CommitRevoke
  <2>. QED
    BY <1>1, <2>1, RecordPublish
<1>2. ASSUME NEW t \in Ops, AtHead(t), MutationFails(t) PROVE RecordInv'
  <2>1. Goto(t, AfterError(t)) /\ UNCHANGED <<run, receipt>> /\ ~writing'
    BY <1>2 DEF MutationFails, database
  <2>2. pc'[t] = AfterError(t) /\ \A u \in Ops : u # t => pc'[u] = pc[u]
    BY <2>1 DEF Goto, TypeInv, TypeOK, StepsOK
  <2>3. QueueFits'
    <3>1. CASE pc[t] = "lateRetrying"
      <4>1. AfterError(t) \in Mutations
        BY <3>1 DEF AfterError, Mutations
      <4>. QED
        BY <1>2, <2>1, <3>1, <4>1, QueueStep DEF MutationFails, RecordInv
    <3>2. CASE pc[t] # "lateRetrying"
      BY <1>2, <2>1, <3>2, QueueStep DEF MutationFails, RecordInv
    <3>. QED
      BY <3>1, <3>2
  <2>4. AfterError(t) \in ExecSteps => pc[t] \in ExecSteps
    BY DEF AfterError, ExecSteps, ReceiptMutations
  <2>5. ASSUME NEW r \in Runs PROVE Agree(r)'
    <3>1. r \in Ops /\ (pc'[r] \in ExecSteps => pc[r] \in ExecSteps)
      BY <2>2, <2>4, OpsFacts
    <3>. QED
      BY <2>1, <3>1 DEF RecordInv, Agree, Capsule
  <2>. QED
    BY <2>1, <2>3, <2>5 DEF RecordInv, EvaluatedFits
<1>3. ASSUME NEW t \in Ops, StoreEvaluates(t) PROVE RecordInv'
  <2>1. UNCHANGED <<run, receipt, queue, pc>> /\ AtHead(t) /\ ~Rejects(t)
    BY <1>3 DEF StoreEvaluates, steady, database
  <2>2. pc[t] \in ReceiptMutations => receipt[t] # NoReceipt
    BY <2>1 DEF Rejects, ReceiptMutations
  <2>3. EvaluatedFits'
    BY <2>1, <2>2 DEF AtHead, EvaluatedFits
  <2>. QED
    BY <2>1, <2>3 DEF RecordInv, QueueFits, Agree, Capsule
<1>4. ASSUME NEW t \in Stops \cup Starts \cup Grants \cup Revokes
      PROVE  t \in Ops /\ t \notin Runs
  BY OpsFacts, OperationsDisjoint DEF Cancels
<1>. QED
  BY <1>1, <1>2, <1>3, <1>4, RecordCommit, RecordRemoval
     DEF StoreStep, CommitOp, StoreRejects, StoreWriteFails

-----------------------------------------------------------------------------
(* The theorem *)

\* Every step keeps the records in agreement.
LEMMA RecordInvInductive ==
  TypeInv /\ StaleInv /\ RecordInv /\ [Next]_vars => RecordInv'
<1>. SUFFICES ASSUME TypeInv, StaleInv, RecordInv, [Next]_vars PROVE RecordInv'
  OBVIOUS
<1>1. CASE Request
  <2>1. ASSUME NEW t \in Starts \cup Grants \cup Revokes,
               BeginStart(t) \/ BeginGrant(t) \/ BeginRevoke(t)
        PROVE  RecordInv'
    <3>1. t \in Ops /\ t \notin Runs
      BY OpsFacts, OperationsDisjoint
    <3>2. /\ UNCHANGED <<run, receipt, writing>> /\ pc[t] \notin Mutations
          /\ \E s : /\ Goto(t, s)
                    /\ \/ queue' = queue
                       \/ s \in Mutations /\ queue' = Append(queue, t)
      BY <2>1 DEF BeginStart, BeginGrant, BeginRevoke, Begin, Submit, steady,
                  database, store, Mutations
    <3>. QED
      BY <3>1, <3>2, RecordMove
  <2>. QED
    BY <1>1, <2>1, RecordAdmit, RecordCancel, OpsFacts DEF Request
<1>2. CASE \E r \in Runs : Admit(r) \/ Execute(r)
  BY <1>2, RecordAdmit, RecordExecute
<1>3. CASE \/ \E t \in Cancels : Cancel(t)
           \/ \E d \in Deletes : DeleteFiles(d)
  BY <1>3, RecordCancel, OpsFacts
<1>4. CASE StoreStep \/ \E t \in Ops : StoreWriteFails(t)
  BY <1>4, RecordStore
<1>5. ASSUME NEW t \in Runs \cup Cancels, Unwind(t) PROVE RecordInv'
  <2>1. UNCHANGED <<run, receipt, writing, queue>> /\ pc[t] \notin Mutations
    BY <1>5 DEF Unwind, steady, database, store, Mutations
  <2>2. PICK s \in {"refused", "done"} : Goto(t, s)
    BY <1>5 DEF Unwind
  <2>3. s \notin ExecSteps
    BY <2>2 DEF ExecSteps, ReceiptMutations
  <2>. QED
    BY <2>1, <2>2, <2>3, RecordMove, OpsFacts
<1>6. CASE Crash
  <2>1. queue' = <<>> /\ writing' = FALSE /\ UNCHANGED <<run, receipt>>
    BY <1>6 DEF Crash, database
  <2>2. \A r \in Runs : pc'[r] \notin ExecSteps
    BY <1>6, OpsFacts DEF Crash, Answered, ExecSteps, ReceiptMutations
  <2>3. \A r \in Runs : Agree(r)'
    BY <2>1, <2>2 DEF RecordInv, Agree, Capsule
  <2>4. QueueFits'
    BY <2>1 DEF QueueFits
  <2>. QED
    BY <2>1, <2>3, <2>4 DEF RecordInv, EvaluatedFits
<1>7. CASE Initialize
  <2>1. /\ UNCHANGED <<queue, writing, pc, receipt>>
        /\ \A r \in Runs : \/ run'[r] = run[r]
                           \/ run[r] \in Running /\ run'[r] = "cancelled"
    BY <1>7 DEF Initialize, store, control, RestartedRun
  <2>2. ASSUME NEW r \in Runs PROVE Agree(r)'
    <3>1. CASE run'[r] = run[r]
      BY <2>1, <3>1 DEF RecordInv, Agree, Capsule
    <3>2. CASE run[r] \in Running /\ run'[r] = "cancelled"
      BY <2>1, <3>2 DEF RecordInv, Agree, Capsule, Running
    <3>. QED
      BY <2>1, <3>1, <3>2
  <2>. QED
    BY <2>1, <2>2 DEF RecordInv, QueueFits, EvaluatedFits, AtHead
<1>8. CASE UNCHANGED vars
  BY <1>8 DEF vars, database, store, control, RecordInv, QueueFits, EvaluatedFits,
              AtHead, Agree, Capsule
<1>. QED
  BY <1>1, <1>2, <1>3, <1>4, <1>5, <1>6, <1>7, <1>8 DEF Next, Rest

\* There are no records at the start.
LEMMA InitRecordInv == Init => RecordInv
<1>. SUFFICES ASSUME Init PROVE RecordInv
  OBVIOUS
<1>1. QueueFits /\ EvaluatedFits
  BY DEF Init, QueueFits, EvaluatedFits
<1>2. ASSUME NEW r \in Runs PROVE Agree(r)
  <2>1. pc[r] = "idle" /\ run[r] = "none" /\ receipt[r] = NoReceipt
    BY OpsFacts DEF Init
  <2>. QED
    BY <2>1 DEF Agree, NoReceipt, ExecSteps, ReceiptMutations
<1>. QED
  BY <1>1, <1>2 DEF RecordInv

\* Records agree, and the store holds each mutation once, in every reachable
\* state.
THEOREM RecordInvCorrect == Spec => []RecordInv
  BY InitRecordInv, RecordInvInductive, TypeInvCorrect, StaleInvCorrect, PTL DEF Spec

\* A Capsule Run has a Receipt and a baseline Run has none, a Run is denied
\* exactly when its Receipt denies, and no denial claims a Runner, on every
\* path through executeRun's error handling (ADR-004's one atomic commit).
THEOREM RecordsAgree == Spec => []ReceiptMatchesRun
<1>1. RecordInv => ReceiptMatchesRun
  BY DEF RecordInv, Agree, ReceiptMatchesRun
<1>. QED
  BY <1>1, RecordInvCorrect, PTL
=============================================================================
