--------------------------- MODULE RunDrainProofs ---------------------------
(***************************************************************************)
(* Terminal records are final, an Agent has one execution at a time, and   *)
(* nothing is left of a deleted Agent.                                     *)
(***************************************************************************)
EXTENDS RunLifecycleProofs

-----------------------------------------------------------------------------
(***************************************************************************)
(* Terminal records are final, for every instance: a Run that has ended    *)
(* and its Receipt change no more, unless a delete removes both.           *)
(*                                                                         *)
(* Only an execution writes its Run, so it is enough that an execution     *)
(* with something left to write has a Run that has not ended.  A restart   *)
(* ends Runs from outside; by then no execution is left.                   *)
(***************************************************************************)

\* From the arrival of a send to its first commit.
PreSteps ==
  {"idle", "authorized", "validating", "awaitAdmit", "awaitDeny", "admitting",
   "denying"}

Open(r) ==
  /\ pc[r] \in PreSteps => run[r] = "none"
  /\ pc[r] \in ExecSteps => run[r] \notin Terminal

Resting == Answered \cup {"idle"}

\* A dead server executes nothing.
DownAtRest == ~up => \A t \in Ops : pc[t] \in Resting

OpenInv == DownAtRest /\ \A r \in Runs : Open(r)

-----------------------------------------------------------------------------
(* Building blocks *)

\* A step that keeps every Run record, of an operation that goes no further
\* back than where its Run may be.
LEMMA OpenMove ==
  ASSUME TypeInv, OpenInv, NEW t \in Ops, NEW s, Goto(t, s),
         UNCHANGED <<run, up>>, up \/ pc[t] \notin Resting,
         t \in Runs /\ s \in ExecSteps => pc[t] \in ExecSteps,
         t \in Runs /\ s \in PreSteps => pc[t] \in PreSteps
  PROVE  OpenInv'
<1>1. pc'[t] = s /\ \A u \in Ops : u # t => pc'[u] = pc[u]
  BY DEF Goto, TypeInv, TypeOK, StepsOK
<1>2. up
  BY DEF OpenInv, DownAtRest
<1>3. ASSUME NEW r \in Runs PROVE Open(r)'
  BY <1>1, OpsFacts DEF OpenInv, Open
<1>. QED
  BY <1>2, <1>3 DEF OpenInv, DownAtRest

\* A commit that concerns the Run of at most one operation.
LEMMA OpenPublish ==
  ASSUME TypeInv, OpenInv, NEW t \in Ops, NEW m \in Mutations, NEW s,
         Publish(t, m, s),
         \A r \in Runs : r # t => run'[r] \in {run[r], "none"},
         t \in Runs => \/ s \notin PreSteps \cup ExecSteps
                       \/ s \in ExecSteps \ PreSteps /\ run'[t] \notin Terminal
  PROVE  OpenInv'
<1>1. pc'[t] = s /\ \A u \in Ops : u # t => pc'[u] = pc[u]
  BY DEF Publish, Goto, TypeInv, TypeOK, StepsOK
<1>2. up /\ up' = up
  <2>1. pc[t] \notin Resting
    BY DEF Publish, Resting, Answered, Mutations
  <2>. QED
    BY <2>1 DEF Publish, environment, OpenInv, DownAtRest
<1>3. ASSUME NEW r \in Runs, r # t PROVE Open(r)'
  BY <1>1, <1>3, OpsFacts DEF OpenInv, Open, Terminal
<1>4. t \in Runs => Open(t)'
  BY <1>1 DEF Open
<1>. QED
  BY <1>2, <1>3, <1>4 DEF OpenInv, DownAtRest

\* Who commits for a Run finds it unended.
LEMMA CommitsUnended ==
  ASSUME OpenInv, NEW r \in Runs, CommitRun(r)
  PROVE  run[r] \notin Terminal
<1>1. pc[r] \in PreSteps \cup ExecSteps
  BY DEF CommitRun, CommitDenial, CommitAdmission, CommitMark, CommitEvidence,
         CommitRetraction, CommitLateDenial, CommitPreRunnerFailure, CommitFailure,
         CommitCompletion, Publish, PreSteps, ExecSteps, ReceiptMutations
<1>. QED
  BY <1>1 DEF OpenInv, Open, Terminal

\* A commit of r writes no other Run and no other Receipt.
LEMMA CommitsOwn ==
  ASSUME NEW r \in Runs, CommitRun(r), NEW u \in Runs, u # r, TypeInv
  PROVE  run'[u] = run[u] /\ receipt'[u] = receipt[u]
<1>1. UNCHANGED run \/ \E o : run' = [run EXCEPT ![r] = o]
  BY DEF CommitRun, CommitDenial, CommitAdmission, CommitMark, CommitEvidence,
         CommitRetraction, CommitLateDenial, CommitPreRunnerFailure, CommitFailure,
         CommitCompletion, EndRun, SetRun
<1>2. UNCHANGED receipt \/ \E c : receipt' = [receipt EXCEPT ![r] = c]
  BY DEF CommitRun, CommitDenial, CommitAdmission, CommitMark, CommitEvidence,
         CommitRetraction, CommitLateDenial, CommitPreRunnerFailure, CommitFailure,
         CommitCompletion, RecordDenial, RestoreEvidence, SetReceipt
<1>. QED
  BY <1>1, <1>2 DEF TypeInv, TypeOK, DatabaseOK

-----------------------------------------------------------------------------
(* The records outside the store *)

\* Only a commit or a restart changes a Run record or a Receipt.
LEMMA RecordsKept ==
  ASSUME \/ Request
         \/ \E r \in Runs : Admit(r) \/ Execute(r)
         \/ \E t \in Cancels : Cancel(t)
         \/ \E d \in Deletes : DeleteFiles(d)
         \/ \E t \in Runs \cup Cancels : Unwind(t)
         \/ \E t \in Ops : StoreRejects(t) \/ StoreEvaluates(t) \/ StoreWriteFails(t)
         \/ Crash
         \/ UNCHANGED vars
  PROVE  UNCHANGED <<run, receipt>>
<1>1. CASE Request
  BY <1>1 DEF Request, SendRefused, SendBaseline, SendCapsule, BeginStop, BeginDelete,
              BeginStart, BeginGrant, BeginRevoke, steady, database
<1>2. CASE \E r \in Runs : Admit(r)
  BY <1>2 DEF Admit, BeginValidation, PlanRefused, PlanCompiled, LateNotFound,
              RequestAdmission, RequestDenial, Launch, steady, database
<1>3. CASE \E r \in Runs : Execute(r)
  BY <1>3 DEF Execute, CancelAfterMark, PrepareHome, PrepareHomeAborted, HomePrepared,
              RecheckAfterEvidence, DeriveAborted, WithdrawBeforeHandoff, Handoff,
              RunnerExits, Catch, Finish, steady, database
<1>4. CASE \E t \in Cancels : Cancel(t)
  BY <1>4 DEF Cancel, RunnerCancelled, Drain, AdmissionsReleased, ExecutionSettled,
              steady, database
<1>5. CASE \E d \in Deletes : DeleteFiles(d)
  BY <1>5 DEF DeleteFiles, DeleteUnderLock, Archive, Restore, database
<1>6. CASE \/ \E t \in Runs \cup Cancels : Unwind(t)
           \/ \E t \in Ops : StoreRejects(t) \/ StoreEvaluates(t) \/ StoreWriteFails(t)
           \/ Crash
           \/ UNCHANGED vars
  BY <1>6 DEF Unwind, StoreRejects, StoreEvaluates, StoreWriteFails, MutationFails,
              Crash, vars, steady, database
<1>. QED
  BY <1>1, <1>2, <1>3, <1>4, <1>5, <1>6

-----------------------------------------------------------------------------
(* One step per action *)

\* A send moves from step to step of PreSteps and leaves them by a commit.
LEMMA OpenAdmit ==
  ASSUME TypeInv, OpenInv, NEW r \in Runs,
         \/ SendRefused(r) \/ SendBaseline(r) \/ SendCapsule(r) \/ Admit(r)
  PROVE  OpenInv'
<1>. r \in Ops
  BY OpsFacts
<1>1. UNCHANGED <<run, up>>
  BY DEF SendRefused, SendBaseline, SendCapsule, Admit, BeginValidation, PlanRefused,
         PlanCompiled, LateNotFound, RequestAdmission, RequestDenial, Launch,
         steady, database, environment
<1>2. CASE SendRefused(r) \/ SendBaseline(r) \/ SendCapsule(r)
  <2>1. up /\ pc[r] \in PreSteps
    BY <1>2 DEF SendRefused, SendBaseline, SendCapsule, Begin, PreSteps
  <2>2. PICK s : Goto(r, s) /\ s \notin ExecSteps
    BY <1>2 DEF SendRefused, SendBaseline, SendCapsule, JoinLock, ExecSteps,
                ReceiptMutations
  <2>. QED
    BY <1>1, <2>1, <2>2, OpenMove
<1>3. CASE Admit(r)
  <2>1. pc[r] \notin Resting
    BY <1>3 DEF Admit, BeginValidation, PlanRefused, PlanCompiled, LateNotFound,
                RequestAdmission, RequestDenial, Launch, Resting, Answered
  <2>2. PICK s : /\ Goto(r, s)
                 /\ s \in ExecSteps => pc[r] \in ExecSteps
                 /\ s \in PreSteps => pc[r] \in PreSteps
    <3>1. CASE Launch(r)
      BY <3>1 DEF Launch, Submit, ExecSteps, PreSteps
    <3>2. CASE \/ BeginValidation(r) \/ PlanRefused(r) \/ PlanCompiled(r)
               \/ LateNotFound(r) \/ RequestAdmission(r) \/ RequestDenial(r)
      BY <3>2 DEF BeginValidation, PlanRefused, PlanCompiled, LateNotFound,
                  RequestAdmission, RequestDenial, JoinLock, Submit, ExecSteps,
                  ReceiptMutations, PreSteps
    <3>. QED
      BY <1>3, <3>1, <3>2 DEF Admit
  <2>. QED
    BY <1>1, <2>1, <2>2, OpenMove
<1>. QED
  BY <1>2, <1>3

\* An execution stays one until it ends.
LEMMA OpenExecute ==
  ASSUME TypeInv, OpenInv, NEW r \in Runs, Execute(r)
  PROVE  OpenInv'
<1>. r \in Ops
  BY OpsFacts
<1>1. UNCHANGED <<run, up>>
  BY DEF Execute, CancelAfterMark, PrepareHome, PrepareHomeAborted, HomePrepared,
         RecheckAfterEvidence, DeriveAborted, WithdrawBeforeHandoff, Handoff,
         RunnerExits, Catch, Finish, steady, database, environment
<1>2. pc[r] \notin Resting
  BY DEF Execute, CancelAfterMark, PrepareHome, PrepareHomeAborted, HomePrepared,
         RecheckAfterEvidence, DeriveAborted, WithdrawBeforeHandoff, Handoff,
         RunnerExits, Catch, Finish, Resting, Answered
<1>3. PICK s : /\ Goto(r, s)
               /\ s \in ExecSteps => pc[r] \in ExecSteps
               /\ s \notin PreSteps
  <2>1. CASE Finish(r)
    BY <2>1 DEF Finish, ExecSteps, ReceiptMutations, PreSteps
  <2>2. CASE Execute(r) /\ ~Finish(r)
    <3>1. pc[r] \in ExecSteps
      BY <2>2 DEF Execute, CancelAfterMark, PrepareHome, PrepareHomeAborted,
                  HomePrepared, RecheckAfterEvidence, DeriveAborted,
                  WithdrawBeforeHandoff, Handoff, RunnerExits, Catch, ExecSteps
    <3>2. \E s : Goto(r, s) /\ s \notin PreSteps
      BY <2>2 DEF Execute, CancelAfterMark, PrepareHome, PrepareHomeAborted,
                  HomePrepared, RecheckAfterEvidence, DeriveAborted,
                  WithdrawBeforeHandoff, Handoff, RunnerExits, Catch, Throw, Submit,
                  PreSteps
    <3>. QED
      BY <3>1, <3>2
  <2>. QED
    BY <2>1, <2>2
<1>. QED
  BY <1>1, <1>2, <1>3, OpenMove

\* Stops and deletes are no Runs.
LEMMA OpenCancel ==
  ASSUME TypeInv, OpenInv, NEW t \in Cancels,
         \/ Cancel(t)
         \/ t \in Stops /\ BeginStop(t)
         \/ t \in Deletes /\ (BeginDelete(t) \/ DeleteFiles(t))
  PROVE  OpenInv'
<1>1. t \in Ops /\ t \notin Runs
  BY OpsFacts, OperationsDisjoint
<1>2. UNCHANGED <<run, up>>
  BY DEF Cancel, RunnerCancelled, Drain, AdmissionsReleased, ExecutionSettled,
         BeginStop, BeginDelete, DeleteFiles, DeleteUnderLock, Archive, Restore,
         steady, database, environment
<1>3. up \/ pc[t] \notin Resting
  BY DEF Cancel, RunnerCancelled, Drain, AdmissionsReleased, ExecutionSettled,
         BeginStop, BeginDelete, Begin, DeleteFiles, DeleteUnderLock, Archive,
         Restore, Resting, Answered
<1>4. \E s : Goto(t, s)
  BY DEF Cancel, RunnerCancelled, Drain, AdmissionsReleased, ExecutionSettled,
         ReadExecution, Proceed, BeginStop, BeginDelete, DeleteFiles,
         DeleteUnderLock, RequestCancel, Archive, Restore, Submit, JoinLock
<1>. QED
  BY <1>1, <1>2, <1>3, <1>4, OpenMove

\* The store ends a Run only as the last write of its execution.
LEMMA OpenStore ==
  ASSUME TypeInv, OpenInv,
         \/ StoreStep
         \/ \E t \in Ops : StoreWriteFails(t)
  PROVE  OpenInv'
<1>1. ASSUME NEW r \in Runs, CommitRun(r) PROVE OpenInv'
  <2>. r \in Ops
    BY OpsFacts
  <2>1. \A u \in Runs : u # r => run'[u] \in {run[u], "none"}
    BY <1>1, CommitsOwn
  <2>2. CASE \/ CommitDenial(r) \/ CommitLateDenial(r) \/ CommitPreRunnerFailure(r)
             \/ CommitFailure(r) \/ CommitCompletion(r)
    <3>1. PICK m \in Mutations, s \in {"returning", "resolved"} : Publish(r, m, s)
      BY <2>2 DEF CommitDenial, CommitLateDenial, AfterLateDenial,
                  CommitPreRunnerFailure, CommitFailure, CommitCompletion, Mutations
    <3>2. s \notin PreSteps \cup ExecSteps
      BY DEF PreSteps, ExecSteps, ReceiptMutations
    <3>. QED
      BY <2>1, <3>1, <3>2, OpenPublish
  <2>3. CASE \/ CommitAdmission(r) \/ CommitMark(r) \/ CommitEvidence(r)
             \/ CommitRetraction(r)
    <3>1. PICK m \in Mutations, s \in {"launching", "marked", "caught", "evidenced"} :
            Publish(r, m, s)
      BY <2>3 DEF CommitAdmission, CommitMark, CommitEvidence, CommitRetraction,
                  Mutations
    <3>2. s \in ExecSteps \ PreSteps
      BY DEF PreSteps, ExecSteps, ReceiptMutations
    <3>3. run'[r] \in {run[r], "queued", "running"}
      BY <2>3 DEF CommitAdmission, CommitMark, CommitEvidence, CommitRetraction,
                  SetRun, TypeInv, TypeOK, DatabaseOK
    <3>4. run'[r] \notin Terminal
      BY <1>1, <3>3, CommitsUnended DEF Terminal
    <3>. QED
      BY <2>1, <3>1, <3>2, <3>4, OpenPublish
  <2>. QED
    BY <1>1, <2>2, <2>3 DEF CommitRun
<1>2. ASSUME NEW t \in Ops, t \notin Runs,
             \/ CommitStopped(t) \/ CommitRemoval(t) \/ CommitReady(t)
             \/ CommitGrant(t) \/ CommitRevoke(t)
      PROVE  OpenInv'
  <2>m. PICK m \in Mutations : \E s : Publish(t, m, s)
    BY <1>2 DEF CommitStopped, CommitRemoval, CommitReady, CommitGrant, CommitRevoke,
                Mutations
  <2>1. PICK s : Publish(t, m, s)
    BY <2>m
  <2>2. \A r \in Runs : run'[r] \in {run[r], "none"}
    BY <1>2 DEF CommitStopped, CommitRemoval, CommitReady, CommitGrant, CommitRevoke
  <2>. QED
    BY <1>2, <2>1, <2>2, OpenPublish
<1>3. ASSUME NEW t \in Ops, MutationFails(t) PROVE OpenInv'
  <2>1. Goto(t, AfterError(t)) /\ UNCHANGED <<run, up>>
    BY <1>3 DEF MutationFails, database
  <2>2. /\ AfterError(t) \in ExecSteps => pc[t] \in ExecSteps
        /\ AfterError(t) \notin PreSteps
    BY DEF AfterError, ExecSteps, ReceiptMutations, PreSteps
  <2>3. CASE pc[t] \notin Resting
    BY <2>1, <2>2, <2>3, OpenMove
  <2>4. CASE up
    BY <2>1, <2>2, <2>4, OpenMove
  <2>5. CASE pc[t] \in Resting /\ ~up
    <3>1. AfterError(t) = "refused"
      BY <2>5 DEF AfterError, Resting, Answered
    <3>2. pc'[t] = "refused" /\ \A u \in Ops : u # t => pc'[u] = pc[u]
      BY <2>1, <3>1 DEF Goto, TypeInv, TypeOK, StepsOK
    <3>3. \A r \in Runs : Open(r)'
      <4>1. "refused" \notin PreSteps \cup ExecSteps
        BY DEF PreSteps, ExecSteps, ReceiptMutations
      <4>. QED
        BY <2>1, <3>2, <4>1, OpsFacts DEF OpenInv, Open
    <3>. QED
      BY <2>1, <3>2, <3>3 DEF OpenInv, DownAtRest, Resting, Answered
  <2>. QED
    BY <2>3, <2>4, <2>5
<1>4. ASSUME NEW t \in Ops, StoreEvaluates(t) PROVE OpenInv'
  BY <1>4 DEF StoreEvaluates, steady, database, environment, OpenInv, DownAtRest, Open
<1>5. ASSUME NEW t \in Cancels \cup Starts \cup Grants \cup Revokes
      PROVE  t \in Ops /\ t \notin Runs
  BY OpsFacts, OperationsDisjoint
<1>. QED
  BY <1>1, <1>2, <1>3, <1>4, <1>5, OpsFacts
     DEF StoreStep, CommitOp, StoreRejects, StoreWriteFails

-----------------------------------------------------------------------------
(* The theorem *)

\* Initialize ends the Runs that a crash cut off, with no execution left.
LEMMA OpenRestart ==
  ASSUME TypeInv, OpenInv, Crash \/ Initialize
  PROVE  OpenInv'
<1>1. CASE Crash
  <2>1. /\ UNCHANGED run
        /\ \A t \in Ops : /\ pc'[t] \in Resting
                          /\ pc'[t] = pc[t] \/ pc'[t] = "lost"
    BY <1>1 DEF Crash, database, Resting, Answered
  <2>2. "lost" \notin PreSteps \cup ExecSteps
    BY DEF PreSteps, ExecSteps, ReceiptMutations
  <2>. QED
    BY <2>1, <2>2, OpsFacts DEF OpenInv, DownAtRest, Open
<1>2. CASE Initialize
  <2>1. up' = TRUE /\ UNCHANGED pc /\ \A t \in Ops : pc[t] \in Resting
    BY <1>2 DEF Initialize, control, OpenInv, DownAtRest
  <2>2. \A r \in Runs : pc[r] \notin ExecSteps
    BY <2>1, OpsFacts DEF Resting, Answered, ExecSteps, ReceiptMutations
  <2>3. \A r \in Runs : run[r] = "none" => run'[r] = "none"
    BY <1>2 DEF Initialize, RestartedRun, Running
  <2>. QED
    BY <2>1, <2>2, <2>3 DEF OpenInv, DownAtRest, Open
<1>. QED
  BY <1>1, <1>2

\* Every step leaves the executions with Runs that have not ended.
LEMMA OpenInvInductive == TypeInv /\ OpenInv /\ [Next]_vars => OpenInv'
<1>. SUFFICES ASSUME TypeInv, OpenInv, [Next]_vars PROVE OpenInv'
  OBVIOUS
<1>1. CASE Request
  <2>1. ASSUME NEW t \in Starts \cup Grants \cup Revokes,
               BeginStart(t) \/ BeginGrant(t) \/ BeginRevoke(t)
        PROVE  OpenInv'
    <3>1. t \in Ops /\ t \notin Runs
      BY OpsFacts, OperationsDisjoint
    <3>2. UNCHANGED <<run, up>> /\ up /\ \E s : Goto(t, s)
      BY <2>1 DEF BeginStart, BeginGrant, BeginRevoke, Begin, Submit, steady,
                  database, environment
    <3>. QED
      BY <3>1, <3>2, OpenMove
  <2>. QED
    BY <1>1, <2>1, OpenAdmit, OpenCancel, OpsFacts DEF Request
<1>2. CASE \E r \in Runs : Admit(r) \/ Execute(r)
  BY <1>2, OpenAdmit, OpenExecute
<1>3. CASE \/ \E t \in Cancels : Cancel(t)
           \/ \E d \in Deletes : DeleteFiles(d)
  BY <1>3, OpenCancel, OpsFacts
<1>4. CASE StoreStep \/ \E t \in Ops : StoreWriteFails(t)
  BY <1>4, OpenStore
<1>5. ASSUME NEW t \in Runs \cup Cancels, Unwind(t) PROVE OpenInv'
  <2>1. UNCHANGED <<run, up>> /\ pc[t] \notin Resting
    BY <1>5 DEF Unwind, steady, database, environment, Resting, Answered
  <2>2. PICK s \in {"refused", "done"} : Goto(t, s)
    BY <1>5 DEF Unwind
  <2>3. s \notin PreSteps \cup ExecSteps
    BY <2>2 DEF PreSteps, ExecSteps, ReceiptMutations
  <2>. QED
    BY <2>1, <2>2, <2>3, OpenMove, OpsFacts
<1>6. CASE Crash \/ Initialize
  BY <1>6, OpenRestart
<1>7. CASE UNCHANGED vars
  BY <1>7 DEF vars, database, control, environment, OpenInv, DownAtRest, Open
<1>. QED
  BY <1>1, <1>2, <1>3, <1>4, <1>5, <1>6, <1>7 DEF Next, Rest

\* At the start no request has arrived and no Run is recorded.
LEMMA InitOpenInv == Init => OpenInv
  BY OpsFacts DEF Init, OpenInv, DownAtRest, Open, Resting, ExecSteps, ReceiptMutations

\* Every step leaves ended Runs and their Receipts as they are, or removes both
\* with their Agent.
LEMMA StepKeepsEnded ==
  ASSUME TypeInv, OpenInv, [Next]_vars, NEW r \in Runs, run[r] \in Terminal
  PROVE  \/ run'[r] = run[r] /\ receipt'[r] = receipt[r]
         \/ run'[r] = "none" /\ receipt'[r] = NoReceipt
                             /\ agent'[AgentOf[r]] = "absent"
<1>1. CASE \E u \in Runs : CommitRun(u)
  <2>1. PICK u \in Runs : CommitRun(u)
    BY <1>1
  <2>2. u # r
    BY <2>1, CommitsUnended
  <2>. QED
    BY <2>1, <2>2, CommitsOwn
<1>2. CASE \E d \in Deletes : CommitRemoval(d)
  <2>1. PICK d \in Deletes : CommitRemoval(d)
    BY <1>2
  <2>2. CASE AgentOf[r] = AgentOf[d]
    <3>1. run'[r] = "none" /\ receipt'[r] = NoReceipt
      BY <2>1, <2>2 DEF CommitRemoval, RemoveReceipts
    <3>2. agent'[AgentOf[r]] = "absent"
      BY <2>1, <2>2, OpsFacts, AgentOfOps
         DEF CommitRemoval, SetAgent, TypeInv, TypeOK, DatabaseOK
    <3>. QED
      BY <3>1, <3>2
  <2>3. CASE AgentOf[r] # AgentOf[d]
    BY <2>1, <2>3 DEF CommitRemoval, RemoveReceipts
  <2>. QED
    BY <2>2, <2>3
<1>3. CASE \/ \E s \in Stops : CommitStopped(s)
           \/ \E t \in Starts : CommitReady(t)
           \/ \E t \in Grants : CommitGrant(t)
           \/ \E t \in Revokes : CommitRevoke(t)
  BY <1>3 DEF CommitStopped, CommitReady, CommitGrant, CommitRevoke
<1>4. CASE Initialize
  BY <1>4 DEF Initialize, RestartedRun, Running, Terminal
<1>5. CASE ~CommitOp /\ ~Initialize
  BY <1>5, RecordsKept DEF Next, Rest, StoreStep
<1>. QED
  BY <1>1, <1>2, <1>3, <1>4, <1>5 DEF CommitOp

\* An execution with something left to write has a Run that has not ended, in
\* every reachable state.
THEOREM OpenInvCorrect == Spec => []OpenInv
  BY InitOpenInv, OpenInvInductive, TypeInvCorrect, PTL DEF Spec

\* Terminal records are final: no second finalization, late cancellation,
\* retry or restart changes a Run that has ended, nor its Receipt; a delete
\* removes both together with the Agent.
THEOREM EndedRunsStay == Spec => TerminalRecordsFrozen
<1>. DEFINE Ends ==
       \A r \in Runs : run[r] \in Terminal =>
         \/ run'[r] = run[r] /\ receipt'[r] = receipt[r]
         \/ run'[r] = "none" /\ receipt'[r] = NoReceipt
                             /\ agent'[AgentOf[r]] = "absent"
<1>1. TypeInv /\ OpenInv /\ [Next]_vars => Ends
  BY StepKeepsEnded
<1>2. Spec => [][Ends]_vars
  <2>. HIDE DEF Ends
  <2>. QED
    BY <1>1, TypeInvCorrect, OpenInvCorrect, PTL DEF Spec
<1>. QED
  BY <1>2 DEF TerminalRecordsFrozen

-----------------------------------------------------------------------------
(***************************************************************************)
(* One execution per Agent, and nothing left of a deleted Agent, for every *)
(* instance and every number of failed writes and crashes.                 *)
(*                                                                         *)
(* An execution is never without its busy Agent and its Run record, from   *)
(* the admission commit to its terminal commit, because everybody else who *)
(* writes the Agent waits for the execution first: a stop or delete writes *)
(* only after it found neither a pending admission nor an active execution *)
(* (Drained), and an admission that arrives afterwards is queued behind a  *)
(* stop's write and locked out by a delete.  The cancellation flag plays   *)
(* no part, so overlapping cancellations do no harm here.                  *)
(***************************************************************************)

\* From the published running mark to the last step that relies on it.
MarkedSteps ==
  {"marked", "preparing", "evidencing", "evidenced", "retracting", "deriving",
   "inRunner", "completing"}

Idle(a) == \A u \in Runs : AgentOf[u] = a => pc[u] \notin ExecSteps
IdleBut(t) ==
  \A u \in Runs : u # t /\ AgentOf[u] = AgentOf[t] => pc[u] \notin ExecSteps

\* An execution has its Agent and its Run, and has them alone.
Held(r) ==
  pc[r] \in ExecSteps =>
    /\ agent[AgentOf[r]] = "busy" /\ run[r] # "none"
    /\ pc[r] \in MarkedSteps => run[r] = "running"
    /\ pc[r] # "launching" => active[AgentOf[r]] = r
    /\ IdleBut(r)

\* pendingAdmissions holds the admissions between registration and release.
Pended ==
  /\ \A r \in Runs : pc[r] \in {"admitting", "launching"} => r \in pending[AgentOf[r]]
  /\ \A a \in Agents : \A r \in pending[a] :
       AgentOf[r] = a /\ pc[r] \in {"admitting", "launching", "unwinding"}

InQueue(t) == \E i \in 1 .. Len(queue) : queue[i] = t
Queued == \A t \in Ops : pc[t] \in Mutations => InQueue(t)
Behind(t, u) ==
  \E i, j \in 1 .. Len(queue) : i < j /\ queue[i] = t /\ queue[j] = u

\* What the mutation that is being written has checked still holds.
Checked ==
  \A t \in Ops :
    writing /\ AtHead(t) =>
      /\ pc[t] \in {"admitting", "denying"} => agent[AgentOf[t]] \in {"ready", "error"}
      /\ pc[t] = "settingReady" => agent[AgentOf[t]] \notin {"absent", "busy"}

\* Until a drained stop or delete has written, its Agent stays idle.
DrainSteps == {"settingStopped", "archiving", "removing"}
Drained(c) ==
  pc[c] \in DrainSteps =>
    /\ Idle(AgentOf[c])
    /\ c \in Deletes => active[AgentOf[c]] = None
    /\ c \in Stops =>
         /\ pc[c] = "settingStopped"
         /\ \A r \in Runs :
              AgentOf[r] = AgentOf[c] /\ pc[r] = "admitting" => Behind(c, r)

Deleted(a) ==
  agent[a] = "absent" =>
    /\ active[a] = None /\ pending[a] = {}
    /\ \A r \in Runs : AgentOf[r] = a => run[r] = "none"

DrainInv ==
  /\ Queued /\ Checked /\ Pended
  /\ \A r \in Runs : Held(r)
  /\ \A c \in Cancels : Drained(c)
  /\ \A a \in Agents : Deleted(a)

-----------------------------------------------------------------------------
(* The store's queue *)

\* What a step of t to s does to the queue.
QueueMoves(t, s) ==
  \/ pc[t] \notin Mutations /\ s \notin Mutations /\ queue' = queue
  \/ pc[t] \notin Mutations /\ s \in Mutations /\ queue' = Append(queue, t)
  \/ AtHead(t) /\ s \notin Mutations /\ queue' = Tail(queue)
  \/ AtHead(t) /\ s \in Mutations /\ queue' = Append(Tail(queue), t)

\* Every queued mutation stays queued, the others keep their order, and who
\* joins the queue is behind everybody in it.
LEMMA QueueOrder ==
  ASSUME TypeInv, RecordInv, Queued, NEW t \in Ops, NEW s, Goto(t, s), QueueMoves(t, s)
  PROVE  /\ Queued'
         /\ \A u, v \in Ops \ {t} : Behind(u, v) => Behind(u, v)'
         /\ pc[t] \notin Mutations /\ s \in Mutations =>
              \A u \in Ops : pc[u] \in Mutations => Behind(u, t)'
<1>. queue \in Seq(Ops) /\ pc \in [Ops -> Steps] /\ QueueFits
  BY DEF TypeInv, TypeOK, StoreOK, StepsOK, RecordInv
<1>1. pc'[t] = s /\ \A u \in Ops : u # t => pc'[u] = pc[u]
  BY DEF Goto
<1>2. CASE pc[t] \notin Mutations /\ s \notin Mutations /\ queue' = queue
  BY <1>1, <1>2 DEF Queued, InQueue, Behind
<1>3. CASE pc[t] \notin Mutations /\ s \in Mutations /\ queue' = Append(queue, t)
  <2>1. /\ Len(queue) \in Nat
        /\ Len(queue') = Len(queue) + 1 /\ queue'[Len(queue) + 1] = t
        /\ \A i \in 1 .. Len(queue) : queue'[i] = queue[i]
    BY <1>3, AppendProperties, LenProperties
  <2>2. \A i \in 1 .. Len(queue) : i \in 1 .. Len(queue') /\ i < Len(queue')
    BY <2>1
  <2>3. Len(queue') \in 1 .. Len(queue')
    BY <2>1
  <2>4. Queued'
    BY <1>1, <2>1, <2>2, <2>3 DEF Queued, InQueue
  <2>5. \A u, v \in Ops : Behind(u, v) => Behind(u, v)'
    BY <2>1, <2>2 DEF Behind
  <2>6. \A u \in Ops : pc[u] \in Mutations => Behind(u, t)'
    BY <2>1, <2>2, <2>3 DEF Queued, InQueue, Behind
  <2>. QED
    BY <2>4, <2>5, <2>6
<1>4. ASSUME AtHead(t)
      PROVE  /\ pc[t] \in Mutations
             /\ Tail(queue) \in Seq(Ops) /\ Len(queue) \in Nat \ {0}
             /\ queue[1] = t /\ Len(Tail(queue)) = Len(queue) - 1
             /\ \A i \in 1 .. Len(queue) - 1 : Tail(queue)[i] = queue[i + 1]
             /\ \A i \in 1 .. Len(queue) : queue[i] # t => i - 1 \in 1 .. Len(queue) - 1
  <2>1. /\ Tail(queue) \in Seq(Ops) /\ Len(queue) \in Nat \ {0} /\ queue[1] = t
        /\ Len(Tail(queue)) = Len(queue) - 1
        /\ \A i \in 1 .. Len(queue) - 1 : Tail(queue)[i] = queue[i + 1]
    BY <1>4, HeadTailProperties, EmptySeq, LenProperties DEF AtHead
  <2>2. 1 \in 1 .. Len(queue)
    BY <2>1
  <2>3. pc[t] \in Mutations
    BY <2>1, <2>2 DEF QueueFits
  <2>4. ASSUME NEW i \in 1 .. Len(queue), queue[i] # t PROVE i - 1 \in 1 .. Len(queue) - 1
    BY <2>1, <2>4
  <2>. QED
    BY <2>1, <2>3, <2>4
<1>5. ASSUME AtHead(t), NEW q \in Seq(Ops),
             \/ s \notin Mutations /\ q = Tail(queue)
             \/ s \in Mutations /\ q = Append(Tail(queue), t)
      PROVE  /\ \A i \in 1 .. Len(queue) - 1 :
                  i \in 1 .. Len(q) /\ q[i] = queue[i + 1]
             /\ s \in Mutations => Len(queue) \in 1 .. Len(q) /\ q[Len(queue)] = t
  <2>1. CASE s \notin Mutations /\ q = Tail(queue)
    BY <1>4, <1>5, <2>1
  <2>2. CASE s \in Mutations /\ q = Append(Tail(queue), t)
    <3>. DEFINE w == Tail(queue)
    <3>1. w \in Seq(Ops)
      BY <1>4, <1>5
    <3>2. /\ Len(Append(w, t)) = Len(w) + 1 /\ Append(w, t)[Len(w) + 1] = t
          /\ \A i \in 1 .. Len(w) : Append(w, t)[i] = w[i]
      <4>. HIDE DEF w
      <4>. QED
        BY <3>1, AppendProperties
    <3>3. /\ Len(q) = Len(Tail(queue)) + 1 /\ q[Len(Tail(queue)) + 1] = t
          /\ \A i \in 1 .. Len(Tail(queue)) : q[i] = Tail(queue)[i]
      BY <2>2, <3>2
    <3>. QED
      BY <1>4, <1>5, <3>3
  <2>. QED
    BY <1>5, <2>1, <2>2
<1>6. CASE \/ AtHead(t) /\ s \notin Mutations /\ queue' = Tail(queue)
           \/ AtHead(t) /\ s \in Mutations /\ queue' = Append(Tail(queue), t)
  <2>. DEFINE q == queue'
  <2>1. q \in Seq(Ops) /\ AtHead(t)
    BY <1>4, <1>6, AppendProperties
  <2>2. /\ \A i \in 1 .. Len(queue) - 1 : i \in 1 .. Len(q) /\ q[i] = queue[i + 1]
        /\ s \in Mutations => Len(queue) \in 1 .. Len(q) /\ q[Len(queue)] = t
    BY <1>5, <1>6, <2>1
  <2>3. ASSUME NEW i \in 1 .. Len(queue), queue[i] # t
        PROVE  i - 1 \in 1 .. Len(q) /\ q[i - 1] = queue[i]
    <3>1. i - 1 \in 1 .. Len(queue) - 1 /\ (i - 1) + 1 = i
      BY <1>4, <2>1, <2>3
    <3>. QED
      BY <2>2, <3>1
  <2>4. ASSUME NEW u \in Ops, pc'[u] \in Mutations PROVE InQueue(u)'
    <3>1. CASE u = t
      BY <1>1, <1>6, <2>2, <2>4, <3>1 DEF InQueue
    <3>2. CASE u # t
      <4>1. PICK i \in 1 .. Len(queue) : queue[i] = u
        BY <1>1, <2>4, <3>2 DEF Queued, InQueue
      <4>2. i - 1 \in 1 .. Len(q) /\ q[i - 1] = u
        BY <2>3, <3>2, <4>1
      <4>. QED
        BY <4>2 DEF InQueue
    <3>. QED
      BY <3>1, <3>2
  <2>5. ASSUME NEW u \in Ops \ {t}, NEW v \in Ops \ {t}, Behind(u, v) PROVE Behind(u, v)'
    <3>1. PICK i, j \in 1 .. Len(queue) : i < j /\ queue[i] = u /\ queue[j] = v
      BY <2>5 DEF Behind
    <3>2. /\ i - 1 \in 1 .. Len(q) /\ q[i - 1] = u
          /\ j - 1 \in 1 .. Len(q) /\ q[j - 1] = v
      BY <2>3, <3>1
    <3>3. i - 1 < j - 1
      BY <1>4, <2>1, <3>1
    <3>. QED
      BY <3>2, <3>3 DEF Behind
  <2>6. pc[t] \in Mutations
    BY <1>4, <2>1
  <2>. QED
    BY <2>4, <2>5, <2>6 DEF Queued
<1>. QED
  BY <1>2, <1>3, <1>6 DEF QueueMoves

\* Nobody is ahead of the head of the queue.
LEMMA HeadIsFirst ==
  ASSUME TypeInv, RecordInv, NEW t \in Ops, NEW u \in Ops, AtHead(t)
  PROVE  ~Behind(u, t)
<1>. queue \in Seq(Ops)
  BY DEF TypeInv, TypeOK, StoreOK
<1>1. Len(queue) \in Nat \ {0} /\ queue[1] = t
  BY EmptySeq, LenProperties DEF AtHead
<1>2. \A j \in 1 .. Len(queue) : queue[j] = t => j = 1
  BY <1>1 DEF RecordInv, QueueFits
<1>. QED
  BY <1>1, <1>2 DEF Behind

-----------------------------------------------------------------------------
(* One step of one operation *)

\* What a step of t to s may do to the records of Agents and Runs: it leaves the
\* Agent alone or finds it idle, and ends no other Run but by a removal.
WritesOwn(t, s) ==
  LET a == AgentOf[t] IN
  /\ \A b \in Agents : b # a => agent'[b] = agent[b]
  /\ agent'[a] = agent[a] \/ IdleBut(t)
  /\ \A u \in Runs : u # t =>
       \/ run'[u] = run[u]
       \/ pc[u] \notin ExecSteps /\ AgentOf[u] = a /\ run'[u] = "none"
  /\ agent'[a] = "absent" =>
       /\ UNCHANGED <<active, pending>>
       /\ \/ agent[a] = "absent" /\ (t \in Runs => run'[t] \in {"none", run[t]})
          \/ /\ active[a] = None /\ pending[a] = {}
             /\ \A u \in Runs : AgentOf[u] = a => run'[u] = "none"

\* How it may enter or continue an execution.
Executes(t, s) ==
  LET a == AgentOf[t] IN
  t \in Runs /\ s \in ExecSteps =>
    /\ agent'[a] = "busy" /\ run'[t] # "none"
    /\ s \in MarkedSteps => run'[t] = "running"
    /\ s # "launching" => active'[a] = t
    /\ IdleBut(t)
    /\ pc[t] \in ExecSteps \/ (pc[t] = "admitting" /\ AtHead(t))

\* How it may change the registers of the Agent.
Registers(t, s) ==
  LET a == AgentOf[t] IN
  /\ \/ UNCHANGED active
     \/ /\ t \in Runs /\ pc[t] \in ExecSteps /\ s \in ExecSteps
        /\ active' = [active EXCEPT ![a] = t]
     \/ /\ t \in Runs /\ s \notin ExecSteps /\ pc[t] \notin ExecSteps
        /\ active' = [active EXCEPT ![a] = IF @ = t THEN None ELSE @]
  /\ \/ /\ UNCHANGED pending
        /\ t \in Runs =>
             /\ s # "admitting" /\ (s = "launching" => pc[t] = "admitting")
             /\ pc[t] \in {"admitting", "launching", "unwinding"} =>
                  s \in {"admitting", "launching", "unwinding"}
     \/ /\ t \in Runs /\ pc[t] = "awaitAdmit" /\ s = "admitting"
        /\ pending' = [pending EXCEPT ![a] = @ \cup {t}]
     \/ /\ t \in Runs /\ s \notin {"admitting", "launching"}
        /\ pending' = [pending EXCEPT ![a] = @ \ {t}]

\* How it may become, or stay, a drained stop or delete.
Drains(t, s) ==
  t \in Cancels /\ s \in DrainSteps =>
    /\ t \in Stops => s = "settingStopped"
    /\ \/ t \in Deletes /\ pc[t] \in DrainSteps
       \/ active[AgentOf[t]] = None /\ pending[AgentOf[t]] = {}

\* A step like that keeps every execution with its Agent and its Run.
LEMMA HeldStep ==
  ASSUME TypeInv, DrainInv, NEW t \in Ops, NEW s, Goto(t, s),
         WritesOwn(t, s), Executes(t, s), Registers(t, s), NEW r \in Runs
  PROVE  Held(r)'
<1>. DEFINE a == AgentOf[t]
<1>1. pc'[t] = s /\ \A u \in Ops : u # t => pc'[u] = pc[u]
  BY DEF Goto, TypeInv, TypeOK, StepsOK
<1>2. r \in Ops /\ AgentOf[r] \in Agents /\ a \in Agents /\ Runs \subseteq Ops
  BY OpsFacts, AgentOfOps
<1>3. active \in [Agents -> Runs \cup {None}] /\ None \notin Runs
  BY ConstantsAssumption DEF TypeInv, TypeOK, ServiceOK
<1>4. SUFFICES ASSUME pc'[r] \in ExecSteps
               PROVE  /\ agent'[AgentOf[r]] = "busy" /\ run'[r] # "none"
                      /\ pc'[r] \in MarkedSteps => run'[r] = "running"
                      /\ pc'[r] # "launching" => active'[AgentOf[r]] = r
                      /\ \A u \in Runs : u # r /\ AgentOf[u] = AgentOf[r] =>
                           pc'[u] \notin ExecSteps
  BY DEF Held, IdleBut
<1>5. CASE r = t
  BY <1>1, <1>2, <1>4, <1>5 DEF Executes, IdleBut
<1>6. CASE r # t
  <2>1. pc[r] \in ExecSteps /\ pc'[r] = pc[r]
    BY <1>1, <1>2, <1>4, <1>6
  <2>2. /\ agent[AgentOf[r]] = "busy" /\ run[r] # "none"
        /\ pc[r] \in MarkedSteps => run[r] = "running"
        /\ pc[r] # "launching" => active[AgentOf[r]] = r
        /\ IdleBut(r)
    BY <2>1 DEF DrainInv, Held
  <2>3. AgentOf[r] = a => ~IdleBut(t)
    BY <1>6, <2>1 DEF IdleBut
  <2>4. agent'[AgentOf[r]] = "busy"
    BY <1>2, <2>2, <2>3 DEF WritesOwn
  <2>5. run'[r] = run[r]
    BY <1>6, <2>1 DEF WritesOwn
  <2>6. AgentOf[r] = a /\ t \in Runs => pc[t] \notin ExecSteps /\ s \notin ExecSteps
    BY <1>6, <2>2, <2>3 DEF IdleBut, Executes
  <2>7. pc[r] # "launching" => active'[AgentOf[r]] = r
    BY <1>2, <1>3, <1>6, <2>2, <2>6 DEF Registers
  <2>8. ASSUME NEW u \in Runs, u # r, AgentOf[u] = AgentOf[r] PROVE pc'[u] \notin ExecSteps
    BY <1>1, <1>2, <2>2, <2>6, <2>8 DEF IdleBut
  <2>. QED
    BY <2>1, <2>2, <2>4, <2>5, <2>7, <2>8
<1>. QED
  BY <1>5, <1>6

\* It keeps pendingAdmissions to the admissions that are under way.
LEMMA PendedStep ==
  ASSUME TypeInv, DrainInv, NEW t \in Ops, NEW s, Goto(t, s), Registers(t, s)
  PROVE  Pended'
<1>. DEFINE a == AgentOf[t]
<1>1. pc'[t] = s /\ \A u \in Ops : u # t => pc'[u] = pc[u]
  BY DEF Goto, TypeInv, TypeOK, StepsOK
<1>2. a \in Agents /\ Runs \subseteq Ops /\ \A r \in Runs : AgentOf[r] \in Agents
  BY OpsFacts, AgentOfOps
<1>3. pending \in [Agents -> SUBSET Runs]
  BY DEF TypeInv, TypeOK, ServiceOK
<1>4. Pended
  BY DEF DrainInv
<1>5. CASE /\ UNCHANGED pending
           /\ t \in Runs =>
                /\ s # "admitting" /\ (s = "launching" => pc[t] = "admitting")
                /\ pc[t] \in {"admitting", "launching", "unwinding"} =>
                     s \in {"admitting", "launching", "unwinding"}
  BY <1>1, <1>2, <1>3, <1>4, <1>5 DEF Pended
<1>6. CASE t \in Runs /\ s = "admitting" /\ pending' = [pending EXCEPT ![a] = @ \cup {t}]
  BY <1>1, <1>2, <1>3, <1>4, <1>6 DEF Pended
<1>7. CASE /\ t \in Runs /\ s \notin {"admitting", "launching"}
           /\ pending' = [pending EXCEPT ![a] = @ \ {t}]
  BY <1>1, <1>2, <1>3, <1>4, <1>7 DEF Pended
<1>. QED
  BY <1>5, <1>6, <1>7 DEF Registers

\* It leaves what drained stops and deletes rely on.
LEMMA DrainedStep ==
  ASSUME TypeInv, RecordInv, DrainInv, NEW t \in Ops, NEW s, Goto(t, s),
         QueueMoves(t, s), Executes(t, s), Registers(t, s), Drains(t, s),
         NEW c \in Cancels
  PROVE  Drained(c)'
<1>. DEFINE b == AgentOf[c]
<1>1. pc'[t] = s /\ \A u \in Ops : u # t => pc'[u] = pc[u]
  BY DEF Goto, TypeInv, TypeOK, StepsOK
<1>2. /\ c \in Ops /\ c \notin Runs /\ Runs \subseteq Ops /\ b \in Agents
      /\ AgentOf[t] \in Agents
  BY OpsFacts, AgentOfOps, OperationsDisjoint
<1>3. active \in [Agents -> Runs \cup {None}] /\ None \notin Runs
  BY ConstantsAssumption DEF TypeInv, TypeOK, ServiceOK
<1>4. SUFFICES ASSUME pc'[c] \in DrainSteps
               PROVE  /\ \A u \in Runs : AgentOf[u] = b => pc'[u] \notin ExecSteps
                      /\ c \in Deletes => active'[b] = None
                      /\ c \in Stops =>
                           /\ pc'[c] = "settingStopped"
                           /\ \A r \in Runs :
                                AgentOf[r] = b /\ pc'[r] = "admitting" => Behind(c, r)'
  BY DEF Drained, Idle
<1>5. CASE c = t
  <2>1. \A u \in Runs : pc'[u] = pc[u]
    BY <1>1, <1>2, <1>5
  <2>2. UNCHANGED active
    BY <1>2, <1>5 DEF Registers
  <2>3. c \in Stops => pc'[c] = "settingStopped"
    BY <1>1, <1>2, <1>4, <1>5 DEF Drains
  <2>4. CASE t \in Deletes /\ pc[t] \in DrainSteps
    <3>1. Idle(b) /\ active[b] = None
      BY <1>5, <2>4 DEF DrainInv, Drained
    <3>2. c \notin Stops
      BY <1>5, <2>4, OperationsDisjoint
    <3>. QED
      BY <2>1, <2>2, <3>1, <3>2 DEF Idle
  <2>5. CASE active[b] = None /\ pending[b] = {}
    <3>1. ASSUME NEW u \in Runs, AgentOf[u] = b
          PROVE  pc[u] \notin ExecSteps /\ pc[u] # "admitting"
      <4>1. pc[u] \notin {"admitting", "launching"}
        BY <2>5, <3>1 DEF DrainInv, Pended
      <4>2. Held(u) /\ u # None
        BY <1>3 DEF DrainInv
      <4>. QED
        BY <2>5, <3>1, <4>1, <4>2 DEF Held
    <3>. QED
      BY <2>1, <2>2, <2>3, <2>5, <3>1
  <2>. QED
    BY <1>1, <1>2, <1>4, <1>5, <2>4, <2>5 DEF Drains
<1>6. CASE c # t
  <2>1. pc[c] \in DrainSteps
    BY <1>1, <1>2, <1>4, <1>6
  <2>2. /\ \A u \in Runs : AgentOf[u] = b => pc[u] \notin ExecSteps
        /\ c \in Deletes => active[b] = None
        /\ c \in Stops =>
             /\ pc[c] = "settingStopped"
             /\ \A r \in Runs :
                  AgentOf[r] = b /\ pc[r] = "admitting" => Behind(c, r)
    BY <2>1 DEF DrainInv, Drained, Idle
  <2>3. t \in Runs /\ AgentOf[t] = b => s \notin ExecSteps
    <3>1. SUFFICES ASSUME t \in Runs, AgentOf[t] = b, pc[t] = "admitting", AtHead(t)
                   PROVE  FALSE
      BY <2>2 DEF Executes
    <3>2. CASE c \in Stops
      BY <1>2, <2>2, <3>1, <3>2, HeadIsFirst
    <3>3. CASE c \in Deletes
      <4>1. c \in FileOps /\ t \in FileOps
        BY <3>1, <3>3 DEF FileOps
      <4>2. pc[c] \in {"archiving", "removing", "settingStopped"}
        BY <2>1 DEF DrainSteps
      <4>3. HoldsLock(c) /\ HoldsLock(t)
        BY <3>1, <4>1, <4>2 DEF TypeInv, LockHolders, HoldSteps, FileSteps
      <4>. QED
        BY <1>6, <3>1, <4>3 DEF HoldsLock
    <3>. QED
      BY <3>2, <3>3 DEF Cancels
  <2>4. \A u \in Runs : AgentOf[u] = b => pc'[u] \notin ExecSteps
    BY <1>1, <1>2, <2>2, <2>3
  <2>5. c \in Deletes => active'[b] = None
    BY <1>2, <1>3, <2>2, <2>3 DEF Registers
  <2>6. ASSUME c \in Stops, NEW r \in Runs, AgentOf[r] = b, pc'[r] = "admitting"
        PROVE  Behind(c, r)'
    <3>1. Queued
      BY DEF DrainInv
    <3>2. CASE r # t
      <4>1. Behind(c, r)
        BY <1>1, <1>2, <2>2, <2>6, <3>2
      <4>. QED
        BY <1>2, <1>6, <3>1, <3>2, <4>1, QueueOrder
    <3>3. CASE r = t
      <4>1. pc[t] = "awaitAdmit" /\ s = "admitting"
        BY <1>1, <1>2, <2>6, <3>3 DEF Registers
      <4>2. pc[t] \notin Mutations /\ s \in Mutations
        BY <4>1 DEF Mutations
      <4>3. pc[c] \in Mutations
        BY <2>2, <2>6 DEF Mutations
      <4>. QED
        BY <1>2, <3>1, <3>3, <4>2, <4>3, QueueOrder
    <3>. QED
      BY <3>2, <3>3
  <2>. QED
    BY <1>1, <1>2, <1>6, <2>2, <2>4, <2>5, <2>6
<1>. QED
  BY <1>5, <1>6

\* It leaves nothing of a deleted Agent.
LEMMA DeletedStep ==
  ASSUME TypeInv, DrainInv, NEW t \in Ops, NEW s, WritesOwn(t, s), NEW b \in Agents,
         b # AgentOf[t] => active'[b] = active[b] /\ pending'[b] = pending[b]
  PROVE  Deleted(b)'
<1>. SUFFICES ASSUME agent'[b] = "absent"
              PROVE  /\ active'[b] = None /\ pending'[b] = {}
                     /\ \A r \in Runs : AgentOf[r] = b => run'[r] = "none"
  BY DEF Deleted
<1>1. Deleted(b)
  BY DEF DrainInv
<1>2. CASE b # AgentOf[t]
  BY <1>1, <1>2 DEF Deleted, WritesOwn
<1>3. CASE b = AgentOf[t]
  BY <1>1, <1>3 DEF Deleted, WritesOwn
<1>. QED
  BY <1>2, <1>3

\* How it may treat the mutation that is being written.
Writes(t) ==
  \/ ~writing'
  \/ writing' = writing /\ pc[t] \notin Mutations /\ UNCHANGED agent

\* All of the invariant.
LEMMA DrainStep ==
  ASSUME TypeInv, RecordInv, DrainInv, NEW t \in Ops, NEW s, Goto(t, s),
         QueueMoves(t, s), Writes(t), WritesOwn(t, s), Executes(t, s),
         Registers(t, s), Drains(t, s)
  PROVE  DrainInv'
<1>1. pc'[t] = s /\ \A u \in Ops : u # t => pc'[u] = pc[u]
  BY DEF Goto, TypeInv, TypeOK, StepsOK
<1>2. Queued' /\ Pended'
  BY QueueOrder, PendedStep DEF DrainInv
<1>3. Checked'
  <2>. SUFFICES ASSUME writing, writing', pc[t] \notin Mutations, UNCHANGED agent,
                       NEW u \in Ops, AtHead(u)'
                PROVE  /\ pc'[u] \in {"admitting", "denying"} =>
                            agent[AgentOf[u]] \in {"ready", "error"}
                       /\ pc'[u] = "settingReady" =>
                            agent[AgentOf[u]] \notin {"absent", "busy"}
    BY DEF Checked, Writes
  <2>. queue \in Seq(Ops)
    BY DEF TypeInv, TypeOK, StoreOK
  <2>1. queue # <<>>
    BY DEF RecordInv, EvaluatedFits
  <2>2. \A v \in Ops : AtHead(v) => pc[v] \in Mutations
    BY <2>1, EmptySeq, LenProperties DEF AtHead, RecordInv, QueueFits
  <2>3. queue' \in {queue, Append(queue, t)}
    BY <2>2 DEF QueueMoves
  <2>4. AtHead(u)
    BY <2>1, <2>3, AppendFacts DEF AtHead
  <2>5. pc'[u] = pc[u]
    BY <1>1, <2>2, <2>4
  <2>. QED
    BY <2>4, <2>5 DEF DrainInv, Checked
<1>4. \A r \in Runs : Held(r)'
  BY HeldStep
<1>5. \A c \in Cancels : Drained(c)'
  BY DrainedStep
<1>6. ASSUME NEW b \in Agents PROVE Deleted(b)'
  <2>1. b # AgentOf[t] => active'[b] = active[b] /\ pending'[b] = pending[b]
    BY OpsFacts, AgentOfOps DEF Registers, TypeInv, TypeOK, ServiceOK
  <2>. QED
    BY <2>1, DeletedStep
<1>. QED
  BY <1>2, <1>3, <1>4, <1>5, <1>6 DEF DrainInv

\* A step outside the store that registers nothing.
LEMMA DrainMove ==
  ASSUME TypeInv, RecordInv, DrainInv, NEW t \in Ops, NEW s, Goto(t, s),
         QueueMoves(t, s), pc[t] \notin Mutations, Drains(t, s),
         UNCHANGED <<agent, run, writing, active, pending>>,
         t \in Runs =>
           /\ {pc[t], s} \cap {"admitting", "launching", "unwinding"} = {}
           /\ s \in ExecSteps => pc[t] \in ExecSteps
           /\ s \in MarkedSteps => pc[t] \in MarkedSteps
  PROVE  DrainInv'
<1>1. Writes(t) /\ Registers(t, s)
  BY DEF Writes, Registers
<1>2. WritesOwn(t, s)
  BY DEF WritesOwn, DrainInv, Deleted
<1>3. Executes(t, s)
  <2>. SUFFICES ASSUME t \in Runs, s \in ExecSteps PROVE Executes(t, s)
    BY DEF Executes
  <2>1. Held(t)
    BY DEF DrainInv
  <2>. QED
    BY <2>1 DEF Held, Executes
<1>. QED
  BY <1>1, <1>2, <1>3, DrainStep

-----------------------------------------------------------------------------
(* One step per action *)

\* A send registers its admission before it asks for it, and its execution
\* before it gives the admission up.
LEMMA DrainAdmit ==
  ASSUME TypeInv, RecordInv, DrainInv, NEW r \in Runs,
         \/ SendRefused(r) \/ SendBaseline(r) \/ SendCapsule(r) \/ Admit(r)
  PROVE  DrainInv'
<1>. r \in Ops /\ r \notin Cancels
  BY OpsFacts, OperationsDisjoint
<1>1. UNCHANGED <<agent, run, writing>>
  BY DEF SendRefused, SendBaseline, SendCapsule, Admit, BeginValidation, PlanRefused,
         PlanCompiled, LateNotFound, RequestAdmission, RequestDenial, Launch,
         Submit, steady, database, store
<1>2. pc[r] \notin Mutations /\ (\A s : Drains(r, s))
  BY DEF SendRefused, SendBaseline, SendCapsule, Begin, Admit, BeginValidation,
         PlanRefused, PlanCompiled, LateNotFound, RequestAdmission, RequestDenial,
         Launch, Mutations, Drains
<1>3. CASE RequestDenial(r)
  <2>1. Goto(r, "denying") /\ pc[r] = "awaitDeny" /\ UNCHANGED <<active, pending>>
    BY <1>3 DEF RequestDenial, Submit, service
  <2>2. QueueMoves(r, "denying")
    BY <1>2, <1>3 DEF RequestDenial, Submit, QueueMoves, Mutations
  <2>. QED
    BY <1>1, <1>2, <2>1, <2>2, DrainMove DEF ExecSteps, ReceiptMutations, MarkedSteps
<1>4. CASE \/ SendRefused(r) \/ SendBaseline(r) \/ SendCapsule(r)
           \/ BeginValidation(r) \/ PlanRefused(r) \/ PlanCompiled(r) \/ LateNotFound(r)
  <2>1. /\ pc[r] \in {"idle", "authorized", "validating", "awaitAdmit", "awaitDeny"}
        /\ UNCHANGED <<active, pending, queue>>
    BY <1>4 DEF SendRefused, SendBaseline, SendCapsule, Begin, BeginValidation,
                PlanRefused, PlanCompiled, LateNotFound, service, store
  <2>2. PICK s \in {"refused", "awaitAdmit", "awaitDeny", "authorized", "validating"} :
          Goto(r, s)
    BY <1>4 DEF SendRefused, SendBaseline, SendCapsule, BeginValidation, PlanRefused,
                PlanCompiled, LateNotFound, JoinLock
  <2>3. QueueMoves(r, s)
    BY <1>2, <2>1, <2>2 DEF QueueMoves, Mutations
  <2>4. s \notin ExecSteps \cup MarkedSteps
    BY <2>2 DEF ExecSteps, ReceiptMutations, MarkedSteps
  <2>. QED
    BY <1>1, <1>2, <2>1, <2>2, <2>3, <2>4, DrainMove
<1>5. CASE RequestAdmission(r)
  <2>. DEFINE s == "admitting"
  <2>1. /\ Goto(r, s) /\ pc[r] = "awaitAdmit" /\ UNCHANGED active /\ Visible(r)
        /\ pending' = [pending EXCEPT ![AgentOf[r]] = @ \cup {r}]
        /\ queue' = Append(queue, r)
    BY <1>5 DEF RequestAdmission, Submit
  <2>2. s \notin ExecSteps /\ s \in Mutations
    BY DEF ExecSteps, ReceiptMutations, Mutations
  <2>3. QueueMoves(r, s) /\ Writes(r) /\ Executes(r, s) /\ Registers(r, s)
    BY <1>1, <1>2, <2>1, <2>2 DEF QueueMoves, Writes, Executes, Registers
  <2>4. WritesOwn(r, s)
    BY <1>1, <2>1 DEF WritesOwn, Visible
  <2>. QED
    BY <1>2, <2>1, <2>3, <2>4, DrainStep
<1>6. CASE Launch(r)
  <2>. DEFINE s == "marking"
  <2>1. /\ Goto(r, s) /\ pc[r] = "launching"
        /\ active' = [active EXCEPT ![AgentOf[r]] = r]
        /\ pending' = [pending EXCEPT ![AgentOf[r]] = @ \ {r}]
        /\ queue' = Append(queue, r)
    BY <1>6 DEF Launch, Submit
  <2>2. /\ {"launching", s} \subseteq ExecSteps /\ s \in Mutations
        /\ s \notin MarkedSteps
    BY DEF ExecSteps, Mutations, MarkedSteps
  <2>3. agent[AgentOf[r]] = "busy" /\ run[r] # "none" /\ IdleBut(r)
    BY <2>1, <2>2 DEF DrainInv, Held
  <2>4. active'[AgentOf[r]] = r
    BY <2>1, AgentOfOps DEF TypeInv, TypeOK, ServiceOK
  <2>5. QueueMoves(r, s) /\ Writes(r) /\ Executes(r, s) /\ Registers(r, s)
    BY <1>1, <1>2, <2>1, <2>2, <2>3, <2>4
       DEF QueueMoves, Writes, Executes, Registers
  <2>6. WritesOwn(r, s)
    BY <1>1, <2>3 DEF WritesOwn
  <2>. QED
    BY <1>2, <2>1, <2>5, <2>6, DrainStep
<1>. QED
  BY <1>3, <1>4, <1>5, <1>6 DEF Admit

\* An execution keeps what it has until it has settled.
LEMMA DrainExecute ==
  ASSUME TypeInv, RecordInv, DrainInv, NEW r \in Runs, Execute(r)
  PROVE  DrainInv'
<1>. r \in Ops /\ r \notin Cancels
  BY OpsFacts, OperationsDisjoint
<1>1. UNCHANGED <<agent, run, writing, pending>>
  BY DEF Execute, CancelAfterMark, PrepareHome, PrepareHomeAborted, HomePrepared,
         RecheckAfterEvidence, DeriveAborted, WithdrawBeforeHandoff, Handoff,
         RunnerExits, Catch, Finish, Submit, steady, database, store, service
<1>2. \A s : Drains(r, s)
  BY DEF Drains
<1>3. CASE Finish(r)
  <2>1. pc[r] \in {"resolved", "rejected"} /\ UNCHANGED queue /\ Forget(r)
    BY <1>3 DEF Finish, store
  <2>2. PICK s \in {"done", "broken"} : Goto(r, s)
    BY <1>3 DEF Finish
  <2>3. /\ s \notin ExecSteps /\ pc[r] \notin ExecSteps
        /\ s \notin Mutations /\ pc[r] \notin Mutations
    BY <2>1, <2>2 DEF ExecSteps, ReceiptMutations, Mutations
  <2>4. QueueMoves(r, s) /\ Writes(r) /\ Executes(r, s)
    BY <1>1, <2>1, <2>3 DEF QueueMoves, Writes, Executes
  <2>5. Registers(r, s)
    BY <1>1, <2>1, <2>2, <2>3 DEF Registers, Forget
  <2>6. agent[AgentOf[r]] = "absent" => UNCHANGED active
    BY <2>1, AgentOfOps, ConstantsAssumption
       DEF DrainInv, Deleted, Forget, TypeInv, TypeOK, ServiceOK
  <2>7. WritesOwn(r, s)
    BY <1>1, <2>6 DEF WritesOwn
  <2>. QED
    BY <1>2, <2>2, <2>4, <2>5, <2>7, DrainStep
<1>4. CASE Execute(r) /\ ~Finish(r)
  <2>1. /\ UNCHANGED active
        /\ pc[r] \in MarkedSteps \cup {"caught"} /\ pc[r] \notin Mutations
    BY <1>4 DEF Execute, CancelAfterMark, PrepareHome, PrepareHomeAborted,
                HomePrepared, RecheckAfterEvidence, DeriveAborted,
                WithdrawBeforeHandoff, Handoff, RunnerExits, Catch, service,
                MarkedSteps, Mutations
  <2>2. PICK s : /\ Goto(r, s) /\ s \in ExecSteps \ {"launching"}
                 /\ s \in MarkedSteps => pc[r] \in MarkedSteps
                 /\ \/ s \notin Mutations /\ queue' = queue
                    \/ s \in Mutations /\ queue' = Append(queue, r)
    <3>1. CASE \/ CancelAfterMark(r) \/ PrepareHome(r) \/ PrepareHomeAborted(r)
               \/ DeriveAborted(r) \/ Handoff(r)
      BY <3>1 DEF CancelAfterMark, PrepareHome, PrepareHomeAborted, DeriveAborted,
                  Handoff, Throw, store, ExecSteps, MarkedSteps, Mutations
    <3>2. CASE HomePrepared(r) \/ RecheckAfterEvidence(r) \/ WithdrawBeforeHandoff(r)
      BY <3>2 DEF HomePrepared, RecheckAfterEvidence, WithdrawBeforeHandoff, Submit,
                  store, Mutations, ExecSteps, ReceiptMutations, MarkedSteps
    <3>3. CASE RunnerExits(r) \/ Catch(r)
      BY <3>3 DEF RunnerExits, Catch, Throw, Submit, store, Mutations, ExecSteps,
                  ReceiptMutations, MarkedSteps
    <3>. QED
      BY <1>4, <3>1, <3>2, <3>3 DEF Execute
  <2>3. /\ pc[r] \in ExecSteps
        /\ {pc[r], s} \cap {"admitting", "launching", "unwinding"} = {}
    BY <2>1, <2>2 DEF ExecSteps, ReceiptMutations, MarkedSteps
  <2>4. QueueMoves(r, s)
    BY <2>1, <2>2 DEF QueueMoves
  <2>. QED
    BY <1>1, <1>2, <2>1, <2>2, <2>3, <2>4, DrainMove
<1>. QED
  BY <1>3, <1>4

\* A stop or delete goes on to write only when nothing is registered.
LEMMA DrainCancel ==
  ASSUME TypeInv, RecordInv, DrainInv, NEW t \in Cancels,
         \/ Cancel(t)
         \/ t \in Stops /\ BeginStop(t)
         \/ t \in Deletes /\ (BeginDelete(t) \/ DeleteFiles(t))
  PROVE  DrainInv'
<1>1. t \in Ops /\ t \notin Runs
  BY OpsFacts, OperationsDisjoint
<1>2. UNCHANGED <<agent, run, writing, active, pending>>
  BY DEF Cancel, RunnerCancelled, Drain, AdmissionsReleased, ExecutionSettled,
         ReadExecution, Proceed, BeginStop, BeginDelete, DeleteFiles, DeleteUnderLock,
         Archive, Restore, Submit, steady, database, store, service
<1>3. pc[t] \notin Mutations
  BY DEF Cancel, RunnerCancelled, Drain, AdmissionsReleased, ExecutionSettled,
         BeginStop, BeginDelete, Begin, DeleteFiles, DeleteUnderLock, Archive,
         Restore, Mutations
<1>4. ASSUME ReadExecution(t) PROVE \E s : Goto(t, s) /\ QueueMoves(t, s) /\ Drains(t, s)
  <2>1. CASE active[AgentOf[t]] = None /\ Outstanding(t) = {} /\ Proceed(t)
    <3>1. PICK s \in {"settingStopped", "archiving"} :
            /\ Goto(t, s) /\ (t \in Stops => s = "settingStopped")
            /\ \/ s \notin Mutations /\ queue' = queue
               \/ s \in Mutations /\ queue' = Append(queue, t)
      BY <2>1, OperationsDisjoint DEF Proceed, Submit, store, Mutations
    <3>. QED
      BY <1>3, <2>1, <3>1 DEF QueueMoves, Drains, Outstanding
  <2>2. CASE ~(active[AgentOf[t]] = None /\ Outstanding(t) = {} /\ Proceed(t))
    <3>1. PICK s \in {"awaitRun", "draining"} : Goto(t, s) /\ UNCHANGED queue
      BY <1>4, <2>2 DEF ReadExecution, store
    <3>. QED
      BY <1>3, <3>1 DEF QueueMoves, Drains, DrainSteps, Mutations
  <2>. QED
    BY <2>1, <2>2
<1>5. \E s : Goto(t, s) /\ QueueMoves(t, s) /\ Drains(t, s)
  <2>1. CASE ReadExecution(t)
    BY <1>4, <2>1
  <2>2. CASE (Drain(t) \/ AdmissionsReleased(t) \/ ExecutionSettled(t)) /\ ~ReadExecution(t)
    <3>1. PICK s \in {"awaitAdmissions", "unwinding", "draining"} :
            Goto(t, s) /\ UNCHANGED queue
      BY <2>2 DEF Drain, AdmissionsReleased, ExecutionSettled, store
    <3>. QED
      BY <1>3, <3>1 DEF QueueMoves, Drains, DrainSteps, Mutations
  <2>3. CASE t \in Deletes /\ (Archive(t) \/ Restore(t))
    <3>1. PICK s \in {"removing", "unwinding"} :
            /\ Goto(t, s) /\ (s = "removing" => pc[t] = "archiving")
            /\ \/ s \notin Mutations /\ queue' = queue
               \/ s \in Mutations /\ queue' = Append(queue, t)
      BY <2>3 DEF Archive, Restore, Submit, store, Mutations
    <3>. QED
      BY <1>3, <2>3, <3>1, OperationsDisjoint DEF QueueMoves, Drains, DrainSteps
  <2>4. CASE RunnerCancelled(t) \/ BeginStop(t) \/ BeginDelete(t) \/ DeleteUnderLock(t)
    <3>1. PICK s \in {"draining", "killing", "refused", "awaitDelete"} :
            Goto(t, s) /\ UNCHANGED queue
      BY <2>4 DEF RunnerCancelled, BeginStop, BeginDelete, DeleteUnderLock,
                  RequestCancel, JoinLock, store
    <3>. QED
      BY <1>3, <3>1 DEF QueueMoves, Drains, DrainSteps, Mutations
  <2>. QED
    BY <2>1, <2>2, <2>3, <2>4 DEF Cancel, DeleteFiles
<1>. QED
  BY <1>1, <1>2, <1>3, <1>5, DrainMove

\* A commit that leaves executions of others alone.
LEMMA DrainPublish ==
  ASSUME TypeInv, RecordInv, DrainInv, NEW t \in Ops, NEW m \in Mutations, NEW s,
         Publish(t, m, s), s \notin Mutations \cup DrainSteps,
         m = "admitting" <=> s = "launching",
         WritesOwn(t, s), Executes(t, s)
  PROVE  DrainInv'
<1>1. Goto(t, s) /\ QueueMoves(t, s) /\ Writes(t) /\ Drains(t, s)
  BY DEF Publish, QueueMoves, Writes, Drains
<1>2. m \notin {"launching", "unwinding"} /\ s # "admitting"
  BY DEF Mutations
<1>3. Registers(t, s)
  BY <1>2 DEF Publish, Registers, service
<1>. QED
  BY <1>1, <1>3, DrainStep

\* The commits of an execution.
LEMMA DrainCommitExec ==
  ASSUME TypeInv, RecordInv, DrainInv, NEW r \in Runs, CommitRun(r),
         ~CommitDenial(r), ~CommitAdmission(r)
  PROVE  DrainInv'
<1>. r \in Ops /\ AgentOf[r] \in Agents
  BY OpsFacts, AgentOfOps
<1>. run \in [Runs -> Running \cup Terminal \cup {"none"}] /\ agent \in [Agents -> AgentStatus]
  BY DEF TypeInv, TypeOK, DatabaseOK
<1>1. pc[r] \in ExecSteps \cap Mutations /\ pc[r] # "launching" /\ UNCHANGED <<active, pending>>
  BY DEF CommitRun, CommitMark, CommitEvidence, CommitRetraction, CommitLateDenial,
         CommitPreRunnerFailure, CommitFailure, CommitCompletion, Publish, service,
         ExecSteps, ReceiptMutations, Mutations
<1>2. /\ agent[AgentOf[r]] = "busy" /\ run[r] # "none" /\ IdleBut(r)
      /\ active[AgentOf[r]] = r
      /\ pc[r] \in MarkedSteps => run[r] = "running"
  BY <1>1 DEF DrainInv, Held
<1>3. \A u \in Runs : u # r => run'[u] = run[u]
  BY CommitsOwn
<1>4. CASE CommitMark(r) \/ CommitEvidence(r) \/ CommitRetraction(r)
  <2>1. UNCHANGED agent
    BY <1>4 DEF CommitMark, CommitEvidence, CommitRetraction
  <2>2. PICK s \in {"marked", "evidenced", "caught"} :
          /\ Publish(r, pc[r], s) /\ run'[r] \in {run[r], "running"}
          /\ s \in MarkedSteps => run'[r] = "running"
    BY <1>2, <1>4
       DEF CommitMark, CommitEvidence, CommitRetraction, Publish, SetRun, MarkedSteps
  <2>3. s \notin Mutations \cup DrainSteps /\ s # "launching" /\ pc[r] # "admitting"
    BY <1>1, <2>2 DEF Mutations, DrainSteps, ExecSteps, ReceiptMutations
  <2>4. WritesOwn(r, s)
    BY <1>2, <1>3, <2>1 DEF WritesOwn
  <2>5. Executes(r, s)
    BY <1>1, <1>2, <2>1, <2>2 DEF Executes
  <2>. QED
    BY <1>1, <2>2, <2>3, <2>4, <2>5, DrainPublish
<1>5. CASE \/ CommitLateDenial(r) \/ CommitPreRunnerFailure(r) \/ CommitFailure(r)
           \/ CommitCompletion(r)
  <2>. DEFINE s == "resolved"
  <2>1. Publish(r, pc[r], s)
    BY <1>5 DEF CommitLateDenial, AfterLateDenial, CommitPreRunnerFailure,
                CommitFailure, CommitCompletion, Publish
  <2>2. /\ \A b \in Agents : b # AgentOf[r] => agent'[b] = agent[b]
        /\ agent'[AgentOf[r]] \in {"ready", "error"}
    BY <1>2, <1>5 DEF CommitLateDenial, CommitPreRunnerFailure, CommitFailure,
                      CommitCompletion, Recorded, EndRun, SetAgent
  <2>3. s \notin Mutations \cup DrainSteps \cup ExecSteps /\ pc[r] # "admitting"
    BY <1>1 DEF Mutations, DrainSteps, ExecSteps, ReceiptMutations
  <2>4. WritesOwn(r, s) /\ Executes(r, s)
    BY <1>2, <1>3, <2>2, <2>3 DEF WritesOwn, Executes
  <2>. QED
    BY <1>1, <2>1, <2>3, <2>4, DrainPublish
<1>. QED
  BY <1>4, <1>5 DEF CommitRun

\* An Agent that is not busy is idle.
LEMMA IdleUnlessBusy ==
  ASSUME DrainInv, NEW a, agent[a] # "busy"
  PROVE  Idle(a)
  BY DEF DrainInv, Held, Idle

\* The two commits of a send.
LEMMA DrainCommitSend ==
  ASSUME TypeInv, RecordInv, DrainInv, NEW r \in Runs,
         CommitDenial(r) \/ CommitAdmission(r)
  PROVE  DrainInv'
<1>. r \in Ops /\ AgentOf[r] \in Agents
  BY OpsFacts, AgentOfOps
<1>1. /\ writing /\ AtHead(r) /\ pc[r] \in {"admitting", "denying"}
      /\ CommitRun(r)
  BY DEF CommitDenial, CommitAdmission, Publish, CommitRun
<1>2. agent[AgentOf[r]] \in {"ready", "error"}
  BY <1>1 DEF DrainInv, Checked
<1>3. Idle(AgentOf[r])
  BY <1>2, IdleUnlessBusy
<1>4. \A u \in Runs : u # r => run'[u] = run[u]
  BY <1>1, CommitsOwn
<1>5. CASE CommitDenial(r)
  <2>1. UNCHANGED agent /\ Publish(r, "denying", "returning")
    BY <1>5 DEF CommitDenial
  <2>2. /\ "returning" \notin Mutations \cup DrainSteps \cup ExecSteps
        /\ "denying" \in Mutations
    BY DEF Mutations, DrainSteps, ExecSteps, ReceiptMutations
  <2>3. WritesOwn(r, "returning") /\ Executes(r, "returning")
    BY <1>2, <1>4, <2>1, <2>2 DEF WritesOwn, Executes
  <2>. QED
    BY <2>1, <2>2, <2>3, DrainPublish
<1>6. CASE CommitAdmission(r)
  <2>1. Publish(r, "admitting", "launching")
    BY <1>6 DEF CommitAdmission
  <2>2. /\ run'[r] = "queued" /\ agent'[AgentOf[r]] = "busy"
        /\ \A b \in Agents : b # AgentOf[r] => agent'[b] = agent[b]
    BY <1>6 DEF CommitAdmission, SetRun, SetAgent, TypeInv, TypeOK, DatabaseOK
  <2>3. /\ "launching" \notin Mutations \cup DrainSteps \cup MarkedSteps
        /\ "admitting" \in Mutations
    BY DEF Mutations, DrainSteps, MarkedSteps
  <2>4. IdleBut(r)
    BY <1>3 DEF Idle, IdleBut
  <2>5. WritesOwn(r, "launching")
    BY <1>4, <2>2, <2>4 DEF WritesOwn
  <2>6. Executes(r, "launching")
    BY <1>1, <2>1, <2>2, <2>3, <2>4 DEF Executes, Publish
  <2>. QED
    BY <2>1, <2>3, <2>5, <2>6, DrainPublish
<1>. QED
  BY <1>5, <1>6

\* The commits of the other requests.
LEMMA DrainCommitOther ==
  ASSUME TypeInv, RecordInv, DrainInv, NEW t \in Ops, t \notin Runs,
         \/ t \in Stops /\ CommitStopped(t)
         \/ t \in Deletes /\ CommitRemoval(t)
         \/ CommitReady(t) \/ CommitGrant(t) \/ CommitRevoke(t)
  PROVE  DrainInv'
<1>. DEFINE a == AgentOf[t]
<1>. a \in Agents /\ Runs \subseteq Ops /\ agent \in [Agents -> AgentStatus]
  BY AgentOfOps, OpsFacts DEF TypeInv, TypeOK, DatabaseOK
<1>1. \A s : Executes(t, s)
  BY DEF Executes
<1>2. CASE \/ t \in Stops /\ CommitStopped(t)
           \/ CommitReady(t) \/ CommitGrant(t) \/ CommitRevoke(t)
  <2>1. PICK m \in {"settingStopped", "settingReady", "granting", "revoking"},
             s \in {"returning", "done"} : Publish(t, m, s)
    BY <1>2 DEF CommitStopped, CommitReady, CommitGrant, CommitRevoke
  <2>2. /\ m \in Mutations /\ m # "admitting" /\ s # "launching"
        /\ s \notin Mutations \cup DrainSteps
    BY <2>1 DEF Mutations, DrainSteps
  <2>3. UNCHANGED <<run, active, pending>>
    BY <1>2 DEF CommitStopped, CommitReady, CommitGrant, CommitRevoke, Publish, service
  <2>4. UNCHANGED agent \/ (Idle(a) /\ agent'[a] # "absent")
    <3>1. CASE t \in Stops /\ CommitStopped(t)
      <4>1. pc[t] = "settingStopped" /\ agent'[a] = "stopped" /\ t \in Cancels
        BY <3>1, OpsFacts DEF CommitStopped, Publish, SetAgent
      <4>2. Idle(a)
        BY <4>1 DEF DrainInv, Drained, DrainSteps
      <4>. QED
        BY <4>1, <4>2
    <3>2. CASE CommitReady(t)
      <4>1. pc[t] = "settingReady" /\ writing /\ AtHead(t) /\ agent'[a] = "ready"
        BY <3>2 DEF CommitReady, Publish, SetAgent
      <4>2. agent[a] # "busy"
        BY <4>1 DEF DrainInv, Checked
      <4>. QED
        BY <4>1, <4>2, IdleUnlessBusy
    <3>3. CASE CommitGrant(t) \/ CommitRevoke(t)
      BY <3>3 DEF CommitGrant, CommitRevoke
    <3>. QED
      BY <1>2, <3>1, <3>2, <3>3
  <2>5. \A b \in Agents : b # a => agent'[b] = agent[b]
    BY <1>2 DEF CommitStopped, CommitReady, CommitGrant, CommitRevoke, SetAgent
  <2>6. WritesOwn(t, s)
    BY <2>3, <2>4, <2>5 DEF WritesOwn, Idle, IdleBut, DrainInv, Deleted
  <2>. QED
    BY <1>1, <2>1, <2>2, <2>6, DrainPublish
<1>3. CASE t \in Deletes /\ CommitRemoval(t)
  <2>1. Publish(t, "removing", "returning") /\ t \in Cancels /\ pc[t] = "removing"
    BY <1>3, OpsFacts DEF CommitRemoval, Publish
  <2>2. /\ "returning" \notin Mutations \cup DrainSteps /\ "removing" \in Mutations
        /\ pc[t] \in DrainSteps
    BY <2>1 DEF Mutations, DrainSteps
  <2>3. Idle(a) /\ active[a] = None
    BY <1>3, <2>1, <2>2 DEF DrainInv, Drained
  <2>4. pending[a] = {}
    <3>1. ASSUME NEW r \in pending[a] PROVE FALSE
      <4>1. /\ r \in Runs /\ AgentOf[r] = a
            /\ pc[r] \in {"admitting", "launching", "unwinding"}
        BY DEF DrainInv, Pended, TypeInv, TypeOK, ServiceOK
      <4>2. HoldsLock(r) /\ HoldsLock(t)
        BY <1>3, <2>1, <4>1 DEF TypeInv, LockHolders, FileOps, HoldSteps, FileSteps
      <4>. QED
        BY <4>1, <4>2 DEF HoldsLock
    <3>. QED
      BY <3>1
  <2>5. UNCHANGED <<active, pending>>
    BY <2>1 DEF Publish, service
  <2>6. /\ \A b \in Agents : b # a => agent'[b] = agent[b]
        /\ \A u \in Runs : run'[u] = IF AgentOf[u] = a THEN "none" ELSE run[u]
    BY <1>3 DEF CommitRemoval, SetAgent
  <2>7. WritesOwn(t, "returning")
    BY <2>3, <2>4, <2>5, <2>6 DEF WritesOwn, Idle, IdleBut
  <2>. QED
    BY <1>1, <2>1, <2>2, <2>7, DrainPublish
<1>. QED
  BY <1>2, <1>3

\* A mutation that throws, or whose write fails, writes nothing.
LEMMA DrainFails ==
  ASSUME TypeInv, RecordInv, DrainInv, NEW t \in Ops, AtHead(t), MutationFails(t)
  PROVE  DrainInv'
<1>. DEFINE s == AfterError(t)
<1>1. /\ Goto(t, s) /\ UNCHANGED <<agent, run, active, pending>> /\ ~writing'
      /\ queue' = IF pc[t] = "lateRetrying" THEN Append(Tail(queue), t) ELSE Tail(queue)
  BY DEF MutationFails, database, service
<1>2. pc[t] \in Mutations
  <2>. queue \in Seq(Ops)
    BY DEF TypeInv, TypeOK, StoreOK
  <2>. QED
    BY EmptySeq, LenProperties DEF AtHead, RecordInv, QueueFits
<1>3. /\ s \in {"unwinding", "caught", "prefailing", "rejected", "restoring", "refused"}
      /\ s = "prefailing" <=> pc[t] = "lateRetrying"
      /\ s \in {"caught", "prefailing"} => pc[t] \in ExecSteps \ {"launching"}
      /\ pc[t] = "admitting" => s = "unwinding"
  BY <1>2 DEF AfterError, ExecSteps, ReceiptMutations
<1>4. QueueMoves(t, s)
  BY <1>1, <1>3 DEF QueueMoves, Mutations
<1>5. Writes(t) /\ Drains(t, s) /\ Registers(t, s)
  <2>1. s \notin DrainSteps /\ s \notin {"admitting", "launching"}
    BY <1>3 DEF DrainSteps
  <2>2. pc[t] \notin {"launching", "unwinding"}
    BY <1>2 DEF Mutations
  <2>. QED
    BY <1>1, <1>3, <2>1, <2>2 DEF Writes, Drains, Registers
<1>6. WritesOwn(t, s)
  BY <1>1 DEF WritesOwn, DrainInv, Deleted
<1>7. Executes(t, s)
  <2>. SUFFICES ASSUME t \in Runs, s \in ExecSteps PROVE Executes(t, s)
    BY DEF Executes
  <2>1. s \in {"caught", "prefailing"} /\ s \notin MarkedSteps
    BY <1>3 DEF ExecSteps, ReceiptMutations, MarkedSteps
  <2>2. pc[t] \in ExecSteps \ {"launching"} /\ Held(t)
    BY <1>3, <2>1 DEF DrainInv
  <2>. QED
    BY <1>1, <2>1, <2>2 DEF Held, Executes
<1>. QED
  BY <1>1, <1>4, <1>5, <1>6, <1>7, DrainStep

\* The evaluation of a mutation checks what its commit relies on.
LEMMA DrainEvaluates ==
  ASSUME TypeInv, DrainInv, NEW t \in Ops, StoreEvaluates(t)
  PROVE  DrainInv'
<1>1. /\ UNCHANGED <<agent, run, queue, pc, active, pending>>
      /\ AtHead(t) /\ ~Rejects(t)
  BY DEF StoreEvaluates, steady, database, service
<1>2. agent[AgentOf[t]] \in AgentStatus
  BY AgentOfOps DEF TypeInv, TypeOK, DatabaseOK
<1>3. /\ pc[t] \in {"admitting", "denying"} => agent[AgentOf[t]] \in {"ready", "error"}
      /\ pc[t] = "settingReady" => agent[AgentOf[t]] \notin {"absent", "busy"}
  BY <1>1, <1>2 DEF Rejects, Unavailable, AgentStatus
<1>4. \A u \in Ops : AtHead(u)' => u = t
  BY <1>1 DEF AtHead
<1>. QED
  BY <1>1, <1>3, <1>4
     DEF DrainInv, Queued, InQueue, Checked, Pended, Held, IdleBut, Drained, Idle,
         Behind, Deleted

LEMMA DrainStore ==
  ASSUME TypeInv, RecordInv, DrainInv,
         StoreStep \/ \E t \in Ops : StoreWriteFails(t)
  PROVE  DrainInv'
<1>1. ASSUME NEW r \in Runs, CommitRun(r) PROVE DrainInv'
  BY <1>1, DrainCommitExec, DrainCommitSend
<1>2. ASSUME NEW t \in Stops \cup Deletes \cup Starts \cup Grants \cup Revokes
      PROVE  t \in Ops /\ t \notin Runs
  BY OpsFacts, OperationsDisjoint DEF Cancels
<1>. QED
  BY <1>1, <1>2, DrainCommitOther, DrainFails, DrainEvaluates
     DEF StoreStep, CommitOp, StoreRejects, StoreWriteFails

\* The finally clauses give up the registers of their own request.
LEMMA DrainUnwind ==
  ASSUME TypeInv, RecordInv, DrainInv, NEW t \in Runs \cup Cancels, Unwind(t)
  PROVE  DrainInv'
<1>. t \in Ops
  BY OpsFacts
<1>1. /\ UNCHANGED <<agent, run, writing, queue, active>>
      /\ pc[t] \in {"unwinding", "returning"}
      /\ pending' = IF t \in Runs
                    THEN [pending EXCEPT ![AgentOf[t]] = @ \ {t}] ELSE pending
  BY DEF Unwind, steady, database, store
<1>2. PICK s \in {"refused", "done"} : Goto(t, s)
  BY DEF Unwind
<1>3. /\ s \notin Mutations \cup DrainSteps \cup ExecSteps
      /\ s \notin {"admitting", "launching"} /\ pc[t] \notin Mutations
  BY <1>1, <1>2 DEF Mutations, DrainSteps, ExecSteps, ReceiptMutations
<1>4. /\ QueueMoves(t, s) /\ Writes(t) /\ Drains(t, s) /\ Executes(t, s)
      /\ Registers(t, s)
  BY <1>1, <1>3 DEF QueueMoves, Writes, Drains, Executes, Registers
<1>5. agent[AgentOf[t]] = "absent" => UNCHANGED pending
  BY <1>1, AgentOfOps DEF DrainInv, Deleted, TypeInv, TypeOK, ServiceOK
<1>6. WritesOwn(t, s)
  BY <1>1, <1>5 DEF WritesOwn
<1>. QED
  BY <1>2, <1>4, <1>6, DrainStep

\* A crash ends all executions and empties all registers.
LEMMA DrainRestart ==
  ASSUME TypeInv, RecordInv, OpenInv, DrainInv, Crash \/ Initialize
  PROVE  DrainInv'
<1>1. CASE Crash
  <2>1. /\ \A t \in Ops : pc'[t] \in Resting
        /\ queue' = <<>> /\ ~writing' /\ UNCHANGED <<agent, run>>
        /\ \A a \in Agents : active'[a] = None /\ pending'[a] = {}
    BY <1>1 DEF Crash, database, Resting, Answered
  <2>2. \A s \in Resting : s \notin Mutations \cup DrainSteps \cup ExecSteps
                                        \cup {"admitting", "launching"}
    BY DEF Resting, Answered, Mutations, DrainSteps, ExecSteps, ReceiptMutations
  <2>. QED
    BY <2>1, <2>2, OpsFacts
       DEF DrainInv, Queued, Checked, Pended, Held, Drained, Deleted
<1>2. CASE Initialize
  <2>1. /\ UNCHANGED <<pc, queue, writing, active, pending>>
        /\ \A t \in Ops : pc[t] \in Resting
        /\ \A a \in Agents : agent'[a] = "absent" => agent[a] = "absent"
        /\ \A r \in Runs : run[r] = "none" => run'[r] = "none"
    BY <1>2 DEF Initialize, store, service, control, OpenInv, DownAtRest,
                RestartedAgent, RestartedRun, Running
  <2>2. \A s \in Resting : s \notin Mutations \cup DrainSteps \cup ExecSteps
                                        \cup {"admitting", "denying", "settingReady"}
    BY DEF Resting, Answered, Mutations, DrainSteps, ExecSteps, ReceiptMutations
  <2>3. Queued' /\ Checked' /\ Pended'
    BY <2>1, <2>2 DEF DrainInv, Queued, Checked, Pended
  <2>4. \A r \in Runs : Held(r)'
    BY <2>1, <2>2, OpsFacts DEF Held
  <2>5. \A c \in Cancels : Drained(c)'
    BY <2>1, <2>2, OpsFacts DEF Drained
  <2>6. \A a \in Agents : Deleted(a)'
    BY <2>1 DEF DrainInv, Deleted
  <2>. QED
    BY <2>3, <2>4, <2>5, <2>6 DEF DrainInv
<1>. QED
  BY <1>1, <1>2

-----------------------------------------------------------------------------
(* The invariant of the executions *)

LEMMA DrainInvInductive ==
  TypeInv /\ RecordInv /\ OpenInv /\ DrainInv /\ [Next]_vars => DrainInv'
<1>. SUFFICES ASSUME TypeInv, RecordInv, OpenInv, DrainInv, [Next]_vars
              PROVE  DrainInv'
  OBVIOUS
<1>1. CASE Request
  <2>1. ASSUME NEW t \in Starts \cup Grants \cup Revokes,
               BeginStart(t) \/ BeginGrant(t) \/ BeginRevoke(t)
        PROVE  DrainInv'
    <3>1. t \in Ops /\ t \notin Runs /\ t \notin Cancels
      BY OpsFacts, OperationsDisjoint
    <3>2. UNCHANGED <<agent, run, writing, active, pending>> /\ pc[t] \notin Mutations
      BY <2>1 DEF BeginStart, BeginGrant, BeginRevoke, Begin, Submit, steady,
                  database, store, service, Mutations
    <3>3. PICK s : /\ Goto(t, s)
                   /\ \/ s \notin Mutations /\ queue' = queue
                      \/ s \in Mutations /\ queue' = Append(queue, t)
      BY <2>1 DEF BeginStart, BeginGrant, BeginRevoke, Submit, store, Mutations
    <3>4. QueueMoves(t, s) /\ Drains(t, s)
      BY <3>1, <3>2, <3>3 DEF QueueMoves, Drains
    <3>. QED
      BY <3>1, <3>2, <3>3, <3>4, DrainMove
  <2>. QED
    BY <1>1, <2>1, DrainAdmit, DrainCancel, OpsFacts DEF Request
<1>2. CASE \E r \in Runs : Admit(r) \/ Execute(r)
  BY <1>2, DrainAdmit, DrainExecute
<1>3. CASE \/ \E t \in Cancels : Cancel(t)
           \/ \E d \in Deletes : DeleteFiles(d)
  BY <1>3, DrainCancel, OpsFacts
<1>4. CASE StoreStep \/ \E t \in Ops : StoreWriteFails(t)
  BY <1>4, DrainStore
<1>5. CASE \E t \in Runs \cup Cancels : Unwind(t)
  BY <1>5, DrainUnwind
<1>6. CASE Crash \/ Initialize
  BY <1>6, DrainRestart
<1>7. CASE UNCHANGED vars
  BY <1>7 DEF vars, database, store, service, control, DrainInv, Queued, InQueue,
              Checked, AtHead, Pended, Held, IdleBut, Drained, Idle, Behind, Deleted
<1>. QED
  BY <1>1, <1>2, <1>3, <1>4, <1>5, <1>6, <1>7 DEF Next, Rest

\* At the start nothing is queued, registered or executing.
LEMMA InitDrainInv == Init => DrainInv
<1>. SUFFICES ASSUME Init PROVE DrainInv
  OBVIOUS
<1>1. \A t \in Ops : pc[t] = "idle"
  BY DEF Init
<1>2. "idle" \notin Mutations \cup DrainSteps \cup ExecSteps
  BY DEF Mutations, DrainSteps, ExecSteps, ReceiptMutations
<1>3. Queued /\ (\A r \in Runs : Held(r)) /\ (\A c \in Cancels : Drained(c))
  BY <1>1, <1>2, OpsFacts DEF Queued, Held, Drained
<1>4. Checked /\ Pended
  BY <1>1, OpsFacts DEF Init, Checked, Pended
<1>5. \A a \in Agents : Deleted(a)
  BY DEF Init, Deleted
<1>. QED
  BY <1>3, <1>4, <1>5 DEF DrainInv

\* Every execution has its busy Agent, its Run record and its registration, and
\* has them alone, in every reachable state: through stops, deletes, failed
\* writes and crashes in any order.
THEOREM DrainInvCorrect == Spec => []DrainInv
  BY InitDrainInv, DrainInvInductive, TypeInvCorrect, RecordInvCorrect,
     OpenInvCorrect, PTL DEF Spec

-----------------------------------------------------------------------------
(* The Codex processes *)

\* Every live Codex process belongs to an execution that awaits it.
Manned ==
  \A a \in Agents :
    runner[a] # None => /\ runner[a] \in Runs /\ AgentOf[runner[a]] = a
                        /\ pc[runner[a]] = "inRunner"

\* A step of anybody who awaits no process.
LEMMA MannedMove ==
  ASSUME TypeInv, Manned, NEW t \in Ops, NEW s, Goto(t, s), pc[t] # "inRunner",
         UNCHANGED runner
  PROVE  Manned'
<1>1. \A u \in Ops : u # t => pc'[u] = pc[u]
  BY DEF Goto, TypeInv, TypeOK, StepsOK
<1>. QED
  BY <1>1, OpsFacts DEF Manned

LEMMA MannedExecute ==
  ASSUME TypeInv, Manned, NEW r \in Runs, Execute(r)
  PROVE  Manned'
<1>. r \in Ops /\ AgentOf[r] \in Agents
  BY OpsFacts, AgentOfOps
<1>. runner \in [Agents -> Runs \cup {None}] /\ pc \in [Ops -> Steps] /\ Runs \subseteq Ops
  BY OpsFacts DEF TypeInv, TypeOK, ProcessOK, StepsOK
<1>1. CASE Handoff(r)
  <2>1. CASE runner' = [runner EXCEPT ![AgentOf[r]] = r] /\ Goto(r, "inRunner")
    <3>1. pc[r] = "deriving"
      BY <1>1 DEF Handoff
    <3>2. pc'[r] = "inRunner" /\ \A u \in Runs : u # r => pc'[u] = pc[u]
      BY <2>1 DEF Goto
    <3>. QED
      BY <2>1, <3>1, <3>2 DEF Manned
  <2>2. CASE Throw(r, "failed") /\ UNCHANGED runner
    BY <1>1, <2>2, MannedMove DEF Handoff, Throw
  <2>. QED
    BY <1>1, <2>1, <2>2 DEF Handoff
<1>2. CASE RunnerExits(r)
  <2>1. /\ runner' = [runner EXCEPT ![AgentOf[r]] = None]
        /\ \E s : Goto(r, s)
    BY <1>2 DEF RunnerExits, Throw, Submit
  <2>2. \A u \in Runs : u # r => pc'[u] = pc[u]
    BY <2>1 DEF Goto
  <2>. QED
    BY <2>1, <2>2 DEF Manned
<1>3. CASE Execute(r) /\ ~Handoff(r) /\ ~RunnerExits(r)
  <2>1. pc[r] # "inRunner" /\ UNCHANGED runner /\ \E s : Goto(r, s)
    BY <1>3 DEF Execute, CancelAfterMark, PrepareHome, PrepareHomeAborted, HomePrepared,
                RecheckAfterEvidence, DeriveAborted, WithdrawBeforeHandoff, Catch,
                Finish, Throw, Submit, process
  <2>. QED
    BY <2>1, MannedMove
<1>. QED
  BY <1>1, <1>2, <1>3

LEMMA MannedCancel ==
  ASSUME TypeInv, Manned, NEW t \in Cancels,
         \/ Cancel(t)
         \/ t \in Stops /\ BeginStop(t)
         \/ t \in Deletes /\ (BeginDelete(t) \/ DeleteFiles(t))
  PROVE  Manned'
<1>1. pc[t] # "inRunner" /\ UNCHANGED runner
  BY DEF Cancel, RunnerCancelled, Drain, AdmissionsReleased, ExecutionSettled,
         BeginStop, BeginDelete, Begin, DeleteFiles, DeleteUnderLock, Archive,
         Restore, process
<1>2. \E s : Goto(t, s)
  BY DEF Cancel, RunnerCancelled, Drain, AdmissionsReleased, ExecutionSettled,
         ReadExecution, Proceed, BeginStop, BeginDelete, DeleteFiles,
         DeleteUnderLock, RequestCancel, Archive, Restore, Submit, JoinLock
<1>. QED
  BY <1>1, <1>2, MannedMove, OpsFacts

LEMMA MannedStore ==
  ASSUME TypeInv, RecordInv, Manned, StoreStep \/ \E t \in Ops : StoreWriteFails(t)
  PROVE  Manned'
<1>1. ASSUME NEW t \in Ops, NEW m \in Mutations, NEW s, Publish(t, m, s) PROVE Manned'
  <2>1. Goto(t, s) /\ pc[t] # "inRunner" /\ UNCHANGED runner
    BY <1>1 DEF Publish, Mutations, process
  <2>. QED
    BY <2>1, MannedMove
<1>2. CASE CommitOp
  <2>1. PICK t \in Ops : \E m \in Mutations : \E s : Publish(t, m, s)
    BY <1>2, OpsFacts
       DEF CommitOp, CommitRun, CommitDenial, CommitAdmission, CommitMark, CommitEvidence,
           CommitRetraction, CommitLateDenial, CommitPreRunnerFailure, CommitFailure,
           CommitCompletion, CommitStopped, CommitRemoval, CommitReady, CommitGrant,
           CommitRevoke, Mutations
  <2>. QED
    BY <1>1, <2>1
<1>3. ASSUME NEW t \in Ops, AtHead(t), MutationFails(t) PROVE Manned'
  <2>1. pc[t] \in Mutations
    <3>. queue \in Seq(Ops)
      BY DEF TypeInv, TypeOK, StoreOK
    <3>. QED
      BY <1>3, EmptySeq, LenProperties DEF AtHead, RecordInv, QueueFits
  <2>2. Goto(t, AfterError(t)) /\ UNCHANGED runner
    BY <1>3 DEF MutationFails, process
  <2>3. pc[t] # "inRunner"
    BY <2>1 DEF Mutations
  <2>. QED
    BY <2>2, <2>3, MannedMove
<1>4. ASSUME NEW t \in Ops, StoreEvaluates(t) PROVE Manned'
  BY <1>4 DEF StoreEvaluates, process, Manned
<1>. QED
  BY <1>2, <1>3, <1>4 DEF StoreStep, StoreRejects, StoreWriteFails

LEMMA MannedInductive == TypeInv /\ RecordInv /\ Manned /\ [Next]_vars => Manned'
<1>. SUFFICES ASSUME TypeInv, RecordInv, Manned, [Next]_vars PROVE Manned'
  OBVIOUS
<1>1. ASSUME NEW t \in Ops,
             \/ SendRefused(t) \/ SendBaseline(t) \/ SendCapsule(t) \/ Admit(t)
             \/ BeginStart(t) \/ BeginGrant(t) \/ BeginRevoke(t) \/ Unwind(t)
      PROVE  Manned'
  <2>1. pc[t] # "inRunner" /\ UNCHANGED runner
    BY <1>1 DEF SendRefused, SendBaseline, SendCapsule, Begin, Admit, BeginValidation,
                PlanRefused, PlanCompiled, LateNotFound, RequestAdmission,
                RequestDenial, Launch, BeginStart, BeginGrant, BeginRevoke, Unwind,
                process
  <2>2. \E s : Goto(t, s)
    BY <1>1 DEF SendRefused, SendBaseline, SendCapsule, Admit, BeginValidation,
                PlanRefused, PlanCompiled, LateNotFound, RequestAdmission,
                RequestDenial, Launch, BeginStart, BeginGrant, BeginRevoke, Unwind,
                JoinLock, Submit
  <2>. QED
    BY <2>1, <2>2, MannedMove
<1>2. CASE Request
  BY <1>1, <1>2, MannedCancel, OpsFacts DEF Request
<1>3. CASE \/ \E r \in Runs : Admit(r) \/ Execute(r)
           \/ \E t \in Cancels : Cancel(t)
           \/ \E d \in Deletes : DeleteFiles(d)
           \/ \E t \in Runs \cup Cancels : Unwind(t)
  BY <1>1, <1>3, MannedExecute, MannedCancel, OpsFacts
<1>4. CASE StoreStep \/ \E t \in Ops : StoreWriteFails(t)
  BY <1>4, MannedStore
<1>5. CASE Crash
  BY <1>5 DEF Crash, Manned
<1>6. CASE Initialize \/ UNCHANGED vars
  BY <1>6 DEF Initialize, vars, process, control, Manned
<1>. QED
  BY <1>2, <1>3, <1>4, <1>5, <1>6 DEF Next, Rest

\* Every live Codex process belongs to an execution of its Agent that awaits it.
THEOREM MannedCorrect == Spec => []Manned
<1>1. Init => Manned
  BY DEF Init, Manned
<1>. QED
  BY <1>1, MannedInductive, TypeInvCorrect, RecordInvCorrect, PTL DEF Spec

\* A deleted Agent leaves nothing behind, whatever was under way when the
\* delete arrived and however writes failed: no Run, no Receipt, no pending
\* admission, no execution and no Codex process.
THEOREM DeleteLeavesNothing == Spec => []NothingOfDeletedAgent
<1>1. TypeInv /\ RecordInv /\ DrainInv /\ Manned => NothingOfDeletedAgent
  <2>. SUFFICES ASSUME TypeInv, RecordInv, DrainInv, Manned,
                       NEW a \in Agents, agent[a] = "absent"
                PROVE  /\ active[a] = None /\ pending[a] = {} /\ runner[a] = None
                       /\ \A r \in RunsOf(a) : run[r] = "none" /\ receipt[r] = NoReceipt
    BY DEF NothingOfDeletedAgent
  <2>1. /\ active[a] = None /\ pending[a] = {}
        /\ \A r \in RunsOf(a) : run[r] = "none"
    BY DEF DrainInv, Deleted, RunsOf
  <2>2. \A r \in RunsOf(a) : receipt[r] = NoReceipt
    BY <2>1 DEF RecordInv, Agree, RunsOf
  <2>3. runner[a] = None
    <3>. SUFFICES ASSUME runner[a] # None PROVE FALSE
      OBVIOUS
    <3>1. /\ runner[a] \in Runs /\ AgentOf[runner[a]] = a
          /\ pc[runner[a]] \in ExecSteps
      BY DEF Manned, ExecSteps
    <3>. QED
      BY <3>1 DEF DrainInv, Held
  <2>. QED
    BY <2>1, <2>2, <2>3
<1>. QED
  BY <1>1, TypeInvCorrect, RecordInvCorrect, DrainInvCorrect, MannedCorrect, PTL

-----------------------------------------------------------------------------
(* One Run per Agent *)

\* Only a crash counts as one, only a failed write counts as a fault, and only
\* crashes and restarts take the server down and up.
LEMMA OnlyCounted ==
  ASSUME [Next]_vars
  PROVE  /\ ~Crash /\ ~Initialize => UNCHANGED <<up, crashes>>
         /\ (\A t \in Ops : ~StoreWriteFails(t)) => UNCHANGED faults
<1>. USE DEF steady, environment
<1>1. CASE Request
  BY <1>1 DEF Request, SendRefused, SendBaseline, SendCapsule, BeginStop, BeginDelete,
              BeginStart, BeginGrant, BeginRevoke
<1>2. CASE \E r \in Runs : Admit(r)
  BY <1>2 DEF Admit, BeginValidation, PlanRefused, PlanCompiled, LateNotFound,
              RequestAdmission, RequestDenial, Launch
<1>3. CASE \E r \in Runs : Execute(r)
  BY <1>3 DEF Execute, CancelAfterMark, PrepareHome, PrepareHomeAborted, HomePrepared,
              RecheckAfterEvidence, DeriveAborted, WithdrawBeforeHandoff, Handoff,
              RunnerExits, Catch, Finish
<1>4. CASE \/ \E t \in Cancels : Cancel(t)
           \/ \E d \in Deletes : DeleteFiles(d)
  BY <1>4 DEF Cancel, RunnerCancelled, Drain, AdmissionsReleased, ExecutionSettled,
              DeleteFiles, DeleteUnderLock, Archive, Restore
<1>5. CASE \/ \E t \in Runs \cup Cancels : Unwind(t)
           \/ \E t \in Ops : StoreRejects(t) \/ StoreEvaluates(t) \/ StoreWriteFails(t)
           \/ Crash \/ Initialize
           \/ UNCHANGED vars
  BY <1>5 DEF Unwind, StoreRejects, StoreEvaluates, StoreWriteFails, MutationFails,
              Crash, Initialize, vars
<1>6. CASE CommitOp
  BY <1>6 DEF CommitOp, CommitRun, CommitDenial, CommitAdmission, CommitMark,
              CommitEvidence, CommitRetraction, CommitLateDenial, CommitPreRunnerFailure,
              CommitFailure, CommitCompletion, CommitStopped, CommitRemoval, CommitReady,
              CommitGrant, CommitRevoke, Publish
<1>. QED
  BY <1>1, <1>2, <1>3, <1>4, <1>5, <1>6 DEF Next, Rest, StoreStep

\* What is busy, and why: while the file can be written, a Run that has not
\* ended has an execution, unless the process died.
LiveInv ==
  faults = 0 =>
    /\ OneRunPerAgent
    /\ up => \A r \in Runs : run[r] \in Running => pc[r] \in ExecSteps

\* A step that writes neither Agents nor Runs, and leaves no execution.
LEMMA LiveMove ==
  ASSUME TypeInv, LiveInv, NEW t \in Ops, NEW s, Goto(t, s), faults = 0,
         UNCHANGED <<agent, run, up>>,
         t \in Runs /\ pc[t] \in ExecSteps => s \in ExecSteps
  PROVE  LiveInv'
<1>1. pc'[t] = s /\ \A u \in Ops : u # t => pc'[u] = pc[u]
  BY DEF Goto, TypeInv, TypeOK, StepsOK
<1>2. OneRunPerAgent'
  BY DEF LiveInv, OneRunPerAgent, RunsOf
<1>3. up => \A r \in Runs : run[r] \in Running => pc'[r] \in ExecSteps
  BY <1>1, OpsFacts DEF LiveInv
<1>. QED
  BY <1>2, <1>3 DEF LiveInv

\* A commit that leaves the Agent it concerns busy with one Run, or not busy and
\* with none.
LEMMA LiveCommit ==
  ASSUME TypeInv, LiveInv, NEW t \in Ops, NEW m, NEW s, Publish(t, m, s),
         faults = 0, up,
         \A b \in Agents : b # AgentOf[t] => agent'[b] = agent[b],
         \A u \in Runs : AgentOf[u] # AgentOf[t] => run'[u] = run[u],
         \A u \in Runs : u # t => run'[u] \in {run[u], "none"},
         t \in Runs /\ run'[t] \in Running => s \in ExecSteps,
         \/ /\ agent'[AgentOf[t]] # "busy"
            /\ \A u \in Runs : AgentOf[u] = AgentOf[t] => run'[u] \notin Running
         \/ /\ agent'[AgentOf[t]] = "busy" /\ t \in Runs /\ run'[t] \in Running
            /\ \A u \in Runs : u # t /\ AgentOf[u] = AgentOf[t] => run'[u] \notin Running
  PROVE  LiveInv'
<1>1. pc'[t] = s /\ \A u \in Ops : u # t => pc'[u] = pc[u]
  BY DEF Publish, Goto, TypeInv, TypeOK, StepsOK
<1>2. UNCHANGED <<up, faults>> /\ "none" \notin Running
  BY DEF Publish, environment, Running
<1>3. \A r \in Runs : run'[r] \in Running => pc'[r] \in ExecSteps
  BY <1>1, <1>2, OpsFacts DEF LiveInv
<1>4. ASSUME NEW a \in Agents
      PROVE  LET live == {r \in RunsOf(a) : run'[r] \in Running} IN
             /\ \A r, u \in live : r = u
             /\ (agent'[a] = "busy") <=> (live # {})
  <2>1. CASE a = AgentOf[t]
    BY <2>1 DEF RunsOf
  <2>2. CASE a # AgentOf[t]
    <3>1. {r \in RunsOf(a) : run'[r] \in Running} = {r \in RunsOf(a) : run[r] \in Running}
      BY <2>2 DEF RunsOf
    <3>. QED
      BY <2>2, <3>1 DEF LiveInv, OneRunPerAgent
  <2>. QED
    BY <2>1, <2>2
<1>. QED
  BY <1>2, <1>3, <1>4 DEF LiveInv, OneRunPerAgent, RunsOf

\* An idle Agent has no Run that has not ended, and a busy one has one.
LEMMA LiveRuns ==
  ASSUME LiveInv, DrainInv, OpenInv, faults = 0, up, NEW a \in Agents
  PROVE  /\ Idle(a) => \A u \in Runs : AgentOf[u] = a => run[u] \notin Running
         /\ agent[a] # "busy" => \A u \in Runs : AgentOf[u] = a => run[u] \notin Running
         /\ \A r \in Runs : AgentOf[r] = a /\ pc[r] \in ExecSteps =>
              \A u \in Runs : u # r /\ AgentOf[u] = a => run[u] \notin Running
  BY DEF LiveInv, OneRunPerAgent, RunsOf, Idle, DrainInv, Held, IdleBut

\* Every commit.
LEMMA LiveStore ==
  ASSUME TypeInv, RecordInv, OpenInv, DrainInv, LiveInv, faults = 0, CommitOp
  PROVE  LiveInv'
<1>. /\ run \in [Runs -> Running \cup Terminal \cup {"none"}]
     /\ agent \in [Agents -> AgentStatus] /\ Runs \subseteq Ops
  BY OpsFacts DEF TypeInv, TypeOK, DatabaseOK
<1>0. ASSUME NEW t \in Ops, NEW m \in Mutations, NEW s, Publish(t, m, s) PROVE up
  <2>1. pc[t] \notin Resting
    BY <1>0 DEF Publish, Mutations, Resting, Answered
  <2>. QED
    BY <2>1 DEF OpenInv, DownAtRest
<1>1. ASSUME NEW r \in Runs, CommitRun(r) PROVE LiveInv'
  <2>. DEFINE a == AgentOf[r]
  <2>1. PICK m \in Mutations : \E s : Publish(r, m, s)
    BY <1>1 DEF CommitRun, CommitDenial, CommitAdmission, CommitMark, CommitEvidence,
                CommitRetraction, CommitLateDenial, CommitPreRunnerFailure,
                CommitFailure, CommitCompletion, Mutations
  <2>2. up /\ a \in Agents /\ r \in Ops
    BY <1>0, <2>1, AgentOfOps
  <2>3. \A u \in Runs : u # r => run'[u] = run[u]
    BY <1>1, CommitsOwn
  <2>4. run[r] \notin Terminal
    BY <1>1, CommitsUnended
  <2>5. CASE CommitDenial(r)
    <3>1. /\ Publish(r, "denying", "returning") /\ UNCHANGED agent
          /\ run'[r] = "denied" /\ writing /\ AtHead(r) /\ pc[r] = "denying"
      BY <2>5 DEF CommitDenial, Publish, SetRun
    <3>2. agent[a] # "busy"
      BY <3>1 DEF DrainInv, Checked
    <3>3. \A u \in Runs : AgentOf[u] = a => run'[u] \notin Running
      BY <2>2, <2>3, <3>1, <3>2, LiveRuns DEF Running
    <3>. QED
      BY <2>2, <2>3, <3>1, <3>2, <3>3, LiveCommit
  <2>6. CASE CommitAdmission(r)
    <3>1. /\ Publish(r, "admitting", "launching") /\ run'[r] = "queued"
          /\ agent'[a] = "busy" /\ (\A b \in Agents : b # a => agent'[b] = agent[b])
          /\ writing /\ AtHead(r) /\ pc[r] = "admitting"
      BY <2>2, <2>6 DEF CommitAdmission, Publish, SetRun, SetAgent
    <3>2. agent[a] # "busy"
      BY <3>1 DEF DrainInv, Checked
    <3>3. \A u \in Runs : u # r /\ AgentOf[u] = a => run'[u] \notin Running
      BY <2>2, <2>3, <3>2, LiveRuns
    <3>4. "launching" \in ExecSteps /\ run'[r] \in Running
      BY <3>1 DEF ExecSteps, Running
    <3>. QED
      BY <2>2, <2>3, <3>1, <3>3, <3>4, LiveCommit
  <2>7. CASE CommitMark(r) \/ CommitEvidence(r) \/ CommitRetraction(r)
    <3>1. PICK s \in {"marked", "caught", "evidenced"} : Publish(r, m, s)
      BY <2>1, <2>7 DEF CommitMark, CommitEvidence, CommitRetraction, Publish
    <3>2. /\ pc[r] \in ExecSteps /\ s \in ExecSteps /\ UNCHANGED agent
          /\ run'[r] \in {run[r], "running"}
      BY <2>7, <3>1 DEF CommitMark, CommitEvidence, CommitRetraction, Publish, SetRun,
                        ExecSteps, ReceiptMutations
    <3>3. agent[a] = "busy" /\ run[r] # "none"
      BY <3>2 DEF DrainInv, Held
    <3>4. run'[r] \in Running
      BY <2>4, <3>2, <3>3 DEF Running
    <3>5. \A u \in Runs : u # r /\ AgentOf[u] = a => run'[u] \notin Running
      BY <2>2, <2>3, <3>2, LiveRuns
    <3>. QED
      BY <2>2, <2>3, <3>1, <3>2, <3>3, <3>4, <3>5, LiveCommit
  <2>8. CASE \/ CommitLateDenial(r) \/ CommitPreRunnerFailure(r) \/ CommitFailure(r)
             \/ CommitCompletion(r)
    <3>1. /\ Publish(r, m, "resolved") /\ pc[r] \in ExecSteps
          /\ pc[r] \in {"lateDenying", "lateRetrying", "prefailing", "failing", "completing"}
      BY <2>1, <2>8 DEF CommitLateDenial, AfterLateDenial, CommitPreRunnerFailure,
                        CommitFailure, CommitCompletion, Publish, ExecSteps,
                        ReceiptMutations
    <3>2. agent[a] = "busy" /\ run[r] # "none"
      BY <3>1 DEF DrainInv, Held
    <3>3. pc[r] \in {"prefailing", "failing"} => verdict[r] \in Outcomes
      BY DEF TypeInv, VerdictFits, Fits
    <3>4. run'[r] \in Terminal /\ agent'[a] \in {"ready", "error"}
          /\ \A b \in Agents : b # a => agent'[b] = agent[b]
      BY <2>2, <2>8, <3>2, <3>3
         DEF CommitLateDenial, CommitPreRunnerFailure, CommitFailure, CommitCompletion,
             Publish, Recorded, EndRun, SetRun, SetAgent, Terminal, Outcomes
    <3>5. \A u \in Runs : AgentOf[u] = a => run'[u] \notin Running
      BY <2>2, <2>3, <3>1, <3>4, LiveRuns DEF Terminal, Running
    <3>. QED
      BY <2>2, <2>3, <3>1, <3>4, <3>5, LiveCommit DEF Terminal, Running
  <2>. QED
    BY <1>1, <2>5, <2>6, <2>7, <2>8 DEF CommitRun
<1>2. ASSUME NEW t \in Stops, CommitStopped(t) PROVE LiveInv'
  <2>1. /\ t \in Ops /\ t \in Cancels /\ t \notin Runs /\ AgentOf[t] \in Agents
        /\ Publish(t, "settingStopped", "returning") /\ pc[t] = "settingStopped"
        /\ "settingStopped" \in Mutations /\ UNCHANGED run
        /\ agent' = [agent EXCEPT ![AgentOf[t]] = "stopped"]
    BY <1>2, OpsFacts, AgentOfOps, OperationsDisjoint
       DEF CommitStopped, Publish, SetAgent, Mutations
  <2>2. Idle(AgentOf[t]) /\ up
    BY <1>0, <2>1 DEF DrainInv, Drained, DrainSteps
  <2>. QED
    BY <2>1, <2>2, LiveRuns, LiveCommit
<1>3. ASSUME NEW t \in Deletes, CommitRemoval(t) PROVE LiveInv'
  <2>1. /\ t \in Ops /\ t \notin Runs /\ AgentOf[t] \in Agents
        /\ Publish(t, "removing", "returning") /\ "removing" \in Mutations
        /\ agent' = [agent EXCEPT ![AgentOf[t]] = "absent"]
        /\ \A u \in Runs : run'[u] = IF AgentOf[u] = AgentOf[t] THEN "none" ELSE run[u]
    BY <1>3, OpsFacts, AgentOfOps, OperationsDisjoint
       DEF CommitRemoval, SetAgent, Mutations
  <2>2. up /\ "none" \notin Running
    BY <1>0, <2>1 DEF Running
  <2>. QED
    BY <2>1, <2>2, LiveCommit
<1>4. ASSUME NEW t \in Starts, CommitReady(t) PROVE LiveInv'
  <2>1. /\ t \in Ops /\ t \notin Runs /\ AgentOf[t] \in Agents
        /\ Publish(t, "settingReady", "done") /\ "settingReady" \in Mutations
        /\ UNCHANGED run /\ writing /\ AtHead(t) /\ pc[t] = "settingReady"
        /\ agent' = [agent EXCEPT ![AgentOf[t]] = "ready"]
    BY <1>4, OpsFacts, AgentOfOps, OperationsDisjoint
       DEF CommitReady, Publish, SetAgent, Mutations
  <2>2. agent[AgentOf[t]] # "busy" /\ up
    BY <1>0, <2>1 DEF DrainInv, Checked
  <2>. QED
    BY <2>1, <2>2, LiveRuns, LiveCommit
<1>5. ASSUME NEW t \in Grants \cup Revokes, CommitGrant(t) \/ CommitRevoke(t) PROVE LiveInv'
  <2>1. /\ t \in Ops /\ t \notin Runs /\ UNCHANGED <<agent, run, up>>
        /\ \E s : Goto(t, s)
    BY <1>5, OpsFacts, OperationsDisjoint
       DEF CommitGrant, CommitRevoke, Publish, environment
  <2>. QED
    BY <2>1, LiveMove
<1>. QED
  BY <1>1, <1>2, <1>3, <1>4, <1>5 DEF CommitOp

\* An execution is left only by its terminal commit, or by a failed write.
LEMMA LiveOther ==
  ASSUME TypeInv, StaleInv, RecordInv, DrainInv, LiveInv, faults = 0,
         NEW t \in Ops,
         \/ /\ t \in Runs
            /\ \/ SendRefused(t) \/ SendBaseline(t) \/ SendCapsule(t)
               \/ Admit(t) \/ Execute(t)
         \/ t \in Stops /\ BeginStop(t)
         \/ t \in Deletes /\ (BeginDelete(t) \/ DeleteFiles(t))
         \/ t \in Cancels /\ Cancel(t)
         \/ t \in Starts \cup Grants \cup Revokes
            /\ (BeginStart(t) \/ BeginGrant(t) \/ BeginRevoke(t))
         \/ t \in Runs \cup Cancels /\ Unwind(t)
         \/ StoreRejects(t)
  PROVE  LiveInv'
<1>. USE DEF steady, database, environment
<1>1. CASE /\ t \in Runs
           /\ \/ SendRefused(t) \/ SendBaseline(t) \/ SendCapsule(t) \/ Unwind(t)
              \/ Finish(t)
              \/ Admit(t) /\ ~Launch(t)
  <2>1. /\ UNCHANGED <<agent, run, up>> /\ \E s : Goto(t, s)
        /\ pc[t] \in PreSteps \cup {"unwinding", "returning", "resolved", "rejected"}
    BY <1>1 DEF SendRefused, SendBaseline, SendCapsule, Begin, Admit, BeginValidation,
                PlanRefused, PlanCompiled, LateNotFound, RequestAdmission,
                RequestDenial, JoinLock, Submit, Unwind, Finish, PreSteps
  <2>2. pc[t] \notin ExecSteps
    BY <2>1 DEF PreSteps, ExecSteps, ReceiptMutations
  <2>. QED
    BY <2>1, <2>2, LiveMove
<1>2. CASE t \in Runs /\ (Launch(t) \/ (Execute(t) /\ ~Finish(t)))
  <2>1. UNCHANGED <<agent, run, up>>
    BY <1>2 DEF Launch, Execute, CancelAfterMark, PrepareHome, PrepareHomeAborted,
                HomePrepared, RecheckAfterEvidence, DeriveAborted,
                WithdrawBeforeHandoff, Handoff, RunnerExits, Catch
  <2>2. PICK s : Goto(t, s) /\ s \in ExecSteps
    <3>1. CASE \/ Launch(t) \/ CancelAfterMark(t) \/ PrepareHome(t) \/ PrepareHomeAborted(t)
               \/ DeriveAborted(t) \/ Handoff(t) \/ RunnerExits(t)
      BY <3>1 DEF Launch, CancelAfterMark, PrepareHome, PrepareHomeAborted,
                  DeriveAborted, Handoff, RunnerExits, Throw, Submit, ExecSteps
    <3>2. CASE \/ HomePrepared(t) \/ RecheckAfterEvidence(t) \/ WithdrawBeforeHandoff(t)
               \/ Catch(t)
      BY <3>2 DEF HomePrepared, RecheckAfterEvidence, WithdrawBeforeHandoff, Catch,
                  Submit, ExecSteps, ReceiptMutations
    <3>. QED
      BY <1>2, <3>1, <3>2 DEF Execute
  <2>. QED
    BY <2>1, <2>2, LiveMove
<1>3. CASE t \notin Runs /\ ~StoreRejects(t)
  <2>1. UNCHANGED <<agent, run, up>> /\ \E s : Goto(t, s)
    BY <1>3 DEF BeginStop, BeginDelete, DeleteFiles, DeleteUnderLock, RequestCancel,
                Archive, Restore, Cancel, RunnerCancelled, Drain, AdmissionsReleased,
                ExecutionSettled, ReadExecution, Proceed, BeginStart, BeginGrant,
                BeginRevoke, Unwind, JoinLock, Submit
  <2>. QED
    BY <1>3, <2>1, LiveMove
<1>4. CASE StoreRejects(t)
  <2>1. /\ UNCHANGED <<agent, run, up>> /\ Goto(t, AfterError(t)) /\ Rejects(t)
    BY <1>4 DEF StoreRejects, MutationFails
  <2>2. ASSUME t \in Runs, pc[t] \in ExecSteps PROVE AfterError(t) \in ExecSteps
    <3>1. pc[t] \in ReceiptMutations /\ receipt[t] = NoReceipt
      BY <2>1, <2>2 DEF Rejects, ExecSteps, ReceiptMutations
    <3>2. pc[t] # "prefailing"
      BY <2>2, <3>1
         DEF StaleInv, Known, CapsuleSteps, RecordInv, Agree, DrainInv, Held
    <3>. QED
      BY <3>1, <3>2 DEF AfterError, ExecSteps, ReceiptMutations
  <2>. QED
    BY <2>1, <2>2, LiveMove
<1>. QED
  BY <1>1, <1>2, <1>3, <1>4, OperationsDisjoint, OpsFacts

LEMMA LiveInductive ==
  TypeInv /\ StaleInv /\ RecordInv /\ OpenInv /\ DrainInv /\ LiveInv /\ [Next]_vars
    => LiveInv'
<1>. SUFFICES ASSUME TypeInv, StaleInv, RecordInv, OpenInv, DrainInv, LiveInv,
                     [Next]_vars, faults' = 0
              PROVE  LiveInv'
  BY DEF LiveInv
<1>1. \A t \in Ops : ~StoreWriteFails(t)
  <2>. faults \in Nat
    BY DEF TypeInv, TypeOK, EnvironmentOK
  <2>. QED
    BY DEF StoreWriteFails
<1>2. faults = 0
  BY <1>1, OnlyCounted
<1>3. CASE CommitOp
  BY <1>2, <1>3, LiveStore
<1>4. ASSUME NEW t \in Ops, StoreEvaluates(t) PROVE LiveInv'
  BY <1>4 DEF StoreEvaluates, steady, database, environment, LiveInv, OneRunPerAgent,
              RunsOf
<1>5. CASE Crash
  <2>1. UNCHANGED <<agent, run>> /\ ~up'
    BY <1>5 DEF Crash, database
  <2>. QED
    BY <1>2, <2>1 DEF LiveInv, OneRunPerAgent, RunsOf
<1>6. CASE Initialize
  <2>1. /\ \A r \in Runs : run'[r] \notin Running
        /\ \A a \in Agents : agent'[a] # "busy"
    BY <1>6 DEF Initialize, RestartedRun, RestartedAgent, Running
  <2>. QED
    BY <2>1 DEF LiveInv, OneRunPerAgent, RunsOf
<1>7. CASE UNCHANGED vars
  BY <1>7 DEF vars, database, control, environment, LiveInv, OneRunPerAgent, RunsOf
<1>8. CASE Request
  BY <1>2, <1>8, LiveOther, OpsFacts DEF Request
<1>9. CASE \/ \E r \in Runs : Admit(r) \/ Execute(r)
           \/ \E t \in Cancels : Cancel(t)
           \/ \E d \in Deletes : DeleteFiles(d)
           \/ \E t \in Runs \cup Cancels : Unwind(t)
           \/ \E t \in Ops : StoreRejects(t)
  BY <1>2, <1>9, LiveOther, OpsFacts
<1>. QED
  BY <1>1, <1>3, <1>4, <1>5, <1>6, <1>7, <1>8, <1>9 DEF Next, Rest, StoreStep

\* The invariant in every reachable state: while no write has failed, what is on
\* record as queued or running is executing.
THEOREM LiveInvCorrect == Spec => []LiveInv
<1>1. Init => LiveInv
  BY DEF Init, LiveInv, OneRunPerAgent, RunsOf, Running
<1>. QED
  BY <1>1, LiveInductive, TypeInvCorrect, StaleInvCorrect, RecordInvCorrect,
     OpenInvCorrect, DrainInvCorrect, PTL DEF Spec

\* As long as every write of the database succeeds, an Agent is busy exactly
\* while one Run of its own has not ended, and never while two have not: across
\* stops, deletes, starts, late denials, crashes and restarts in any order.
THEOREM BusyMeansOneRun == Spec => [](faults = 0 => OneRunPerAgent)
<1>1. LiveInv => (faults = 0 => OneRunPerAgent)
  BY DEF LiveInv
<1>. QED
  BY <1>1, LiveInvCorrect, PTL
=============================================================================
