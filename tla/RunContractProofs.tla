-------------------------- MODULE RunContractProofs --------------------------
(***************************************************************************)
(* The server keeps RunContract, for every instance: a Capsule Run says in *)
(* its Receipt that it started before the Runner is called, and never      *)
(* takes it back afterwards, through failed writes, cancellations, deletes *)
(* and crashes in any order.                                               *)
(*                                                                         *)
(* Who was handed over can be read off the step of its execution: the      *)
(* handoff is the only way from the steps that may still rewrite the       *)
(* Receipt to the ones that may not, and runnerAttempted keeps the catch   *)
(* clause from going back (Handed).                                        *)
(*                                                                         *)
(* The last part is about the stops and deletes: a Run is not handed over  *)
(* while one is under way, and nothing runs once it has drained the Agent. *)
(***************************************************************************)
EXTENDS RunDrainProofs

\* Where an execution may be once the Runner was called.
AfterHandoff ==
  {"inRunner", "completing", "caught", "failing", "resolved", "rejected"}
    \cup Answered

\* What an execution has announced and whether it was handed over.
Handed(r) ==
  /\ r \in attempted => pc[r] \in AfterHandoff
  /\ pc[r] \in {"inRunner", "completing"} => r \in attempted
  /\ Capsule(r) /\ pc[r] = "failing" => r \in attempted
  /\ Capsule(r) /\ r \in attempted /\ run[r] # "none" =>
       receipt[r].decision = "allow" /\ receipt[r].started
  /\ Capsule(r) /\ pc[r] \in {"evidenced", "deriving"} =>
       /\ receipt[r].decision = "allow" /\ receipt[r].started
       /\ receipt[r].gen = gen[r]
  /\ Capsule(r) /\ pc[r] \in ExecSteps => receipt[r].decision = "allow"
  /\ pc[r] \in {"launching", "marking"} => run[r] = "queued"

HandedInv == \A r \in Runs : Handed(r)

\* The invariants of the other modules.
RunInv == TypeInv /\ StaleInv /\ RecordInv /\ OpenInv /\ DrainInv

-----------------------------------------------------------------------------
(* Building blocks *)

\* A step of t that touches no other execution.
LEMMA HandedStep ==
  ASSUME RunInv, HandedInv, NEW t \in Ops, NEW s, Goto(t, s),
         \A r \in Runs : r # t =>
           /\ run'[r] = run[r] /\ receipt'[r] = receipt[r] /\ gen'[r] = gen[r]
           /\ r \in attempted' <=> r \in attempted,
         t \in Runs => Handed(t)'
  PROVE  HandedInv'
<1>1. \A u \in Ops : u # t => pc'[u] = pc[u]
  BY DEF Goto, RunInv, TypeInv, TypeOK, StepsOK
<1>2. ASSUME NEW r \in Runs, r # t PROVE Handed(r)'
  <2>1. pc'[r] = pc[r]
    BY <1>1, <1>2, OpsFacts
  <2>. QED
    BY <1>2, <2>1 DEF HandedInv, Handed, Capsule
<1>. QED
  BY <1>2 DEF HandedInv

\* A step that writes no record.
LEMMA HandedMove ==
  ASSUME RunInv, HandedInv, NEW t \in Ops, NEW s, Goto(t, s),
         UNCHANGED <<run, receipt, attempted>>,
         \A r \in Runs : r # t => gen'[r] = gen[r],
         t \in Runs =>
           /\ t \in attempted => s \in AfterHandoff
           /\ s \in {"inRunner", "completing"} => t \in attempted
           /\ Capsule(t) /\ s = "failing" => t \in attempted
           /\ Capsule(t) /\ s \in {"evidenced", "deriving"} =>
                pc[t] = "evidenced" /\ gen'[t] = gen[t]
           /\ s \in ExecSteps => pc[t] \in ExecSteps
           /\ s \in {"launching", "marking"} => pc[t] \in {"launching", "marking"}
  PROVE  HandedInv'
<1>1. pc'[t] = s
  BY DEF Goto, RunInv, TypeInv, TypeOK, StepsOK
<1>2. t \in Runs => Handed(t)'
  <2>. SUFFICES ASSUME t \in Runs PROVE Handed(t)'
    OBVIOUS
  <2>1. Handed(t)
    BY DEF HandedInv
  <2>. QED
    BY <1>1, <2>1 DEF Handed, Capsule
<1>. QED
  BY <1>2, HandedStep

-----------------------------------------------------------------------------
(* One step per action *)

LEMMA HandedAdmit ==
  ASSUME RunInv, HandedInv, NEW r \in Runs,
         \/ SendRefused(r) \/ SendBaseline(r) \/ SendCapsule(r) \/ Admit(r)
  PROVE  HandedInv'
<1>. r \in Ops
  BY OpsFacts
<1>1. UNCHANGED <<run, receipt, attempted>>
  BY DEF SendRefused, SendBaseline, SendCapsule, Admit, BeginValidation, PlanRefused,
         PlanCompiled, LateNotFound, RequestAdmission, RequestDenial, Launch,
         steady, database, process
<1>2. \A u \in Runs : u # r => gen'[u] = gen[u]
  BY DEF SendRefused, SendBaseline, SendCapsule, Admit, BeginValidation, PlanRefused,
         PlanCompiled, LateNotFound, RequestAdmission, RequestDenial, Launch,
         steady, RunInv, TypeInv, TypeOK, LocalOK
<1>3. pc[r] \in PreSteps \cup {"launching"}
  BY DEF SendRefused, SendBaseline, SendCapsule, Begin, Admit, BeginValidation,
         PlanRefused, PlanCompiled, LateNotFound, RequestAdmission, RequestDenial,
         Launch, PreSteps
<1>4. r \notin attempted
  BY <1>3 DEF HandedInv, Handed, AfterHandoff, Answered, PreSteps
<1>5. CASE Launch(r)
  <2>1. Goto(r, "marking") /\ pc[r] = "launching"
    BY <1>5 DEF Launch, Submit
  <2>. QED
    BY <1>1, <1>2, <1>4, <2>1, HandedMove DEF ExecSteps
<1>6. CASE ~Launch(r)
  <2>1. PICK s \in {"refused", "awaitAdmit", "awaitDeny", "authorized", "validating",
                    "admitting", "denying"} : Goto(r, s)
    BY <1>6 DEF SendRefused, SendBaseline, SendCapsule, Admit, BeginValidation,
                PlanRefused, PlanCompiled, LateNotFound, RequestAdmission,
                RequestDenial, JoinLock, Submit
  <2>2. s \notin ExecSteps \cup {"inRunner", "completing", "failing", "evidenced",
                                 "deriving", "launching", "marking"}
    BY <2>1 DEF ExecSteps, ReceiptMutations
  <2>. QED
    BY <1>1, <1>2, <1>4, <2>1, <2>2, HandedMove
<1>. QED
  BY <1>5, <1>6

LEMMA HandedExecute ==
  ASSUME RunInv, HandedInv, NEW r \in Runs, Execute(r)
  PROVE  HandedInv'
<1>. r \in Ops /\ Handed(r)
  BY OpsFacts DEF HandedInv
<1>1. UNCHANGED <<run, receipt, gen>>
  BY DEF Execute, CancelAfterMark, PrepareHome, PrepareHomeAborted, HomePrepared,
         RecheckAfterEvidence, DeriveAborted, WithdrawBeforeHandoff, Handoff,
         RunnerExits, Catch, Finish, steady, database
<1>2. CASE Handoff(r)
  <2>1. attempted' = attempted \cup {r} /\ pc[r] = "deriving"
    BY <1>2 DEF Handoff
  <2>2. PICK s \in {"inRunner", "caught"} : Goto(r, s)
    BY <1>2 DEF Handoff, Throw
  <2>3. pc'[r] = s
    BY <2>2 DEF Goto, RunInv, TypeInv, TypeOK, StepsOK
  <2>4. pc[r] \in ExecSteps /\ s \in AfterHandoff
    BY <2>1 DEF ExecSteps, AfterHandoff
  <2>5. Handed(r)'
    BY <1>1, <2>1, <2>3, <2>4 DEF Handed, Capsule
  <2>. QED
    BY <1>1, <2>1, <2>2, <2>5, HandedStep
<1>3. CASE Execute(r) /\ ~Handoff(r) /\ ~RunnerExits(r) /\ ~Catch(r) /\ ~Finish(r)
  <2>1. /\ UNCHANGED attempted
        /\ pc[r] \in {"marked", "preparing", "evidenced", "deriving"}
    BY <1>3 DEF Execute, CancelAfterMark, PrepareHome, PrepareHomeAborted,
                HomePrepared, RecheckAfterEvidence, DeriveAborted,
                WithdrawBeforeHandoff, process
  <2>2. r \notin attempted /\ pc[r] \in ExecSteps
    BY <2>1 DEF Handed, AfterHandoff, Answered, ExecSteps
  <2>3. PICK s \in {"caught", "preparing", "deriving", "evidencing", "lateDenying",
                    "retracting"} :
          Goto(r, s) /\ (Capsule(r) /\ s = "deriving" => pc[r] = "evidenced")
    BY <1>3 DEF Execute, CancelAfterMark, PrepareHome, PrepareHomeAborted,
                HomePrepared, RecheckAfterEvidence, DeriveAborted,
                WithdrawBeforeHandoff, Throw, Submit
  <2>. QED
    BY <1>1, <2>1, <2>2, <2>3, HandedMove
<1>4. CASE RunnerExits(r) \/ Catch(r) \/ Finish(r)
  <2>1. UNCHANGED attempted
    BY <1>4 DEF RunnerExits, Catch, Finish, process
  <2>2. PICK s \in {"caught", "completing", "failing", "lateRetrying", "prefailing",
                    "done", "broken"} :
          /\ Goto(r, s)
          /\ s = "completing" => pc[r] = "inRunner"
          /\ Capsule(r) /\ s = "failing" => r \in attempted
          /\ s \in {"lateRetrying", "prefailing"} => r \notin attempted
          /\ s \notin {"done", "broken"} => pc[r] \in {"inRunner", "caught"}
    BY <1>4 DEF RunnerExits, Catch, PreRunner, Finish, Throw, Submit
  <2>3. /\ s \notin {"lateRetrying", "prefailing"} => s \in AfterHandoff
        /\ s \in ExecSteps => pc[r] \in ExecSteps
    BY <2>2 DEF AfterHandoff, Answered, ExecSteps, ReceiptMutations
  <2>. QED
    BY <1>1, <2>1, <2>2, <2>3, HandedMove DEF Handed
<1>. QED
  BY <1>2, <1>3, <1>4

\* Requests other than sends have no execution.
LEMMA HandedOther ==
  ASSUME RunInv, HandedInv, NEW t \in Ops, t \notin Runs,
         UNCHANGED <<run, receipt, gen, attempted>>, \E s : Goto(t, s)
  PROVE  HandedInv'
  BY HandedMove

LEMMA HandedCancel ==
  ASSUME RunInv, HandedInv, NEW t \in Cancels,
         \/ Cancel(t)
         \/ t \in Stops /\ BeginStop(t)
         \/ t \in Deletes /\ (BeginDelete(t) \/ DeleteFiles(t))
  PROVE  HandedInv'
<1>1. t \in Ops /\ t \notin Runs
  BY OpsFacts, OperationsDisjoint
<1>2. UNCHANGED <<run, receipt, gen, attempted>>
  BY DEF Cancel, RunnerCancelled, Drain, AdmissionsReleased, ExecutionSettled,
         BeginStop, BeginDelete, DeleteFiles, DeleteUnderLock, Archive, Restore,
         steady, database, process
<1>3. \E s : Goto(t, s)
  BY DEF Cancel, RunnerCancelled, Drain, AdmissionsReleased, ExecutionSettled,
         ReadExecution, Proceed, BeginStop, BeginDelete, DeleteFiles,
         DeleteUnderLock, RequestCancel, Archive, Restore, Submit, JoinLock
<1>. QED
  BY <1>1, <1>2, <1>3, HandedOther

\* A commit of r leaves the local state and the handoffs of everybody alone.
LEMMA CommitMoves ==
  ASSUME NEW r \in Runs, CommitRun(r)
  PROVE  /\ UNCHANGED <<gen, attempted>>
         /\ \E m \in Mutations : \E s : Publish(r, m, s)
  BY DEF CommitRun, CommitDenial, CommitAdmission, CommitMark, CommitEvidence,
         CommitRetraction, CommitLateDenial, CommitPreRunnerFailure, CommitFailure,
         CommitCompletion, Publish, process, Mutations

\* The commits of a Run, one by one.
LEMMA HandedCommit ==
  ASSUME RunInv, HandedInv, NEW r \in Runs, CommitRun(r)
  PROVE  HandedInv'
<1>. r \in Ops /\ Handed(r) /\ TypeInv
  BY OpsFacts DEF HandedInv, RunInv
<1>. /\ run \in [Runs -> Running \cup Terminal \cup {"none"}]
     /\ receipt \in [Runs -> Records] /\ pc \in [Ops -> Steps]
  BY DEF TypeInv, TypeOK, DatabaseOK, StepsOK
<1>1. UNCHANGED <<gen, attempted>> /\ \E s : Goto(r, s)
  BY CommitMoves DEF Publish
<1>2. \A u \in Runs : u # r => run'[u] = run[u] /\ receipt'[u] = receipt[u]
  BY CommitsOwn
<1>3. SUFFICES Handed(r)'
  BY <1>1, <1>2, HandedStep
<1>4. CASE CommitDenial(r)
  <2>1. pc[r] = "denying" /\ pc'[r] = "returning"
    BY <1>4 DEF CommitDenial, Publish, Goto
  <2>2. r \notin attempted
    BY <2>1 DEF Handed, AfterHandoff, Answered
  <2>. QED
    BY <1>1, <2>1, <2>2 DEF Handed, ExecSteps, ReceiptMutations
<1>5. CASE CommitAdmission(r)
  <2>1. pc[r] = "admitting" /\ pc'[r] = "launching" /\ run'[r] = "queued"
    BY <1>5 DEF CommitAdmission, Publish, Goto, SetRun
  <2>2. r \notin attempted
    BY <2>1 DEF Handed, AfterHandoff, Answered
  <2>3. Capsule(r) => receipt'[r].decision = "allow"
    BY <1>5 DEF CommitAdmission, SetReceipt
  <2>. QED
    BY <1>1, <2>1, <2>2, <2>3 DEF Handed, Capsule
<1>6. CASE CommitMark(r)
  <2>1. /\ pc[r] = "marking" /\ pc'[r] \in {"marked", "caught"}
        /\ UNCHANGED receipt
    BY <1>6 DEF CommitMark, Publish, Goto
  <2>2. r \notin attempted /\ pc[r] \in ExecSteps
    BY <2>1 DEF Handed, AfterHandoff, Answered, ExecSteps
  <2>. QED
    BY <1>1, <2>1, <2>2 DEF Handed, Capsule
<1>7. CASE CommitEvidence(r) \/ CommitRetraction(r)
  <2>1. /\ pc[r] \in {"evidencing", "retracting"}
        /\ pc'[r] = (IF pc[r] = "evidencing" THEN "evidenced" ELSE "caught")
        /\ receipt'[r].decision = "allow" /\ receipt'[r].gen = gen[r]
        /\ pc[r] = "evidencing" => receipt'[r].started
    BY <1>7 DEF CommitEvidence, CommitRetraction, Publish, Goto, SetReceipt,
                RestoreEvidence
  <2>2. r \notin attempted
    BY <2>1 DEF Handed, AfterHandoff, Answered
  <2>. QED
    BY <1>1, <2>1, <2>2 DEF Handed, Capsule
<1>8. CASE CommitLateDenial(r) \/ CommitPreRunnerFailure(r)
  <2>1. pc[r] \in {"lateDenying", "lateRetrying", "prefailing"} /\ pc'[r] = "resolved"
    BY <1>8 DEF CommitLateDenial, AfterLateDenial, CommitPreRunnerFailure, Publish, Goto
  <2>2. r \notin attempted
    BY <2>1 DEF Handed, AfterHandoff, Answered
  <2>. QED
    BY <1>1, <2>1, <2>2 DEF Handed, ExecSteps, ReceiptMutations
<1>9. CASE CommitFailure(r) \/ CommitCompletion(r)
  <2>1. /\ pc[r] \in {"failing", "completing"} /\ pc'[r] = "resolved"
        /\ UNCHANGED receipt
    BY <1>9 DEF CommitFailure, CommitCompletion, Publish, Goto
  <2>2. run[r] # "none"
    BY <2>1 DEF RunInv, DrainInv, Held, ExecSteps
  <2>. QED
    BY <1>1, <2>1, <2>2 DEF Handed, Capsule, ExecSteps, ReceiptMutations, AfterHandoff
<1>. QED
  BY <1>4, <1>5, <1>6, <1>7, <1>8, <1>9 DEF CommitRun

\* A removal finds nobody executing.
LEMMA HandedRemoval ==
  ASSUME RunInv, HandedInv, NEW d \in Deletes, CommitRemoval(d)
  PROVE  HandedInv'
<1>1. /\ d \in Ops /\ d \in Cancels /\ d \notin Runs /\ Goto(d, "returning")
      /\ pc[d] = "removing" /\ UNCHANGED <<gen, attempted>>
  BY OpsFacts, OperationsDisjoint DEF CommitRemoval, Publish, process
<1>2. Idle(AgentOf[d])
  BY <1>1 DEF RunInv, DrainInv, Drained, DrainSteps
<1>3. ASSUME NEW r \in Runs PROVE Handed(r)'
  <2>1. pc'[r] = pc[r] /\ Handed(r)
    BY <1>1, OpsFacts DEF Goto, RunInv, TypeInv, TypeOK, StepsOK, HandedInv
  <2>2. CASE AgentOf[r] = AgentOf[d]
    <3>1. run'[r] = "none" /\ pc[r] \notin ExecSteps
      BY <1>2, <2>2 DEF CommitRemoval, Idle
    <3>2. {"inRunner", "completing", "failing", "evidenced", "deriving", "launching",
           "marking"} \subseteq ExecSteps
      BY DEF ExecSteps, ReceiptMutations
    <3>. QED
      BY <1>1, <2>1, <3>1, <3>2 DEF Handed
  <2>3. CASE AgentOf[r] # AgentOf[d]
    BY <1>1, <2>1, <2>3 DEF CommitRemoval, RemoveReceipts, Handed, Capsule
  <2>. QED
    BY <2>2, <2>3
<1>. QED
  BY <1>3 DEF HandedInv

LEMMA HandedStore ==
  ASSUME RunInv, HandedInv, StoreStep \/ \E t \in Ops : StoreWriteFails(t)
  PROVE  HandedInv'
<1>1. ASSUME NEW t \in Ops, t \notin Runs,
             CommitStopped(t) \/ CommitReady(t) \/ CommitGrant(t) \/ CommitRevoke(t)
      PROVE  HandedInv'
  <2>1. UNCHANGED <<run, receipt, gen, attempted>> /\ \E s : Goto(t, s)
    BY <1>1 DEF CommitStopped, CommitReady, CommitGrant, CommitRevoke, Publish, process
  <2>. QED
    BY <1>1, <2>1, HandedOther
<1>2. ASSUME NEW t \in Ops, AtHead(t), MutationFails(t) PROVE HandedInv'
  <2>. DEFINE s == AfterError(t)
  <2>1. pc[t] \in Mutations
    <3>. queue \in Seq(Ops)
      BY DEF RunInv, TypeInv, TypeOK, StoreOK
    <3>. QED
      BY <1>2, EmptySeq, LenProperties DEF AtHead, RunInv, RecordInv, QueueFits
  <2>2. Goto(t, s) /\ UNCHANGED <<run, receipt, gen, attempted>>
    BY <1>2 DEF MutationFails, database, process
  <2>3. /\ s \in {"unwinding", "caught", "prefailing", "rejected", "restoring", "refused"}
        /\ s = "prefailing" <=> pc[t] = "lateRetrying"
        /\ s \in {"unwinding", "restoring"} =>
             pc[t] \in {"admitting", "denying", "settingStopped", "removing"}
        /\ s \in {"caught", "prefailing"} => pc[t] \in ExecSteps
    BY <2>1 DEF AfterError, ExecSteps, ReceiptMutations
  <2>4. s \notin {"unwinding", "prefailing", "restoring"} => s \in AfterHandoff
    BY <2>3 DEF AfterHandoff, Answered
  <2>5. t \in Runs /\ t \in attempted => s \in AfterHandoff
    BY <2>3, <2>4 DEF HandedInv, Handed, AfterHandoff, Answered
  <2>6. s \in ExecSteps => pc[t] \in ExecSteps
    BY <2>3 DEF ExecSteps, ReceiptMutations
  <2>. QED
    BY <2>2, <2>3, <2>5, <2>6, HandedMove
<1>3. ASSUME NEW t \in Ops, StoreEvaluates(t) PROVE HandedInv'
  BY <1>3 DEF StoreEvaluates, steady, database, process, HandedInv, Handed, Capsule
<1>4. ASSUME NEW t \in Stops \cup Starts \cup Grants \cup Revokes
      PROVE  t \in Ops /\ t \notin Runs
  BY OpsFacts, OperationsDisjoint
<1>. QED
  BY <1>1, <1>2, <1>3, <1>4, HandedCommit, HandedRemoval
     DEF StoreStep, CommitOp, StoreRejects, StoreWriteFails

LEMMA HandedRestart ==
  ASSUME RunInv, HandedInv, Crash \/ Initialize
  PROVE  HandedInv'
<1>1. CASE Crash
  <2>1. /\ UNCHANGED <<run, receipt, attempted, gen>>
        /\ \A r \in Runs : \/ pc'[r] = "lost"
                           \/ pc'[r] = pc[r] /\ pc[r] \in Resting
    BY <1>1, OpsFacts DEF Crash, database, Resting
  <2>2. \A s \in Resting : s \notin ExecSteps \cup {"inRunner", "completing", "failing",
                                  "evidenced", "deriving", "launching", "marking"}
    BY DEF Resting, Answered, ExecSteps, ReceiptMutations
  <2>3. "lost" \in Resting \cap AfterHandoff
    BY DEF Resting, Answered, AfterHandoff
  <2>. QED
    BY <2>1, <2>2, <2>3 DEF HandedInv, Handed, Capsule
<1>2. CASE Initialize
  <2>1. /\ UNCHANGED <<pc, receipt, attempted, gen>> /\ \A t \in Ops : pc[t] \in Resting
        /\ \A r \in Runs : run[r] = "none" => run'[r] = "none"
    BY <1>2 DEF Initialize, control, process, RunInv, OpenInv, DownAtRest,
                RestartedRun, Running
  <2>2. \A s \in Resting : s \notin {"launching", "marking"}
    BY DEF Resting, Answered
  <2>. QED
    BY <2>1, <2>2, OpsFacts DEF HandedInv, Handed, Capsule
<1>. QED
  BY <1>1, <1>2

LEMMA HandedInductive == RunInv /\ HandedInv /\ [Next]_vars => HandedInv'
<1>. SUFFICES ASSUME RunInv, HandedInv, [Next]_vars PROVE HandedInv'
  OBVIOUS
<1>1. CASE Request
  <2>1. ASSUME NEW t \in Starts \cup Grants \cup Revokes,
               BeginStart(t) \/ BeginGrant(t) \/ BeginRevoke(t)
        PROVE  HandedInv'
    <3>1. t \in Ops /\ t \notin Runs
      BY OpsFacts, OperationsDisjoint
    <3>2. UNCHANGED <<run, receipt, gen, attempted>> /\ \E s : Goto(t, s)
      BY <2>1 DEF BeginStart, BeginGrant, BeginRevoke, Submit, steady, database,
                  process
    <3>. QED
      BY <3>1, <3>2, HandedOther
  <2>. QED
    BY <1>1, <2>1, HandedAdmit, HandedCancel, OpsFacts DEF Request
<1>2. CASE \E r \in Runs : Admit(r) \/ Execute(r)
  BY <1>2, HandedAdmit, HandedExecute
<1>3. CASE \/ \E t \in Cancels : Cancel(t)
           \/ \E d \in Deletes : DeleteFiles(d)
  BY <1>3, HandedCancel, OpsFacts
<1>4. CASE StoreStep \/ \E t \in Ops : StoreWriteFails(t)
  BY <1>4, HandedStore
<1>5. ASSUME NEW t \in Runs \cup Cancels, Unwind(t) PROVE HandedInv'
  <2>1. UNCHANGED <<run, receipt, gen, attempted>>
    BY <1>5 DEF Unwind, steady, database, process
  <2>2. PICK s \in {"refused", "done"} : Goto(t, s)
    BY <1>5 DEF Unwind
  <2>3. s \in AfterHandoff /\ s \notin ExecSteps
    BY <2>2 DEF AfterHandoff, Answered, ExecSteps, ReceiptMutations
  <2>. QED
    BY <2>1, <2>2, <2>3, HandedMove, OpsFacts
<1>6. CASE Crash \/ Initialize
  BY <1>6, HandedRestart
<1>7. CASE UNCHANGED vars
  BY <1>7 DEF vars, database, process, control, HandedInv, Handed, Capsule
<1>. QED
  BY <1>1, <1>2, <1>3, <1>4, <1>5, <1>6, <1>7 DEF Next, Rest

\* What the invariants of the records, the store and the Agents add up to.
THEOREM RunInvCorrect == Spec => []RunInv
  BY TypeInvCorrect, StaleInvCorrect, RecordInvCorrect, OpenInvCorrect,
     DrainInvCorrect, PTL DEF RunInv

\* What an execution has announced fits what it has done, in every reachable
\* state.
THEOREM HandedCorrect == Spec => []HandedInv
<1>1. Init => HandedInv
  BY OpsFacts DEF Init, HandedInv, Handed, ExecSteps, ReceiptMutations
<1>. QED
  BY <1>1, HandedInductive, RunInvCorrect, PTL DEF Spec

\* Write-ahead evidence: no crash, failed write, late denial or cancellation
\* hides from the Receipt that the Runner was called.
THEOREM EvidencePrecedesHandoff == Spec => []EvidenceIsWrittenAhead
<1>1. HandedInv => EvidenceIsWrittenAhead
  BY DEF HandedInv, Handed, EvidenceIsWrittenAhead
<1>. QED
  BY <1>1, HandedCorrect, PTL

-----------------------------------------------------------------------------
(* The handoff *)

\* The Runner is called by one action.
LEMMA OnlyHandoff ==
  ASSUME [Next]_vars, \A r \in Runs : ~Handoff(r)
  PROVE  UNCHANGED attempted
<1>1. CASE Request
  BY <1>1 DEF Request, SendRefused, SendBaseline, SendCapsule, BeginStop, BeginDelete,
              BeginStart, BeginGrant, BeginRevoke, process
<1>2. CASE \E u \in Runs : Admit(u)
  BY <1>2 DEF Admit, BeginValidation, PlanRefused, PlanCompiled, LateNotFound,
              RequestAdmission, RequestDenial, Launch, process
<1>3. CASE \E u \in Runs : Execute(u)
  BY <1>3 DEF Execute, CancelAfterMark, PrepareHome, PrepareHomeAborted, HomePrepared,
              RecheckAfterEvidence, DeriveAborted, WithdrawBeforeHandoff, Handoff,
              RunnerExits, Catch, Finish, process
<1>4. CASE \/ \E t \in Cancels : Cancel(t)
           \/ \E d \in Deletes : DeleteFiles(d)
  BY <1>4 DEF Cancel, RunnerCancelled, Drain, AdmissionsReleased, ExecutionSettled,
              DeleteFiles, DeleteUnderLock, Archive, Restore, process
<1>5. CASE \/ StoreStep
           \/ \E t \in Ops : StoreWriteFails(t)
  <2>1. CASE \/ \E t \in Ops : StoreRejects(t) \/ StoreEvaluates(t) \/ StoreWriteFails(t)
             \/ \E u \in Runs : CommitRun(u)
    BY <2>1, CommitMoves
       DEF StoreRejects, StoreEvaluates, StoreWriteFails, MutationFails, process
  <2>2. CASE CommitOp /\ ~\E u \in Runs : CommitRun(u)
    BY <2>2 DEF CommitOp, CommitStopped, CommitRemoval, CommitReady, CommitGrant,
                CommitRevoke, Publish, process
  <2>. QED
    BY <1>5, <2>1, <2>2 DEF StoreStep
<1>6. CASE \E t \in Runs \cup Cancels : Unwind(t)
  BY <1>6 DEF Unwind, process
<1>7. CASE Crash \/ Initialize \/ UNCHANGED vars
  BY <1>7 DEF Crash, Initialize, vars, process
<1>. QED
  BY <1>1, <1>2, <1>3, <1>4, <1>5, <1>6, <1>7 DEF Next, Rest

\* What the database shows at a handoff.
LEMMA AtHandoff ==
  ASSUME RunInv, HandedInv, NEW r \in Runs, Handoff(r)
  PROVE  /\ run[r] = "running" /\ agent[AgentOf[r]] = "busy" /\ r \notin attempted
         /\ Capsule(r) =>
              /\ receipt[r].decision = "allow" /\ receipt[r].started
              /\ ent[PairOf(r)].active /\ ent[PairOf(r)].gen = receipt[r].gen
<1>1. pc[r] = "deriving" /\ (Capsule(r) => Current(r))
  BY DEF Handoff
<1>2. "deriving" \in ExecSteps \cap MarkedSteps /\ "deriving" \notin AfterHandoff
  BY DEF ExecSteps, MarkedSteps, AfterHandoff, Answered
<1>3. Held(r) /\ Handed(r)
  BY DEF RunInv, DrainInv, HandedInv
<1>. QED
  BY <1>1, <1>2, <1>3 DEF Held, Handed, Current

\* The Runner is called only under the very authority the Receipt names, and
\* while that authority is in force.
THEOREM HandoffsAreAuthorized == Spec => HandoffIsAuthorized
<1>. DEFINE Authorized ==
       \A r \in Runs : HandedOff(r) =>
         /\ run[r] = "running" /\ agent[AgentOf[r]] = "busy"
         /\ Capsule(r) =>
              /\ receipt[r].decision = "allow" /\ receipt[r].started
              /\ ent[PairOf(r)].active /\ ent[PairOf(r)].gen = receipt[r].gen
<1>1. RunInv /\ HandedInv /\ [Next]_vars => Authorized
  <2>. SUFFICES ASSUME RunInv, HandedInv, [Next]_vars, NEW r \in Runs, HandedOff(r)
                PROVE  Handoff(r)
    BY AtHandoff
  <2>1. PICK u \in Runs : Handoff(u)
    BY OnlyHandoff DEF HandedOff
  <2>2. r = u
    BY <2>1 DEF HandedOff, Handoff
  <2>. QED
    BY <2>1, <2>2
<1>2. Spec => [][Authorized]_vars
  <2>. HIDE DEF Authorized
  <2>. QED
    BY <1>1, RunInvCorrect, HandedCorrect, PTL DEF Spec
<1>. QED
  BY <1>2 DEF HandoffIsAuthorized

-----------------------------------------------------------------------------
(* The refinement *)

Decisions == [r \in Runs |-> receipt[r].decision]
Announced == [r \in Runs |-> receipt[r].started]

\* A change of one Receipt is a change of what it says and announces.
LEMMA OneReceipt ==
  ASSUME TypeInv, NEW r \in Runs, NEW c, receipt' = [receipt EXCEPT ![r] = c]
  PROVE  /\ Decisions' = [Decisions EXCEPT ![r] = c.decision]
         /\ Announced' = [Announced EXCEPT ![r] = c.started]
  BY DEF Decisions, Announced, TypeInv, TypeOK, DatabaseOK

LEMMA SameReceipts ==
  ASSUME UNCHANGED receipt
  PROVE  UNCHANGED <<Decisions, Announced>>
  BY DEF Decisions, Announced

\* To write again what a Receipt says changes nothing.
LEMMA Rewritten ==
  ASSUME NEW r \in Runs, NEW f, f = [u \in Runs |-> f[u]]
  PROVE  [f EXCEPT ![r] = f[r]] = f
  OBVIOUS

LEMMA Represented ==
  /\ Decisions = [r \in Runs |-> Decisions[r]] /\ Announced = [r \in Runs |-> Announced[r]]
  /\ \A r \in Runs : Decisions[r] = receipt[r].decision /\ Announced[r] = receipt[r].started
  BY DEF Decisions, Announced

\* The commits of a Run are the steps of its contract.
LEMMA ContractCommit ==
  ASSUME RunInv, HandedInv, NEW r \in Runs, CommitRun(r)
  PROVE  Contract!Next \/ UNCHANGED Contract!vars
<1>. USE DEF Contract!Becomes, Contract!Says, Contract!Announces
<1>. r \in Ops /\ TypeInv /\ Handed(r) /\ Known(r) /\ Agree(r) /\ Held(r)
  BY OpsFacts DEF RunInv, HandedInv, StaleInv, RecordInv, DrainInv
<1>. /\ run \in [Runs -> Running \cup Terminal \cup {"none"}]
     /\ receipt \in [Runs -> Records]
  BY DEF TypeInv, TypeOK, DatabaseOK
<1>a. UNCHANGED attempted
  BY CommitMoves
<1>1. CASE CommitDenial(r)
  <2>1. /\ pc[r] = "denying" /\ run' = [run EXCEPT ![r] = "denied"]
        /\ receipt' = [receipt EXCEPT ![r] = [decision |-> "deny", reason |-> verdict[r],
                                              gen |-> gen[r], started |-> FALSE]]
    BY <1>1 DEF CommitDenial, Publish, SetRun, RecordDenial, SetReceipt
  <2>2. Capsule(r) /\ run[r] = "none" /\ r \notin attempted
    BY <2>1 DEF Known, CapsuleSteps, RunInv, OpenInv, Open, PreSteps, Handed,
                AfterHandoff, Answered
  <2>3. Announced[r] = FALSE
    BY <2>2, Represented DEF Agree, NoReceipt
  <2>4. Contract!Deny(r)
    BY <1>a, <2>1, <2>2, <2>3, OneReceipt, Rewritten, Represented
       DEF Contract!Deny, Decisions, Announced
  <2>. QED
    BY <2>4 DEF Contract!Next
<1>2. CASE CommitAdmission(r)
  <2>1. /\ pc[r] = "admitting" /\ run' = [run EXCEPT ![r] = "queued"]
        /\ Capsule(r) =>
             receipt' = [receipt EXCEPT ![r] = [decision |-> "allow", reason |-> "allowed",
                                                gen |-> gen[r], started |-> FALSE]]
        /\ ~Capsule(r) => UNCHANGED receipt
    BY <1>2 DEF CommitAdmission, Publish, SetRun, SetReceipt
  <2>2. run[r] = "none" /\ r \notin attempted
    BY <2>1 DEF RunInv, OpenInv, Open, PreSteps, Handed, AfterHandoff, Answered
  <2>3. Announced[r] = FALSE
    BY <2>2, Represented DEF Agree, NoReceipt
  <2>4. /\ Capsule(r) => /\ Decisions' = [Decisions EXCEPT ![r] = "allow"]
                         /\ UNCHANGED Announced
        /\ ~Capsule(r) => UNCHANGED <<Decisions, Announced>>
    <3>1. CASE ~Capsule(r)
      BY <2>1, <3>1, SameReceipts
    <3>2. CASE Capsule(r)
      <4>1. /\ Decisions' = [Decisions EXCEPT ![r] = "allow"]
            /\ Announced' = [Announced EXCEPT ![r] = FALSE]
        <5>. DEFINE c == [decision |-> "allow", reason |-> "allowed", gen |-> gen[r],
                          started |-> FALSE]
        <5>1. receipt' = [receipt EXCEPT ![r] = c]
          BY <2>1, <3>2
        <5>2. c.decision = "allow" /\ c.started = FALSE
          OBVIOUS
        <5>3. /\ Decisions' = [Decisions EXCEPT ![r] = c.decision]
              /\ Announced' = [Announced EXCEPT ![r] = c.started]
          <6>. HIDE DEF c
          <6>. QED
            BY <5>1, OneReceipt
        <5>. QED
          BY <5>2, <5>3
      <4>. QED
        BY <2>3, <3>2, <4>1, Rewritten, Represented
    <3>. QED
      BY <3>1, <3>2
  <2>5. Contract!Admit(r)
    BY <1>a, <2>1, <2>2, <2>4 DEF Contract!Admit, Decisions, Announced
  <2>. QED
    BY <2>5 DEF Contract!Next
<1>3. CASE CommitMark(r)
  <2>1. /\ pc[r] = "marking" /\ UNCHANGED receipt
        /\ UNCHANGED run \/ run' = [run EXCEPT ![r] = "running"]
    BY <1>3 DEF CommitMark, Publish, SetRun
  <2>2. run[r] = "queued"
    BY <2>1 DEF Handed
  <2>3. UNCHANGED Contract!vars \/ Contract!Begin(r)
    BY <1>a, <2>1, <2>2, SameReceipts
       DEF Contract!Begin, Contract!vars, Decisions, Announced
  <2>. QED
    BY <2>3 DEF Contract!Next
<1>4. CASE CommitEvidence(r) \/ CommitRetraction(r)
  <2>1. PICK yes \in BOOLEAN :
          receipt' = [receipt EXCEPT ![r] = [decision |-> "allow", reason |-> "allowed",
                                             gen |-> gen[r], started |-> yes]]
    BY <1>4 DEF CommitEvidence, CommitRetraction, RestoreEvidence, SetReceipt
  <2>2. pc[r] \in {"evidencing", "retracting"} /\ UNCHANGED run
    BY <1>4 DEF CommitEvidence, CommitRetraction, Publish
  <2>3. Capsule(r) /\ run[r] = "running" /\ r \notin attempted
    BY <2>2 DEF Known, CapsuleSteps, Held, ExecSteps, ReceiptMutations, MarkedSteps,
                Handed, AfterHandoff, Answered
  <2>4. Decisions[r] = "allow"
    BY <2>2, <2>3, Represented DEF Handed, ExecSteps, ReceiptMutations
  <2>5. Contract!Announce(r)
    BY <1>a, <2>1, <2>2, <2>3, <2>4, OneReceipt, Rewritten, Represented
       DEF Contract!Announce, Decisions, Announced
  <2>. QED
    BY <2>5 DEF Contract!Next
<1>5. CASE CommitLateDenial(r)
  <2>1. receipt' = [receipt EXCEPT ![r] = [decision |-> "deny", reason |-> Stale,
                                           gen |-> gen[r], started |-> FALSE]]
    BY <1>5 DEF CommitLateDenial, SetReceipt, Stale
  <2>2. pc[r] \in {"lateDenying", "lateRetrying"}
    BY <1>5 DEF CommitLateDenial, Publish
  <2>3. Capsule(r) /\ run[r] # "none" /\ r \notin attempted /\ run[r] \notin Terminal
    BY <2>2 DEF Known, CapsuleSteps, Held, ExecSteps, ReceiptMutations, RunInv, OpenInv,
                Open, Handed, AfterHandoff, Answered
  <2>4. run' = [run EXCEPT ![r] = "denied"]
    BY <1>5, <2>3 DEF CommitLateDenial, EndRun, SetRun
  <2>5. run[r] \in Contract!Live
    BY <2>3 DEF Contract!Live, Running
  <2>6. Contract!Withdraw(r)
    BY <1>a, <2>1, <2>3, <2>4, <2>5, OneReceipt
       DEF Contract!Withdraw, Decisions, Announced
  <2>. QED
    BY <2>6 DEF Contract!Next
<1>6. CASE CommitPreRunnerFailure(r)
  <2>1. /\ pc[r] = "prefailing"
        /\ receipt' = [receipt EXCEPT ![r] = [decision |-> "allow", reason |-> "allowed",
                                              gen |-> gen[r], started |-> FALSE]]
    BY <1>6 DEF CommitPreRunnerFailure, RestoreEvidence, Publish, SetReceipt
  <2>2. /\ Capsule(r) /\ run[r] # "none" /\ r \notin attempted /\ run[r] \notin Terminal
        /\ verdict[r] \in {"failed", "cancelled"}
    BY <2>1 DEF Known, CapsuleSteps, Held, ExecSteps, ReceiptMutations, RunInv, OpenInv,
                Open, Handed, AfterHandoff, Answered, TypeInv, VerdictFits, Fits, Outcomes
  <2>3. run' = [run EXCEPT ![r] = verdict[r]]
    BY <1>6, <2>2 DEF CommitPreRunnerFailure, EndRun, SetRun
  <2>4. run[r] \in Contract!Live
    BY <2>2 DEF Contract!Live, Running
  <2>5. Decisions[r] = "allow"
    BY <2>1, <2>2, Represented DEF Handed, ExecSteps, ReceiptMutations
  <2>6. Contract!Abort(r)
    BY <1>a, <2>1, <2>2, <2>3, <2>4, <2>5, OneReceipt, Rewritten, Represented
       DEF Contract!Abort, Decisions, Announced
  <2>. QED
    BY <2>6 DEF Contract!Next
<1>7. CASE CommitFailure(r)
  <2>1. pc[r] = "failing" /\ UNCHANGED receipt
    BY <1>7 DEF CommitFailure, Publish
  <2>2. /\ run[r] # "none" /\ run[r] \notin Terminal
        /\ Capsule(r) => r \in attempted
        /\ verdict[r] \in {"failed", "cancelled"}
    BY <2>1 DEF Held, ExecSteps, RunInv, OpenInv, Open, Handed, TypeInv, VerdictFits,
                Fits, Outcomes
  <2>3. run' = [run EXCEPT ![r] = verdict[r]]
    BY <1>7, <2>2 DEF CommitFailure, EndRun, SetRun
  <2>4. run[r] \in Contract!Live
    BY <2>2 DEF Contract!Live, Running
  <2>5. Contract!Abort(r)
    BY <1>a, <2>1, <2>2, <2>3, <2>4, SameReceipts
       DEF Contract!Abort, Decisions, Announced
  <2>. QED
    BY <2>5 DEF Contract!Next
<1>8. CASE CommitCompletion(r)
  <2>1. pc[r] = "completing" /\ UNCHANGED receipt
    BY <1>8 DEF CommitCompletion, Publish
  <2>2. run[r] = "running" /\ r \in attempted
    BY <2>1 DEF Held, ExecSteps, MarkedSteps, Handed
  <2>3. UNCHANGED run \/ run' = [run EXCEPT ![r] = "completed"]
    BY <1>8 DEF CommitCompletion, SetRun
  <2>4. UNCHANGED Contract!vars \/ Contract!Complete(r)
    BY <1>a, <2>1, <2>2, <2>3, SameReceipts
       DEF Contract!Complete, Contract!vars, Decisions, Announced
  <2>. QED
    BY <2>4 DEF Contract!Next
<1>. QED
  BY <1>1, <1>2, <1>3, <1>4, <1>5, <1>6, <1>7, <1>8 DEF CommitRun

\* Every step of the server is a step of the contract or none.
LEMMA ContractKept ==
  ASSUME RunInv, HandedInv, [Next]_vars
  PROVE  Contract!Next \/ UNCHANGED Contract!vars
<1>1. CASE \E r \in Runs : CommitRun(r)
  BY <1>1, ContractCommit
<1>2. ASSUME NEW r \in Runs, Handoff(r) PROVE Contract!Next
  <2>1. UNCHANGED <<run, receipt>> /\ attempted' = attempted \cup {r}
    BY <1>2 DEF Handoff, steady, database
  <2>2. Contract!HandOff(r)
    BY <1>2, <2>1, AtHandoff, SameReceipts, Represented
       DEF Contract!HandOff, Decisions, Announced
  <2>. QED
    BY <2>2 DEF Contract!Next
<1>3. ASSUME NEW d \in Deletes, CommitRemoval(d) PROVE Contract!Next
  <2>1. /\ run' = [r \in Runs |-> IF AgentOf[r] = AgentOf[d] THEN "none" ELSE run[r]]
        /\ receipt' = [r \in Runs |-> IF AgentOf[r] = AgentOf[d] THEN NoReceipt
                                      ELSE receipt[r]]
        /\ UNCHANGED attempted
    BY <1>3 DEF CommitRemoval, RemoveReceipts, Publish, process
  <2>2. Contract!Remove(AgentOf[d])
    BY <2>1 DEF Contract!Remove, NoReceipt
  <2>. QED
    BY <2>2, OpsFacts, AgentOfOps DEF Contract!Next
<1>4. CASE Initialize
  <2>1. Contract!Restart
    BY <1>4, SameReceipts
       DEF Initialize, process, RestartedRun, Running, Contract!Restart, Contract!Live,
           Decisions, Announced
  <2>. QED
    BY <2>1 DEF Contract!Next
<1>5. CASE /\ ~\E r \in Runs : CommitRun(r) \/ Handoff(r)
           /\ ~\E d \in Deletes : CommitRemoval(d)
           /\ ~Initialize
  <2>1. UNCHANGED <<run, receipt>>
    <3>1. CASE CommitOp
      BY <1>5, <3>1 DEF CommitOp, CommitStopped, CommitReady, CommitGrant, CommitRevoke
    <3>. QED
      BY <1>5, <3>1, RecordsKept DEF Next, Rest, StoreStep
  <2>2. UNCHANGED attempted
    BY <1>5, OnlyHandoff
  <2>. QED
    BY <2>1, <2>2, SameReceipts DEF Contract!vars, Decisions, Announced
<1>. QED
  BY <1>1, <1>2, <1>3, <1>4, <1>5

\* The server implements RunContract: whatever a client can read of a Run and its
\* Receipt, failed writes, crashes and restarts included, is what the contract
\* allows.
THEOREM ContractImplemented == Spec => ImplementsRunContract
<1>1. Init => Contract!Init
  BY DEF Init, NoReceipt, Contract!Init
<1>2. RunInv /\ HandedInv /\ [Next]_vars => [Contract!Next]_(Contract!vars)
  BY ContractKept
<1>. QED
  BY <1>1, <1>2, RunInvCorrect, HandedCorrect, PTL
     DEF Spec, ImplementsRunContract, Contract!Spec

-----------------------------------------------------------------------------
(* The evidence of ended Runs *)

\* Until the process dies, no Run ends with a handoff announced and not made.
Told ==
  /\ crashes = 0 => up
  /\ crashes = 0 =>
       \A r \in Runs :
         Capsule(r) /\ receipt[r].started /\ r \notin attempted => run[r] \notin Terminal

LEMMA ToldInductive == RunInv /\ HandedInv /\ Told /\ [Next]_vars => Told'
<1>. SUFFICES ASSUME RunInv, HandedInv, Told, [Next]_vars, crashes' = 0 PROVE Told'
  BY DEF Told
<1>. /\ TypeInv /\ run \in [Runs -> Running \cup Terminal \cup {"none"}]
     /\ receipt \in [Runs -> Records]
  BY DEF RunInv, TypeInv, TypeOK, DatabaseOK
<1>1. ~Crash
  <2>. crashes \in Nat
    BY DEF TypeInv, TypeOK, EnvironmentOK
  <2>. QED
    BY DEF Crash
<1>2. ~Initialize
  BY DEF Initialize, Told
<1>3. UNCHANGED <<up, crashes>>
  BY <1>1, <1>2, OnlyCounted
<1>4. \A r \in Runs : Capsule(r) /\ receipt[r].started /\ r \notin attempted => run[r] \notin Terminal
  BY <1>3 DEF Told
<1>5. SUFFICES ASSUME NEW r \in Runs, Capsule(r), receipt'[r].started, r \notin attempted'
               PROVE  run'[r] \notin Terminal
  BY <1>3 DEF Told, Capsule
<1>6. CASE CommitRun(r)
  <2>1. r \notin attempted /\ run[r] \notin Terminal
    BY <1>5, <1>6, CommitMoves, CommitsUnended DEF RunInv
  <2>2. CASE \/ CommitDenial(r) \/ CommitLateDenial(r) \/ CommitPreRunnerFailure(r)
             \/ CommitRetraction(r)
    BY <1>5, <2>2 DEF CommitDenial, CommitLateDenial, CommitPreRunnerFailure,
                      CommitRetraction, RecordDenial, RestoreEvidence, SetReceipt
  <2>3. CASE CommitAdmission(r) \/ CommitMark(r) \/ CommitEvidence(r)
    BY <2>1, <2>3 DEF CommitAdmission, CommitMark, CommitEvidence, SetRun, Terminal
  <2>4. CASE CommitFailure(r) \/ CommitCompletion(r)
    BY <1>5, <2>1, <2>4 DEF CommitFailure, CommitCompletion, Publish, HandedInv, Handed
  <2>. QED
    BY <1>6, <2>2, <2>3, <2>4 DEF CommitRun
<1>7. CASE \E u \in Runs : u # r /\ CommitRun(u)
  <2>1. run'[r] = run[r] /\ receipt'[r] = receipt[r] /\ UNCHANGED attempted
    BY <1>7, CommitsOwn, CommitMoves
  <2>. QED
    BY <1>4, <1>5, <2>1
<1>8. CASE \E d \in Deletes : CommitRemoval(d)
  <2>1. /\ UNCHANGED attempted
        /\ run'[r] = "none" \/ (run'[r] = run[r] /\ receipt'[r] = receipt[r])
    BY <1>8 DEF CommitRemoval, RemoveReceipts, Publish, process
  <2>. QED
    BY <1>4, <1>5, <2>1 DEF Terminal
<1>9. CASE Handoff(r)
  BY <1>5, <1>9 DEF Handoff
<1>10. CASE /\ ~Handoff(r)
            /\ ~\E u \in Runs : CommitRun(u)
            /\ ~\E d \in Deletes : CommitRemoval(d)
  <2>1. UNCHANGED <<run, receipt>>
    <3>1. CASE CommitOp
      BY <1>10, <3>1 DEF CommitOp, CommitStopped, CommitReady, CommitGrant, CommitRevoke
    <3>. QED
      BY <1>1, <1>2, <1>10, <3>1, RecordsKept DEF Next, Rest, StoreStep
  <2>2. r \notin attempted
    BY <1>5, OnlyHandoff DEF Handoff
  <2>. QED
    BY <1>4, <1>5, <2>1, <2>2
<1>. QED
  BY <1>6, <1>7, <1>8, <1>9, <1>10

\* Until the process dies, the Receipt of an ended Capsule Run says runnerStarted
\* exactly when the Runner was called; a death between the two is the only way
\* to part them.
THEOREM EvidenceOfEndedRuns == Spec => [](crashes = 0 => EvidenceIsTruthful)
<1>1. Init => Told
  BY DEF Init, Told, NoReceipt
<1>2. HandedInv /\ Told => (crashes = 0 => EvidenceIsTruthful)
  BY DEF HandedInv, Handed, Told, EvidenceIsTruthful, Terminal
<1>. QED
  BY <1>1, <1>2, ToldInductive, RunInvCorrect, HandedCorrect, PTL DEF Spec

-----------------------------------------------------------------------------
(***************************************************************************)
(* A stop or delete silences its Agent: no Run is handed to the Runner     *)
(* while it is under way, and nothing of the Agent runs between its drain  *)
(* and its answer.                                                         *)
(*                                                                         *)
(* Both rest on the cancellation flag, which is one bit per Agent that the *)
(* first of two overlapping cancellations clears for the other as well; so *)
(* they hold as long as no stop overlaps another stop or delete of its     *)
(* Agent (StopsAlone), and the run two_cancels shows that they need it.    *)
(* Deletes never overlap each other: they hold the file lock throughout.   *)
(***************************************************************************)

\* From the raised flag to the finally clause that lowers it.
Underway(t) == InProgress(t) \/ pc[t] \in {"unwinding", "returning"}

StopsAlone ==
  \A s \in Stops, t \in Cancels :
    s # t /\ AgentOf[s] = AgentOf[t] => ~(Underway(s) /\ Underway(t))

Flagged ==
  \A t \in Cancels :
    /\ Underway(t) => AgentOf[t] \in cancelling
    /\ pc[t] \in Mutations => pc[t] \in {"settingStopped", "removing"}

\* No stop or delete overlaps another one of its Agent.
LEMMA CancelsAlone ==
  ASSUME TypeInv, StopsAlone, NEW t \in Cancels, NEW u \in Cancels, t # u,
         AgentOf[t] = AgentOf[u], Underway(t)
  PROVE  ~Underway(u)
<1>1. CASE t \in Stops \/ u \in Stops
  BY <1>1 DEF StopsAlone
<1>2. CASE t \in Deletes /\ u \in Deletes
  <2>1. ASSUME NEW d \in Deletes, Underway(d) PROVE HoldsLock(d)
    BY <2>1 DEF TypeInv, LockHolders, FileOps, HoldSteps, FileSteps, Underway, InProgress
  <2>. QED
    BY <1>2, <2>1 DEF HoldsLock
<1>. QED
  BY <1>1, <1>2 DEF Cancels

\* A step that lowers no flag.
LEMMA FlaggedMove ==
  ASSUME TypeInv, Flagged, NEW t \in Ops, NEW s, Goto(t, s),
         cancelling \subseteq cancelling',
         t \in Cancels => \/ Underway(t)
                          \/ AgentOf[t] \in cancelling'
                          \/ s \in {"awaitDelete", "refused"},
         t \in Cancels /\ s \in Mutations => s \in {"settingStopped", "removing"}
  PROVE  Flagged'
<1>1. pc'[t] = s /\ \A u \in Ops : u # t => pc'[u] = pc[u]
  BY DEF Goto, TypeInv, TypeOK, StepsOK
<1>. QED
  BY <1>1, OpsFacts DEF Flagged, Underway, InProgress

\* The flag stays up as long as the stop or delete that raised it is under way.
LEMMA FlaggedInductive ==
  TypeInv /\ RecordInv /\ StopsAlone /\ Flagged /\ [Next]_vars => Flagged'
<1>. SUFFICES ASSUME TypeInv, RecordInv, StopsAlone, Flagged, [Next]_vars PROVE Flagged'
  OBVIOUS
<1>0. Runs \cap Cancels = {} /\ Cancels \cap (Starts \cup Grants \cup Revokes) = {}
  BY OperationsDisjoint
<1>1. ASSUME NEW t \in Cancels,
             \/ Cancel(t)
             \/ t \in Stops /\ BeginStop(t)
             \/ t \in Deletes /\ (BeginDelete(t) \/ DeleteFiles(t))
      PROVE  Flagged'
  <2>1. CASE \/ Cancel(t)
             \/ t \in Deletes /\ (Archive(t) \/ Restore(t))
    <3>1. Underway(t) /\ UNCHANGED cancelling
      BY <2>1 DEF Cancel, RunnerCancelled, Drain, AdmissionsReleased, ExecutionSettled,
                  Archive, Restore, service, Underway, InProgress
    <3>2. \E s : /\ Goto(t, s)
                 /\ s \in Mutations => s \in {"settingStopped", "removing"}
      BY <2>1 DEF Cancel, RunnerCancelled, Drain, AdmissionsReleased, ExecutionSettled,
                  ReadExecution, Proceed, Archive, Restore, Submit, Mutations
    <3>. QED
      BY <3>1, <3>2, FlaggedMove, OpsFacts
  <2>2. CASE RequestCancel(t)
    <3>1. Goto(t, "killing") /\ cancelling' = cancelling \cup {AgentOf[t]}
      BY <2>2 DEF RequestCancel, RaiseFlag
    <3>. QED
      BY <3>1, FlaggedMove, OpsFacts DEF Mutations
  <2>3. CASE /\ UNCHANGED cancelling
             /\ \/ Goto(t, "refused")
                \/ Goto(t, "awaitDelete")
    BY <2>3, FlaggedMove, OpsFacts DEF Mutations
  <2>. QED
    BY <1>1, <2>1, <2>2, <2>3
       DEF BeginStop, BeginDelete, DeleteFiles, DeleteUnderLock, JoinLock
<1>2. ASSUME NEW t \in Ops, t \notin Cancels, UNCHANGED cancelling, NEW s, Goto(t, s)
      PROVE  Flagged'
  BY <1>2, FlaggedMove
<1>3. CASE Request
  <2>1. ASSUME NEW t \in Runs \cup Starts \cup Grants \cup Revokes,
               \/ SendRefused(t) \/ SendBaseline(t) \/ SendCapsule(t)
               \/ BeginStart(t) \/ BeginGrant(t) \/ BeginRevoke(t)
        PROVE  Flagged'
    <3>1. UNCHANGED cancelling /\ \E s : Goto(t, s)
      BY <2>1 DEF SendRefused, SendBaseline, SendCapsule, BeginStart, BeginGrant,
                  BeginRevoke, JoinLock, Submit, service
    <3>. QED
      BY <1>0, <1>2, <3>1, OpsFacts
  <2>. QED
    BY <1>1, <1>3, <2>1, OpsFacts DEF Request
<1>4. CASE \E r \in Runs : Admit(r) \/ Execute(r)
  <2>1. PICK r \in Runs : Admit(r) \/ Execute(r)
    BY <1>4
  <2>2. CASE Admit(r)
    <3>1. UNCHANGED cancelling /\ \E s : Goto(r, s)
      BY <2>2 DEF Admit, BeginValidation, PlanRefused, PlanCompiled, LateNotFound,
                  RequestAdmission, RequestDenial, Launch, JoinLock, Submit, service
    <3>. QED
      BY <1>0, <1>2, <3>1, OpsFacts
  <2>3. CASE Execute(r)
    <3>1. UNCHANGED cancelling /\ \E s : Goto(r, s)
      BY <2>3 DEF Execute, CancelAfterMark, PrepareHome, PrepareHomeAborted,
                  HomePrepared, RecheckAfterEvidence, DeriveAborted,
                  WithdrawBeforeHandoff, Handoff, RunnerExits, Catch, Finish, Throw,
                  Submit, service
    <3>. QED
      BY <1>0, <1>2, <3>1, OpsFacts
  <2>. QED
    BY <2>1, <2>2, <2>3
<1>5. CASE \/ \E t \in Cancels : Cancel(t)
           \/ \E d \in Deletes : DeleteFiles(d)
  BY <1>1, <1>5, OpsFacts
<1>6. ASSUME NEW t \in Runs \cup Cancels, Unwind(t) PROVE Flagged'
  <2>1. \E s : Goto(t, s)
    BY <1>6 DEF Unwind
  <2>2. CASE t \in Runs
    <3>1. UNCHANGED cancelling
      BY <1>0, <1>6, <2>2 DEF Unwind
    <3>. QED
      BY <1>0, <1>2, <2>1, <2>2, <3>1, OpsFacts
  <2>3. CASE t \in Cancels
    <3>1. /\ Underway(t) /\ cancelling' = cancelling \ {AgentOf[t]}
          /\ \/ pc' = [pc EXCEPT ![t] = "refused"]
             \/ pc' = [pc EXCEPT ![t] = "done"]
      BY <1>6, <2>3 DEF Unwind, Underway, Goto
    <3>2. /\ pc'[t] \in {"refused", "done"}
          /\ \A u \in Cancels : u # t => pc'[u] = pc[u]
      BY <2>3, <3>1, OpsFacts DEF TypeInv, TypeOK, StepsOK
    <3>3. ~Underway(t)' /\ pc'[t] \notin Mutations
      BY <3>2 DEF Underway, InProgress, Mutations
    <3>4. ASSUME NEW u \in Cancels, u # t, Underway(u)' PROVE AgentOf[u] \in cancelling'
      <4>1. Underway(u)
        BY <3>2, <3>4 DEF Underway, InProgress
      <4>2. AgentOf[u] # AgentOf[t]
        BY <2>3, <3>1, <3>4, <4>1, CancelsAlone
      <4>. QED
        BY <3>1, <4>1, <4>2 DEF Flagged
    <3>. QED
      BY <3>2, <3>3, <3>4 DEF Flagged
  <2>. QED
    BY <2>2, <2>3
<1>7. CASE StoreStep \/ \E t \in Ops : StoreWriteFails(t)
  <2>1. CASE CommitOp
    <3>1. PICK t \in Ops, m \in Mutations :
            \E s : Publish(t, m, s) /\ s \notin Mutations
      <4>1. ASSUME NEW r \in Runs, CommitRun(r)
            PROVE  \E m \in Mutations : \E s : Publish(r, m, s) /\ s \notin Mutations
        <5>. DEFINE After ==
               {"returning", "launching", "marked", "caught", "evidenced", "resolved"}
        <5>1. \E m \in Mutations : \E s \in After : Publish(r, m, s)
          BY <4>1 DEF CommitRun, CommitDenial, CommitAdmission, CommitMark,
                      CommitEvidence, CommitRetraction, CommitLateDenial,
                      AfterLateDenial, CommitPreRunnerFailure, CommitFailure,
                      CommitCompletion, Mutations
        <5>. QED
          BY <5>1 DEF Mutations
      <4>2. ASSUME NEW t, \/ CommitStopped(t) \/ CommitRemoval(t) \/ CommitReady(t)
                          \/ CommitGrant(t) \/ CommitRevoke(t)
            PROVE  \E m \in Mutations : \E s : Publish(t, m, s) /\ s \notin Mutations
        BY <4>2 DEF CommitStopped, CommitRemoval, CommitReady, CommitGrant,
                    CommitRevoke, Mutations
      <4>. QED
        BY <2>1, <4>1, <4>2, OpsFacts DEF CommitOp
    <3>2. UNCHANGED cancelling /\ pc[t] = m /\ \E s : Goto(t, s) /\ s \notin Mutations
      BY <3>1 DEF Publish, service
    <3>3. t \in Cancels => Underway(t)
      BY <3>2 DEF Flagged, Underway, InProgress
    <3>. QED
      BY <3>2, <3>3, FlaggedMove
  <2>2. ASSUME NEW t \in Ops, AtHead(t), MutationFails(t) PROVE Flagged'
    <3>1. UNCHANGED cancelling /\ Goto(t, AfterError(t))
      BY <2>2 DEF MutationFails, service
    <3>2. pc[t] \in Mutations
      <4>. queue \in Seq(Ops)
        BY DEF TypeInv, TypeOK, StoreOK
      <4>. QED
        BY <2>2, EmptySeq, LenProperties DEF AtHead, RecordInv, QueueFits
    <3>3. t \in Cancels =>
            Underway(t) /\ AfterError(t) \in {"unwinding", "restoring"}
      BY <3>2 DEF Flagged, AfterError, Underway, InProgress
    <3>. QED
      BY <3>1, <3>3, FlaggedMove DEF Mutations
  <2>3. ASSUME NEW t \in Ops, StoreEvaluates(t) PROVE Flagged'
    BY <2>3 DEF StoreEvaluates, service, Flagged, Underway, InProgress
  <2>. QED
    BY <1>7, <2>1, <2>2, <2>3 DEF StoreStep, StoreRejects, StoreWriteFails
<1>8. CASE Crash
  <2>1. \A t \in Ops : pc'[t] \in Answered \cup {"idle"}
    BY <1>8 DEF Crash, Answered
  <2>2. \A s \in Answered \cup {"idle"} :
          /\ s \notin Mutations
          /\ s \notin {"killing", "draining", "awaitAdmissions", "awaitRun",
                        "settingStopped", "archiving", "removing", "restoring",
                        "unwinding", "returning"}
    BY DEF Answered, Mutations
  <2>. QED
    BY <2>1, <2>2, OpsFacts DEF Flagged, Underway, InProgress
<1>9. CASE Initialize \/ UNCHANGED vars
  BY <1>9 DEF Initialize, vars, service, control, Flagged, Underway, InProgress
<1>. QED
  BY <1>3, <1>4, <1>5, <1>6, <1>7, <1>8, <1>9 DEF Next, Rest

LEMMA InitFlagged == Init => Flagged
<1>1. \A t \in Cancels : Init => pc[t] = "idle"
  BY OpsFacts DEF Init
<1>. QED
  BY <1>1 DEF Flagged, Underway, InProgress, Mutations

\* Nothing is handed to the Runner for an Agent that is being stopped or deleted,
\* not even what was being admitted when the request came: from its first step
\* to the last, in every instance and across crashes and failed writes, unless
\* a stop overlaps another stop or a delete of the same Agent.
THEOREM CancelsAreNotOvertaken == Spec /\ []StopsAlone => NoHandoffDuringCancel
<1>. DEFINE Refrains ==
       \A r \in Runs : HandedOff(r) =>
         \A t \in Cancels : AgentOf[t] = AgentOf[r] => ~InProgress(t)
<1>1. TypeInv /\ Flagged /\ [Next]_vars => [Refrains]_vars
  <2>. SUFFICES ASSUME TypeInv, Flagged, [Next]_vars, NEW r \in Runs, HandedOff(r)
                PROVE  \A t \in Cancels : AgentOf[t] = AgentOf[r] => ~InProgress(t)
    OBVIOUS
  <2>1. PICK u \in Runs : Handoff(u)
    BY OnlyHandoff DEF HandedOff
  <2>2. u = r /\ ~Cancelled(r)
    BY <2>1 DEF Handoff, HandedOff
  <2>. QED
    BY <2>2 DEF Flagged, Underway, Cancelled
<1>2. Spec /\ []StopsAlone => []Flagged
  BY InitFlagged, FlaggedInductive, TypeInvCorrect, RecordInvCorrect, PTL DEF Spec
<1>. QED
  BY <1>1, <1>2, TypeInvCorrect, PTL DEF Spec, NoHandoffDuringCancel

-----------------------------------------------------------------------------
(* Between the drain of a stop or delete and its answer *)

QuietSteps == {"settingStopped", "archiving", "removing", "restoring", "returning"}

\* Nothing of a is executing, and what asks to be admitted has not been looked
\* at: it will find the flag.
Silent(a) ==
  /\ active[a] = None
  /\ \A r \in Runs :
       AgentOf[r] = a => /\ pc[r] # "launching"
                         /\ ~(pc[r] = "admitting" /\ writing /\ AtHead(r))

Quiet == \A c \in Cancels : pc[c] \in QuietSteps => Silent(AgentOf[c])

\* What a step does to the mutation that is being written.
KeepsWritten(t) ==
  \/ ~writing'
  \/ writing' = writing /\ pc[t] \notin Mutations /\ queue' \in {queue, Append(queue, t)}

LEMMA QuietMove ==
  ASSUME TypeInv, RecordInv, DrainInv, Quiet, NEW t \in Ops, NEW s, Goto(t, s),
         KeepsWritten(t),
         \/ UNCHANGED active
         \/ t \in Runs /\ pc[t] = "launching"
            /\ active' = [active EXCEPT ![AgentOf[t]] = t]
         \/ active' = [active EXCEPT ![AgentOf[t]] = IF @ = t THEN None ELSE @],
         t \in Runs /\ s = "launching" => pc[t] = "admitting" /\ writing /\ AtHead(t),
         t \in Cancels /\ s \in QuietSteps =>
           \/ pc[t] \in QuietSteps
           \/ active[AgentOf[t]] = None /\ pending[AgentOf[t]] = {}
  PROVE  Quiet'
<1>1. pc'[t] = s /\ \A u \in Ops : u # t => pc'[u] = pc[u]
  BY DEF Goto, TypeInv, TypeOK, StepsOK
<1>2. active \in [Agents -> Runs \cup {None}] /\ Runs \subseteq Ops /\ Cancels \subseteq Ops
      /\ \A u \in Ops : AgentOf[u] \in Agents
  BY OpsFacts, AgentOfOps DEF TypeInv, TypeOK, ServiceOK
<1>3. \A u \in Ops : writing' /\ AtHead(u)' => writing /\ AtHead(u) /\ pc'[u] = pc[u]
  <2>. SUFFICES ASSUME NEW u \in Ops, writing', AtHead(u)'
                PROVE  writing /\ AtHead(u) /\ pc'[u] = pc[u]
    OBVIOUS
  <2>. queue \in Seq(Ops)
    BY DEF TypeInv, TypeOK, StoreOK
  <2>1. writing /\ pc[t] \notin Mutations /\ queue' \in {queue, Append(queue, t)}
    BY DEF KeepsWritten
  <2>2. queue # <<>>
    BY <2>1 DEF RecordInv, EvaluatedFits
  <2>3. AtHead(u)
    BY <2>1, <2>2, AppendFacts DEF AtHead
  <2>4. pc[u] \in Mutations
    BY <2>2, <2>3, EmptySeq, LenProperties DEF AtHead, RecordInv, QueueFits
  <2>. QED
    BY <1>1, <2>1, <2>3, <2>4
<1>4. SUFFICES ASSUME NEW c \in Cancels, pc'[c] \in QuietSteps PROVE Silent(AgentOf[c])'
  BY DEF Quiet
<1>. DEFINE a == AgentOf[c]
<1>5. Silent(a)
  <2>1. CASE pc[c] \in QuietSteps
    BY <2>1 DEF Quiet
  <2>2. CASE pc[c] \notin QuietSteps
    <3>1. c = t
      BY <1>1, <1>2, <1>4, <2>2
    <3>2. active[a] = None /\ pending[a] = {}
      BY <1>1, <1>4, <2>2, <3>1
    <3>. QED
      BY <3>2 DEF Silent, DrainInv, Pended
  <2>. QED
    BY <2>1, <2>2
<1>6. active'[a] = None
  BY <1>2, <1>5, OperationsDisjoint DEF Silent
<1>7. ASSUME NEW r \in Runs, AgentOf[r] = a
      PROVE  pc'[r] # "launching" /\ ~(pc'[r] = "admitting" /\ writing' /\ AtHead(r)')
  <2>1. pc[r] # "launching" /\ ~(pc[r] = "admitting" /\ writing /\ AtHead(r))
    BY <1>5, <1>7 DEF Silent
  <2>2. pc'[r] # "launching"
    BY <1>1, <1>2, <2>1
  <2>. QED
    BY <1>2, <1>3, <2>1, <2>2
<1>. QED
  BY <1>6, <1>7 DEF Silent

\* A step that starts nothing.
LEMMA QuietPass ==
  ASSUME TypeInv, RecordInv, DrainInv, Quiet, NEW t \in Ops, NEW s, Goto(t, s),
         pc[t] \notin Mutations, UNCHANGED <<active, writing>>,
         queue' \in {queue, Append(queue, t)}, s # "launching",
         t \in Cancels /\ s \in QuietSteps =>
           \/ pc[t] \in QuietSteps
           \/ active[AgentOf[t]] = None /\ pending[AgentOf[t]] = {}
  PROVE  Quiet'
  BY QuietMove DEF KeepsWritten

\* What a drained stop or delete found stays true until it answers: an admission
\* that asks later is refused, because the flag is up.
LEMMA QuietInductive ==
  TypeInv /\ RecordInv /\ DrainInv /\ Flagged /\ Quiet /\ [Next]_vars => Quiet'
<1>. SUFFICES ASSUME TypeInv, RecordInv, DrainInv, Flagged, Quiet, [Next]_vars
              PROVE  Quiet'
  OBVIOUS
<1>0. Runs \cap Cancels = {} /\ Cancels \cap (Starts \cup Grants \cup Revokes) = {}
  BY OperationsDisjoint
<1>1. ASSUME NEW t \in Cancels,
             \/ Cancel(t)
             \/ t \in Stops /\ BeginStop(t)
             \/ t \in Deletes /\ (BeginDelete(t) \/ DeleteFiles(t))
      PROVE  Quiet'
  <2>1. UNCHANGED <<active, writing>> /\ pc[t] \notin Mutations
    BY <1>1 DEF Cancel, RunnerCancelled, Drain, AdmissionsReleased, ExecutionSettled,
                ReadExecution, Proceed, BeginStop, BeginDelete, Begin, DeleteFiles,
                DeleteUnderLock, Archive, Restore, Submit, store, service, Mutations
  <2>2. ASSUME ReadExecution(t)
        PROVE  \E s : /\ Goto(t, s) /\ s # "launching" /\ queue' \in {queue, Append(queue, t)}
                      /\ s \in QuietSteps =>
                           active[AgentOf[t]] = None /\ pending[AgentOf[t]] = {}
    BY <2>2 DEF ReadExecution, Proceed, Outstanding, Submit, store, QuietSteps
  <2>3. \E s : /\ Goto(t, s) /\ s # "launching" /\ queue' \in {queue, Append(queue, t)}
               /\ s \in QuietSteps =>
                    \/ pc[t] \in QuietSteps
                    \/ active[AgentOf[t]] = None /\ pending[AgentOf[t]] = {}
    <3>1. CASE Cancel(t)
      BY <2>2, <3>1 DEF Cancel, RunnerCancelled, Drain, AdmissionsReleased,
                        ExecutionSettled, store, QuietSteps
    <3>2. CASE BeginStop(t) \/ BeginDelete(t) \/ DeleteUnderLock(t)
      BY <3>2 DEF BeginStop, BeginDelete, DeleteUnderLock, RequestCancel, JoinLock,
                  store, QuietSteps
    <3>3. CASE Archive(t) \/ Restore(t)
      BY <3>3 DEF Archive, Restore, Submit, store, QuietSteps
    <3>. QED
      BY <1>1, <3>1, <3>2, <3>3 DEF DeleteFiles
  <2>. QED
    BY <2>1, <2>3, QuietPass, OpsFacts
<1>2. ASSUME NEW t \in Ops, t \notin Cancels, pc[t] \notin Mutations,
             UNCHANGED <<active, writing>>, queue' \in {queue, Append(queue, t)},
             NEW s, Goto(t, s), s # "launching"
      PROVE  Quiet'
  BY <1>2, QuietPass
<1>3. CASE Request
  <2>1. ASSUME NEW t \in Runs \cup Starts \cup Grants \cup Revokes,
               \/ SendRefused(t) \/ SendBaseline(t) \/ SendCapsule(t)
               \/ BeginStart(t) \/ BeginGrant(t) \/ BeginRevoke(t)
        PROVE  Quiet'
    <3>1. /\ UNCHANGED <<active, writing>> /\ queue' \in {queue, Append(queue, t)}
          /\ pc[t] = "idle"
          /\ \E s : Goto(t, s) /\ s # "launching"
      BY <2>1 DEF SendRefused, SendBaseline, SendCapsule, BeginStart, BeginGrant,
                  BeginRevoke, Begin, JoinLock, Submit, service, store
    <3>2. pc[t] \notin Mutations
      BY <3>1 DEF Mutations
    <3>. QED
      BY <1>0, <1>2, <3>1, <3>2, OpsFacts
  <2>. QED
    BY <1>1, <1>3, <2>1, OpsFacts DEF Request
<1>4. ASSUME NEW r \in Runs, Admit(r) PROVE Quiet'
  <2>1. CASE Launch(r)
    <3>1. /\ Goto(r, "marking") /\ pc[r] = "launching" /\ UNCHANGED writing
          /\ queue' = Append(queue, r) /\ active' = [active EXCEPT ![AgentOf[r]] = r]
      BY <2>1 DEF Launch, Submit
    <3>2. KeepsWritten(r)
      BY <3>1 DEF KeepsWritten, Mutations
    <3>. QED
      BY <1>0, <3>1, <3>2, QuietMove, OpsFacts
  <2>2. CASE ~Launch(r)
    <3>1. /\ UNCHANGED <<active, writing>> /\ queue' \in {queue, Append(queue, r)}
          /\ pc[r] \notin Mutations
          /\ \E s : Goto(r, s) /\ s # "launching"
      BY <1>4, <2>2 DEF Admit, BeginValidation, PlanRefused, PlanCompiled, LateNotFound,
                  RequestAdmission, RequestDenial, JoinLock, Submit, service, store,
                  Mutations
    <3>. QED
      BY <1>0, <1>2, <3>1, OpsFacts
  <2>. QED
    BY <2>1, <2>2
<1>5. ASSUME NEW r \in Runs, Execute(r) PROVE Quiet'
  <2>1. CASE Finish(r)
    <3>1. /\ UNCHANGED <<writing, queue>> /\ pc[r] \in {"resolved", "rejected"}
          /\ active' = [active EXCEPT ![AgentOf[r]] = IF @ = r THEN None ELSE @]
          /\ \E s : Goto(r, s) /\ s # "launching"
      BY <2>1 DEF Finish, Forget, store
    <3>2. KeepsWritten(r)
      BY <3>1 DEF KeepsWritten, Mutations
    <3>. QED
      BY <1>0, <3>1, <3>2, QuietMove, OpsFacts
  <2>2. CASE ~Finish(r)
    <3>1. /\ UNCHANGED <<active, writing>> /\ queue' \in {queue, Append(queue, r)}
          /\ pc[r] \notin Mutations
      BY <1>5, <2>2
         DEF Execute, CancelAfterMark, PrepareHome, PrepareHomeAborted, HomePrepared,
             RecheckAfterEvidence, DeriveAborted, WithdrawBeforeHandoff, Handoff,
             RunnerExits, Catch, Submit, service, store, Mutations
    <3>2. \E s : Goto(r, s) /\ s # "launching"
      BY <1>5, <2>2
         DEF Execute, CancelAfterMark, PrepareHome, PrepareHomeAborted, HomePrepared,
             RecheckAfterEvidence, DeriveAborted, WithdrawBeforeHandoff, Handoff,
             RunnerExits, Catch, Throw, Submit
    <3>. QED
      BY <1>0, <1>2, <3>1, <3>2, OpsFacts
  <2>. QED
    BY <2>1, <2>2
<1>6. ASSUME NEW t \in Runs \cup Cancels, Unwind(t) PROVE Quiet'
  <2>1. /\ UNCHANGED <<active, writing, queue>> /\ pc[t] \notin Mutations
        /\ \E s \in {"refused", "done"} : Goto(t, s)
    BY <1>6 DEF Unwind, store, Mutations
  <2>. QED
    BY <2>1, QuietPass, OpsFacts DEF QuietSteps
<1>7. ASSUME NEW t \in Ops, NEW m \in Mutations, NEW s, Publish(t, m, s),
             s = "launching" => m = "admitting",
             t \in Cancels /\ s \in QuietSteps => m \in QuietSteps
      PROVE  Quiet'
  <2>1. /\ Goto(t, s) /\ UNCHANGED active /\ AtHead(t) /\ writing /\ pc[t] = m
        /\ KeepsWritten(t)
    BY <1>7 DEF Publish, service, KeepsWritten
  <2>. QED
    BY <1>7, <2>1, QuietMove
<1>8. CASE CommitOp
  <2>1. ASSUME NEW r \in Runs, CommitRun(r) PROVE Quiet'
    <3>1. \E m \in Mutations : \E s : Publish(r, m, s) /\ (s = "launching" => m = "admitting")
      <4>1. CASE CommitAdmission(r)
        BY <4>1 DEF CommitAdmission, Mutations
      <4>2. CASE CommitRun(r) /\ ~CommitAdmission(r)
        <5>. DEFINE After == {"returning", "marked", "caught", "evidenced", "resolved"}
        <5>1. \E m \in Mutations : \E s \in After : Publish(r, m, s)
          BY <4>2 DEF CommitRun, CommitDenial, CommitMark, CommitEvidence,
                      CommitRetraction, CommitLateDenial, AfterLateDenial,
                      CommitPreRunnerFailure, CommitFailure, CommitCompletion, Mutations
        <5>. QED
          BY <5>1
      <4>. QED
        BY <2>1, <4>1, <4>2
    <3>. QED
      BY <1>0, <1>7, <3>1, OpsFacts
  <2>2. ASSUME NEW t \in Starts \cup Grants \cup Revokes,
               CommitReady(t) \/ CommitGrant(t) \/ CommitRevoke(t)
        PROVE  Quiet'
    <3>1. \E m \in Mutations : Publish(t, m, "done")
      BY <2>2 DEF CommitReady, CommitGrant, CommitRevoke, Mutations
    <3>. QED
      BY <1>0, <1>7, <3>1, OpsFacts
  <2>3. ASSUME NEW t \in Cancels, CommitStopped(t) \/ CommitRemoval(t) PROVE Quiet'
    <3>1. \E m \in Mutations \cap QuietSteps : Publish(t, m, "returning")
      BY <2>3 DEF CommitStopped, CommitRemoval, Mutations, QuietSteps
    <3>. QED
      BY <1>7, <3>1, OpsFacts
  <2>. QED
    BY <1>8, <2>1, <2>2, <2>3, OpsFacts DEF CommitOp
<1>9. ASSUME NEW t \in Ops, AtHead(t), MutationFails(t) PROVE Quiet'
  <2>1. /\ UNCHANGED active /\ Goto(t, AfterError(t)) /\ KeepsWritten(t)
    BY <1>9 DEF MutationFails, service, KeepsWritten
  <2>2. pc[t] \in Mutations
    <3>. queue \in Seq(Ops)
      BY DEF TypeInv, TypeOK, StoreOK
    <3>. QED
      BY <1>9, EmptySeq, LenProperties DEF AtHead, RecordInv, QueueFits
  <2>3. /\ AfterError(t) # "launching"
        /\ t \in Cancels => pc[t] \in QuietSteps
    BY <2>2 DEF AfterError, Flagged, QuietSteps
  <2>. QED
    BY <2>1, <2>3, QuietMove
<1>10. ASSUME NEW t \in Ops, StoreEvaluates(t) PROVE Quiet'
  <2>. SUFFICES ASSUME NEW c \in Cancels, pc[c] \in QuietSteps PROVE Silent(AgentOf[c])'
    BY <1>10 DEF StoreEvaluates, Quiet
  <2>1. Silent(AgentOf[c]) /\ AgentOf[c] \in cancelling
    BY DEF Quiet, Flagged, Underway, InProgress, QuietSteps
  <2>2. /\ UNCHANGED <<active, pc, queue>> /\ AtHead(t)
        /\ ~(pc[t] = "admitting" /\ Cancelled(t))
    BY <1>10 DEF StoreEvaluates, service, Rejects, Unavailable
  <2>3. \A u \in Ops : AtHead(u)' => u = t
    BY <2>2 DEF AtHead
  <2>. QED
    BY <2>1, <2>2, <2>3, OpsFacts DEF Silent, Cancelled
<1>11. CASE Crash
  <2>1. \A t \in Ops : pc'[t] \in Answered \cup {"idle"}
    BY <1>11 DEF Crash, Answered
  <2>. QED
    BY <2>1, OpsFacts DEF Quiet, QuietSteps, Answered
<1>12. CASE Initialize \/ UNCHANGED vars
  BY <1>12 DEF Initialize, vars, store, service, control, Quiet, Silent, AtHead
<1>. QED
  BY <1>1, <1>3, <1>4, <1>5, <1>6, <1>8, <1>9, <1>10, <1>11, <1>12, OpsFacts
     DEF Next, Rest, StoreStep, StoreRejects, StoreWriteFails

LEMMA InitQuiet == Init => Quiet
<1>1. \A t \in Cancels : Init => pc[t] = "idle"
  BY OpsFacts DEF Init
<1>. QED
  BY <1>1 DEF Quiet, QuietSteps

NothingRuns ==
  \A t \in Cancels :
    pc[t] \in QuietSteps => active[AgentOf[t]] = None /\ runner[AgentOf[t]] = None

\* Between the drain of a stop or delete and its answer no execution of the Agent
\* is registered and no Codex process of it lives, and as long as every write of
\* the database has succeeded no Run of it is on record as queued or running; in
\* every instance and across crashes, unless a stop overlaps another stop or a
\* delete of the same Agent.
THEOREM DrainsLeaveQuiet ==
  Spec /\ []StopsAlone =>
    [](NothingRuns /\ (faults = 0 => QuietAfterDrain))
<1>1. DrainInv /\ Manned /\ Quiet => NothingRuns
  <2>. SUFFICES ASSUME DrainInv, Manned, Quiet, NEW t \in Cancels, pc[t] \in QuietSteps,
                       runner[AgentOf[t]] # None
                PROVE  FALSE
    BY DEF NothingRuns, Quiet, Silent
  <2>. DEFINE r == runner[AgentOf[t]]
  <2>1. r \in Runs /\ AgentOf[r] = AgentOf[t] /\ pc[r] = "inRunner"
    BY OpsFacts, AgentOfOps DEF Manned
  <2>2. active[AgentOf[t]] = r
    BY <2>1 DEF DrainInv, Held, ExecSteps
  <2>3. active[AgentOf[t]] = None
    BY DEF Quiet, Silent
  <2>. QED
    BY <2>1, <2>2, <2>3
<1>2. OpenInv /\ DrainInv /\ LiveInv /\ Quiet /\ NothingRuns
        => (faults = 0 => QuietAfterDrain)
  <2>. SUFFICES ASSUME OpenInv, DrainInv, LiveInv, Quiet, NothingRuns, faults = 0,
                       NEW t \in Cancels, pc[t] \in QuietSteps,
                       NEW r \in RunsOf(AgentOf[t]), run[r] \in Running
                PROVE  FALSE
    BY DEF NothingRuns, QuietAfterDrain, QuietSteps
  <2>1. up
    BY OpsFacts DEF OpenInv, DownAtRest, Resting, Answered, QuietSteps
  <2>2. r \in Runs /\ AgentOf[r] = AgentOf[t] /\ pc[r] \in ExecSteps
    BY <2>1 DEF LiveInv, RunsOf
  <2>3. active[AgentOf[t]] = None /\ pc[r] # "launching"
    BY <2>2 DEF Quiet, Silent
  <2>4. active[AgentOf[t]] = r
    BY <2>2, <2>3 DEF DrainInv, Held
  <2>. QED
    BY <2>2, <2>3, <2>4, ConstantsAssumption
<1>3. Spec /\ []StopsAlone => []Quiet
  BY InitFlagged, FlaggedInductive, InitQuiet, QuietInductive, TypeInvCorrect,
     RecordInvCorrect, DrainInvCorrect, PTL DEF Spec
<1>. QED
  BY <1>1, <1>2, <1>3, OpenInvCorrect, DrainInvCorrect, MannedCorrect, LiveInvCorrect,
     PTL
=============================================================================
