---------------------------- MODULE RunLifecycle ----------------------------
(***************************************************************************)
(* The life of a Run inside one ScopedRun server process: how AgentService *)
(* admits, authorizes, executes, cancels and finalizes Runs while clients  *)
(* stop, start and delete Agents and grant and revoke Entitlements.        *)
(*                                                                         *)
(* Every client request is a thread of control ("operation") that runs     *)
(* once.  A step of an operation is the code between two awaits: the       *)
(* server is a single JavaScript process, so nothing interleaves inside    *)
(* a step and anything may interleave between two steps.  What an          *)
(* operation asks for (which Agent, on whose behalf, which Resource) is a  *)
(* constant; when it asks is left open.                                    *)
(***************************************************************************)
EXTENDS Naturals, Sequences

CONSTANTS
  Agents, Principals, Resources,
  Owner,          \* the Principal that owns each Agent
  Registered,     \* the Resources of the server's Registry
  GrantPolicy,    \* the <<Principal, Resource>> pairs that may be granted
  InitialGrants,  \* the pairs whose first Entitlement is already active
  Runs,           \* requests to send a message; each one may become a Run
  Stops, Deletes, Starts, Grants, Revokes,  \* the other requests
  AgentOf, PrincipalOf, ResourceOf,         \* what each request names
  None,           \* no Resource, no Run
  CapsuleRuntime, \* per life of the process: a container Runner is configured
  MaxFaults,      \* bound: failed writes of the database file
  MaxCrashes      \* bound: deaths of the server process

Cancels == Stops \cup Deletes
Ops == Runs \cup Cancels \cup Starts \cup Grants \cup Revokes
Entitlements == Principals \X Resources

ASSUME ConstantsAssumption ==
  /\ Owner \in [Agents -> Principals]
  /\ Registered \subseteq Resources
  /\ GrantPolicy \subseteq Entitlements
  /\ InitialGrants \subseteq Entitlements
  /\ AgentOf \in [Ops -> Agents]
  /\ PrincipalOf \in [Ops -> Principals]
  /\ ResourceOf \in [Ops -> Resources \cup {None}]
  /\ \A t \in Grants \cup Revokes : ResourceOf[t] # None
  /\ None \notin Resources \cup Runs
  /\ MaxFaults \in Nat
  /\ MaxCrashes \in Nat
  /\ CapsuleRuntime \in [0 .. MaxCrashes -> BOOLEAN]

ASSUME OperationsDisjoint ==
  /\ Runs \cap (Cancels \cup Starts \cup Grants \cup Revokes) = {}
  /\ Cancels \cap (Starts \cup Grants \cup Revokes) = {}
  /\ Stops \cap Deletes = {}
  /\ Starts \cap (Grants \cup Revokes) = {}
  /\ Grants \cap Revokes = {}

VARIABLES
  \* the database: what the last published commit of the JSON store holds
  agent,      \* status of each Agent, "absent" once deleted
  run,        \* status of each Run record, "none" while there is no record
  receipt,    \* Decision Receipt of each Run
  ent,        \* current Entitlement of each <<Principal, Resource>> pair
  archived,   \* Agents whose workspace directory has been archived
  \* JsonStore
  queue,      \* operations whose mutation is queued, oldest first
  writing,    \* the oldest mutation has been evaluated and is being written
  \* AgentService and its Runner
  cancelling, \* cancellationRequests
  pending,    \* pendingAdmissions of each Agent
  active,     \* activeExecutions of each Agent
  lock,       \* agentFileOperations: holder and waiters of each Agent
  runner,     \* the Run whose Codex process is alive for each Agent
  killed,     \* the Runs whose Codex process has been told to die
  \* local state of the operations
  pc,         \* the await at which the operation is suspended
  gen,        \* Entitlement generation the request was authorized with
  verdict,    \* denial reason, or outcome the catch clause will publish
  attempted,  \* Runs that were handed to the Runner (runnerAttempted)
  waitFor,    \* the Runs a cancellation is waiting for
  \* the environment
  up, faults, crashes

database == <<agent, run, receipt, ent>>
store == <<queue, writing>>
service == <<cancelling, pending, active, lock>>
process == <<runner, killed, attempted>>
control == <<pc, gen, verdict, waitFor>>
environment == <<archived, up, faults, crashes>>
steady == <<database, gen, waitFor, environment>>
vars == <<database, store, service, process, control, environment>>

Running == {"queued", "running"}
Terminal == {"completed", "failed", "cancelled", "denied"}
AgentStatus == {"absent", "ready", "busy", "stopped", "error"}
DenialReasons ==
  {"unknown_resource", "entitlement_missing", "entitlement_revoked",
   "stale_entitlement_generation", "invalid_resource_path",
   "runtime_profile_unsupported"}

\* What each queued mutation is about to write.
Mutations ==
  {"denying", "admitting", "marking", "evidencing", "retracting",
   "lateDenying", "lateRetrying", "prefailing", "failing", "completing",
   "settingStopped", "removing", "settingReady", "granting", "revoking"}

\* Where a request has been answered, or died with its process.
Answered == {"done", "refused", "broken", "lost"}

Steps ==
  Mutations \cup Answered \cup
  {"idle", "authorized", "validating", "awaitAdmit", "awaitDeny", "launching",
   "marked", "preparing", "evidenced", "deriving", "inRunner", "caught",
   "resolved", "rejected", "returning", "unwinding",
   "awaitDelete", "killing", "draining", "awaitAdmissions", "awaitRun",
   "archiving", "restoring"}

NoReceipt ==
  [decision |-> "none", reason |-> "none", gen |-> 0, started |-> FALSE]

-----------------------------------------------------------------------------
(* Reading the state *)

Capsule(r) == ResourceOf[r] # None
PairOf(t) == <<PrincipalOf[t], ResourceOf[t]>>

\* getAgent: a missing Agent and another Principal's Agent both read as 404.
Visible(t) ==
  /\ agent[AgentOf[t]] # "absent"
  /\ Owner[AgentOf[t]] = PrincipalOf[t]

\* Mutant of Current: a revocation that leaves the generation is missed.
CurrentByGeneration(r) == ent[PairOf(r)].gen = gen[r]

\* currentCapsuleEntitlement and the two checks of compileMountPlan.
Current(r) ==
  /\ ent[PairOf(r)].active
  /\ ent[PairOf(r)].gen = gen[r]

Cancelled(t) == AgentOf[t] \in cancelling

\* Mutant of HoldsLock: a file operation does not wait for the previous one.
HoldsLockAtOnce(t) == TRUE

HoldsLock(t) == lock[AgentOf[t]] # <<>> /\ Head(lock[AgentOf[t]]) = t

-----------------------------------------------------------------------------
(* Moving an operation *)

Goto(t, step) == pc' = [pc EXCEPT ![t] = step]

\* Call store.mutate and await it.
Submit(t, mutation) ==
  /\ Goto(t, mutation)
  /\ queue' = Append(queue, t)
  /\ UNCHANGED writing

\* Call withAgentFileOperation and await the previous file operation.
JoinLock(t, step) ==
  /\ Goto(t, step)
  /\ lock' = [lock EXCEPT ![AgentOf[t]] = Append(@, t)]

\* Mutant of ReleaseLock: release() is never called.
ReleaseLockNever(t) == UNCHANGED lock

ReleaseLock(t) == lock' = [lock EXCEPT ![AgentOf[t]] = Tail(@)]

\* Throw inside executeRun's try block.
Throw(r, outcome) ==
  /\ Goto(r, "caught")
  /\ verdict' = [verdict EXCEPT ![r] = outcome]

Begin(t) == up /\ pc[t] = "idle"

-----------------------------------------------------------------------------
(* sendMessage: from the request to the Agent's file lock *)

\* authorizeResources, as the reason it returns.
Authorization(r) ==
  IF ResourceOf[r] \notin Registered THEN "unknown_resource"
  ELSE IF ent[PairOf(r)].gen = 0     THEN "entitlement_missing"
  ELSE IF ~ent[PairOf(r)].active     THEN "entitlement_revoked"
  ELSE "allowed"

\* grantGeneration of the decision: null (0) when no Entitlement was read.
DecisionGeneration(r) ==
  IF Authorization(r) \in {"entitlement_revoked", "allowed"}
  THEN ent[PairOf(r)].gen ELSE 0

SendRefused(r) ==
  /\ Begin(r)
  /\ \/ ~Visible(r)
     \/ Capsule(r) /\ agent[AgentOf[r]] \in {"stopped", "busy"}
  /\ Goto(r, "refused")
  /\ UNCHANGED <<steady, store, service, process, verdict>>

SendBaseline(r) ==
  /\ Begin(r) /\ Visible(r) /\ ~Capsule(r)
  /\ JoinLock(r, "awaitAdmit")
  /\ UNCHANGED <<steady, store, process, cancelling, pending, active, verdict>>

SendCapsule(r) ==
  /\ Begin(r) /\ Visible(r) /\ Capsule(r)
  /\ agent[AgentOf[r]] \notin {"stopped", "busy"}
  /\ gen' = [gen EXCEPT ![r] = DecisionGeneration(r)]
  /\ \/ /\ Authorization(r) = "allowed"
        /\ Goto(r, "authorized")
        /\ UNCHANGED <<lock, verdict>>
     \/ /\ Authorization(r) # "allowed"
        /\ verdict' = [verdict EXCEPT ![r] = Authorization(r)]
        /\ JoinLock(r, "awaitDeny")
  /\ UNCHANGED <<database, store, process, environment, cancelling, pending,
                 active, waitFor>>

\* runtimeProvider is "container" and the Runner supports mount plans; both
\* are read once, when the process starts.
RunnerTakesPlans == CapsuleRuntime[crashes]

\* admitCapsuleRun and compileMountPlan up to the awaited path validation.
BeginValidation(r) ==
  /\ pc[r] = "authorized" /\ RunnerTakesPlans /\ Current(r)
  /\ Goto(r, "validating")
  /\ UNCHANGED <<steady, store, service, process, verdict>>

\* The checks on the way to a mount plan that r can fail where it is.
PlanFails(r, why) ==
  \/ /\ pc[r] = "authorized" /\ ~RunnerTakesPlans
     /\ why = "runtime_profile_unsupported"
  \/ /\ pc[r] = "authorized" => RunnerTakesPlans
     /\ ~Current(r)
     /\ why = "stale_entitlement_generation"
  \/ /\ pc[r] = "validating"
     /\ why = "invalid_resource_path"

PlanRefused(r) ==
  /\ pc[r] \in {"authorized", "validating"}
  /\ \E why \in DenialReasons :
       /\ PlanFails(r, why)
       /\ verdict' = [verdict EXCEPT ![r] = why]
  /\ JoinLock(r, "awaitDeny")
  /\ UNCHANGED <<steady, store, process, cancelling, pending, active>>

PlanCompiled(r) ==
  /\ pc[r] = "validating" /\ Current(r)
  /\ JoinLock(r, "awaitAdmit")
  /\ UNCHANGED <<steady, store, process, cancelling, pending, active, verdict>>

-----------------------------------------------------------------------------
(* sendMessage: under the file lock *)

\* The request reached the head of the lock and its Agent is gone.
LateNotFound(r) ==
  /\ pc[r] \in {"awaitAdmit", "awaitDeny"} /\ HoldsLock(r) /\ ~Visible(r)
  /\ Goto(r, "refused")
  /\ ReleaseLock(r)
  /\ UNCHANGED <<steady, store, process, cancelling, pending, active, verdict>>

\* registerPendingAdmission, then admitRun's mutation.
RequestAdmission(r) ==
  /\ pc[r] = "awaitAdmit" /\ HoldsLock(r) /\ Visible(r)
  /\ pending' = [pending EXCEPT ![AgentOf[r]] = @ \cup {r}]
  /\ Submit(r, "admitting")
  /\ UNCHANGED <<steady, process, cancelling, active, lock, verdict>>

RequestDenial(r) ==
  /\ pc[r] = "awaitDeny" /\ HoldsLock(r) /\ Visible(r)
  /\ Submit(r, "denying")
  /\ UNCHANGED <<steady, service, process, verdict>>

\* The admission commit is published: beginExecution registers the execution,
\* whose first act is to queue the mutation that marks the Run running; only
\* then are the pending admission and the lock released.
Launch(r) ==
  /\ pc[r] = "launching"
  /\ active' = [active EXCEPT ![AgentOf[r]] = r]
  /\ pending' = [pending EXCEPT ![AgentOf[r]] = @ \ {r}]
  /\ ReleaseLock(r)
  /\ Submit(r, "marking")
  /\ UNCHANGED <<steady, process, cancelling, verdict>>

-----------------------------------------------------------------------------
(* executeRun: from the running mark to the Runner *)

CancelAfterMark(r) ==
  /\ pc[r] = "marked" /\ Cancelled(r)
  /\ Throw(r, "cancelled")
  /\ UNCHANGED <<steady, store, service, process>>

PrepareHome(r) ==
  /\ pc[r] = "marked" /\ ~Cancelled(r)
  /\ Goto(r, "preparing")
  /\ UNCHANGED <<steady, store, service, process, verdict>>

\* prepareAgentCodexHome failed, or a cancellation arrived while it ran.
PrepareHomeAborted(r) ==
  /\ pc[r] = "preparing"
  /\ \/ Throw(r, "failed")
     \/ Cancelled(r) /\ Throw(r, "cancelled")
  /\ UNCHANGED <<steady, store, service, process>>

HomePrepared(r) ==
  /\ pc[r] = "preparing" /\ ~Cancelled(r)
  /\ \/ ~Capsule(r) /\ Goto(r, "deriving") /\ UNCHANGED store
     \/ Capsule(r) /\ Current(r) /\ Submit(r, "evidencing")
     \/ Capsule(r) /\ ~Current(r) /\ Submit(r, "lateDenying")
  /\ UNCHANGED <<steady, service, process, verdict>>

\* The checks that follow the awaited runnerStarted:true write.
RecheckAfterEvidence(r) ==
  /\ pc[r] = "evidenced"
  /\ \/ Cancelled(r) /\ Submit(r, "retracting")
     \/ ~Cancelled(r) /\ ~Current(r) /\ Submit(r, "lateDenying")
     \/ ~Cancelled(r) /\ Current(r) /\ Goto(r, "deriving") /\ UNCHANGED store
  /\ UNCHANGED <<steady, service, process, verdict>>

\* runtimeWorkspacePath failed, or a baseline Run was cancelled meanwhile.
DeriveAborted(r) ==
  /\ pc[r] = "deriving"
  /\ \/ Throw(r, "failed")
     \/ Cancelled(r) /\ ~Capsule(r) /\ Throw(r, "cancelled")
  /\ UNCHANGED <<steady, store, service, process>>

WithdrawBeforeHandoff(r) ==
  /\ pc[r] = "deriving" /\ Capsule(r) /\ AgentOf[r] \notin archived
  /\ \/ Cancelled(r) /\ Submit(r, "retracting")
     \/ ~Cancelled(r) /\ ~Current(r) /\ Submit(r, "lateDenying")
  /\ UNCHANGED <<steady, service, process, verdict>>

\* The last checks pass, and run() is called with nothing in between.  It
\* throws if the Runner still has a process for the Agent.
Handoff(r) ==
  /\ pc[r] = "deriving" /\ AgentOf[r] \notin archived
  /\ ~Cancelled(r)
  /\ Capsule(r) => Current(r)
  /\ attempted' = attempted \cup {r}
  /\ \/ /\ runner[AgentOf[r]] = None
        /\ runner' = [runner EXCEPT ![AgentOf[r]] = r]
        /\ Goto(r, "inRunner")
        /\ UNCHANGED verdict
     \/ /\ runner[AgentOf[r]] # None
        /\ Throw(r, "failed")
        /\ UNCHANGED runner
  /\ UNCHANGED <<steady, store, service, killed>>

\* The Codex process ends; run() returns, or throws RunCancelledError or an
\* error.
RunnerExits(r) ==
  /\ pc[r] = "inRunner"
  /\ runner' = [runner EXCEPT ![AgentOf[r]] = None]
  /\ \/ r \in killed /\ Throw(r, "cancelled") /\ UNCHANGED store
     \/ r \notin killed /\ Throw(r, "failed") /\ UNCHANGED store
     \/ r \notin killed /\ Submit(r, "completing") /\ UNCHANGED verdict
  /\ UNCHANGED <<steady, service, killed, attempted>>

-----------------------------------------------------------------------------
(* executeRun: the catch clause and the end *)

\* Mutant of PreRunner: the Runner is forgotten.
PreRunnerAlways(r) == Capsule(r)

PreRunner(r) == Capsule(r) /\ r \notin attempted

\* What the catch clause makes of the error.
Outcome(r) ==
  IF PreRunner(r) /\ Cancelled(r) THEN "cancelled" ELSE verdict[r]

Catch(r) ==
  /\ pc[r] = "caught"
  /\ verdict' = [verdict EXCEPT ![r] = Outcome(r)]
  /\ \/ ~PreRunner(r) /\ Submit(r, "failing")
     \/ /\ PreRunner(r) /\ Outcome(r) # "cancelled" /\ ~Current(r)
        /\ Submit(r, "lateRetrying")
     \/ /\ PreRunner(r) /\ (Outcome(r) = "cancelled" \/ Current(r))
        /\ Submit(r, "prefailing")
  /\ UNCHANGED <<steady, service, process>>

Forget(r) ==
  active' = [active EXCEPT ![AgentOf[r]] = IF @ = r THEN None ELSE @]

\* The execution promise settles and beginExecution forgets it.
Finish(r) ==
  /\ \/ pc[r] = "resolved" /\ Goto(r, "done")
     \/ pc[r] = "rejected" /\ Goto(r, "broken")
  /\ Forget(r)
  /\ UNCHANGED <<steady, store, process, cancelling, pending, lock, verdict>>

-----------------------------------------------------------------------------
(* stopAgent and deleteAgent *)

\* Mutant of RaiseFlag: only a live Codex process is cancelled.
RaiseFlagNever(t) == UNCHANGED cancelling

RaiseFlag(t) == cancelling' = cancelling \cup {AgentOf[t]}

\* The start of cancelExecution: raise the flag, then tell the Runner.
RequestCancel(t) ==
  LET a == AgentOf[t] IN
  /\ RaiseFlag(t)
  /\ killed' = killed \cup ({runner[a]} \ {None})
  /\ waitFor' = [waitFor EXCEPT ![t] = {runner[a]} \ {None}]
  /\ Goto(t, "killing")

BeginStop(s) ==
  /\ Begin(s)
  /\ \/ Visible(s) /\ RequestCancel(s)
     \/ ~Visible(s) /\ Goto(s, "refused")
                    /\ UNCHANGED <<cancelling, killed, waitFor>>
  /\ UNCHANGED <<database, store, environment, pending, active, lock, runner,
                 attempted, gen, verdict>>

BeginDelete(d) ==
  /\ Begin(d)
  /\ JoinLock(d, "awaitDelete")
  /\ UNCHANGED <<steady, store, process, cancelling, pending, active, verdict>>

DeleteUnderLock(d) ==
  /\ pc[d] = "awaitDelete" /\ HoldsLock(d)
  /\ \/ Visible(d) /\ RequestCancel(d) /\ UNCHANGED lock
     \/ ~Visible(d) /\ Goto(d, "refused") /\ ReleaseLock(d)
                    /\ UNCHANGED <<cancelling, killed, waitFor>>
  /\ UNCHANGED <<database, store, environment, pending, active, runner,
                 attempted, gen, verdict>>

\* The promise returned by runner.cancel resolves.
RunnerCancelled(t) ==
  /\ pc[t] = "killing" /\ runner[AgentOf[t]] \notin waitFor[t]
  /\ Goto(t, "draining")
  /\ UNCHANGED <<steady, store, service, process, verdict>>

\* What a drained cancellation does next.
Proceed(t) ==
  \/ t \in Stops /\ Submit(t, "settingStopped")
  \/ t \in Deletes /\ Goto(t, "archiving") /\ UNCHANGED store

\* Mutant of Outstanding: cancelExecution does not look at pendingAdmissions.
OutstandingNone(t) == {}

Outstanding(t) == pending[AgentOf[t]]

\* Once no admission it saw is pending, cancelExecution reads the active
\* execution, and returns when there is neither.
ReadExecution(t) ==
  LET a == AgentOf[t] IN
  \/ /\ active[a] # None
     /\ waitFor' = [waitFor EXCEPT ![t] = {active[a]}]
     /\ Goto(t, "awaitRun")
     /\ UNCHANGED store
  \/ /\ active[a] = None /\ Outstanding(t) = {}
     /\ Proceed(t)
     /\ UNCHANGED waitFor
  \/ /\ active[a] = None /\ Outstanding(t) # {}
     /\ Goto(t, "draining")
     /\ UNCHANGED <<store, waitFor>>

\* The head of cancelExecution's loop.
Drain(t) ==
  /\ pc[t] = "draining"
  /\ \/ /\ Outstanding(t) # {}
        /\ waitFor' = [waitFor EXCEPT ![t] = Outstanding(t)]
        /\ Goto(t, "awaitAdmissions")
        /\ UNCHANGED store
     \/ Outstanding(t) = {} /\ ReadExecution(t)
  /\ UNCHANGED <<database, service, process, environment, gen, verdict>>

AdmissionsReleased(t) ==
  /\ pc[t] = "awaitAdmissions" /\ waitFor[t] \cap Outstanding(t) = {}
  /\ ReadExecution(t)
  /\ UNCHANGED <<database, service, process, environment, gen, verdict>>

\* Awaiting a rejected execution rethrows its error.
ExecutionSettled(t) ==
  /\ pc[t] = "awaitRun"
  /\ \/ /\ \E r \in waitFor[t] : pc[r] \in {"rejected", "broken"}
        /\ Goto(t, "unwinding")
        /\ UNCHANGED <<store, waitFor>>
     \/ /\ \E r \in waitFor[t] : pc[r] \in {"resolved", "done"}
        /\ \/ active[AgentOf[t]] # None /\ Goto(t, "draining")
                                        /\ UNCHANGED <<store, waitFor>>
           \/ active[AgentOf[t]] = None /\ ReadExecution(t)
  /\ UNCHANGED <<database, service, process, environment, gen, verdict>>

\* workspaces.archive renames the workspace away, or fails.
Archive(d) ==
  /\ pc[d] = "archiving"
  /\ \/ /\ AgentOf[d] \notin archived
        /\ archived' = archived \cup {AgentOf[d]}
        /\ Submit(d, "removing")
     \/ Goto(d, "unwinding") /\ UNCHANGED <<store, archived>>
  /\ UNCHANGED <<database, service, process, gen, verdict, waitFor, up, faults,
                 crashes>>

\* workspaces.restore undoes it when the database commit failed, or fails too.
Restore(d) ==
  /\ pc[d] = "restoring"
  /\ archived' \in {archived, archived \ {AgentOf[d]}}
  /\ Goto(d, "unwinding")
  /\ UNCHANGED <<database, store, service, process, gen, verdict, waitFor, up,
                 faults, crashes>>

-----------------------------------------------------------------------------
(* startAgent, grant and revoke *)

BeginStart(t) ==
  /\ Begin(t)
  /\ \/ Visible(t) /\ Submit(t, "settingReady")
     \/ ~Visible(t) /\ Goto(t, "refused") /\ UNCHANGED store
  /\ UNCHANGED <<steady, service, process, verdict>>

BeginGrant(t) ==
  /\ Begin(t)
  /\ \/ /\ ResourceOf[t] \in Registered /\ PairOf(t) \in GrantPolicy
        /\ Submit(t, "granting")
     \/ /\ ~(ResourceOf[t] \in Registered /\ PairOf(t) \in GrantPolicy)
        /\ Goto(t, "refused") /\ UNCHANGED store
  /\ UNCHANGED <<steady, service, process, verdict>>

BeginRevoke(t) ==
  /\ Begin(t)
  /\ \/ ResourceOf[t] \in Registered /\ Submit(t, "revoking")
     \/ ResourceOf[t] \notin Registered /\ Goto(t, "refused")
                                        /\ UNCHANGED store
  /\ UNCHANGED <<steady, service, process, verdict>>

-----------------------------------------------------------------------------
(* The finally clauses: flags, pending admissions and locks are given up *)

Unwind(t) ==
  /\ \/ pc[t] = "unwinding" /\ Goto(t, "refused")
     \/ pc[t] = "returning" /\ Goto(t, "done")
  /\ pending' = IF t \in Runs
                THEN [pending EXCEPT ![AgentOf[t]] = @ \ {t}] ELSE pending
  /\ cancelling' = IF t \in Cancels
                   THEN cancelling \ {AgentOf[t]} ELSE cancelling
  /\ IF t \in Runs \cup Deletes THEN ReleaseLock(t) ELSE UNCHANGED lock
  /\ UNCHANGED <<steady, store, process, active, verdict>>

-----------------------------------------------------------------------------
(* JsonStore.mutate: one mutation at a time, oldest first, on a clone that  *)
(* is written to the file and published only when the write succeeded.      *)

AtHead(t) == queue # <<>> /\ Head(queue) = t

\* Mutant of Unavailable: the admission does not look for a live Run.
UnavailableUnlessBusy(t) ==
  Cancelled(t) \/ agent[AgentOf[t]] \in {"absent", "stopped"}

\* The checks that open the admission and the denial mutation.
Unavailable(t) ==
  Cancelled(t) \/ agent[AgentOf[t]] \in {"absent", "stopped", "busy"}

\* The mutation callback throws.
Rejects(t) ==
  LET a == AgentOf[t] IN
  \/ pc[t] \in {"admitting", "denying"} /\ Unavailable(t)
  \/ /\ pc[t] \in {"evidencing", "retracting", "lateDenying",
                   "lateRetrying", "prefailing"}
     /\ receipt[t] = NoReceipt
  \/ pc[t] \in {"settingStopped", "removing"} /\ agent[a] = "absent"
  \/ pc[t] = "settingReady" /\ agent[a] \in {"absent", "busy"}
  \/ pc[t] = "revoking" /\ ent[PairOf(t)].gen = 0

\* Where the error of a mutation takes the operation that awaits it.
AfterError(t) ==
  CASE pc[t] \in {"admitting", "denying", "settingStopped"} -> "unwinding"
    [] pc[t] \in {"marking", "evidencing", "retracting", "completing",
                  "lateDenying"} -> "caught"
    [] pc[t] = "lateRetrying" -> "prefailing"
    [] pc[t] \in {"prefailing", "failing"} -> "rejected"
    [] pc[t] = "removing" -> "restoring"
    [] OTHER -> "refused"

MutationFails(t) ==
  /\ Goto(t, AfterError(t))
  /\ queue' = IF pc[t] = "lateRetrying"
              THEN Append(Tail(queue), t) ELSE Tail(queue)
  /\ writing' = FALSE
  /\ verdict' = IF AfterError(t) = "caught"
                THEN [verdict EXCEPT ![t] = "failed"] ELSE verdict
  /\ UNCHANGED <<database, service, process, gen, waitFor, archived, up,
                 crashes>>

StoreRejects(t) ==
  /\ AtHead(t) /\ ~writing /\ Rejects(t)
  /\ MutationFails(t)
  /\ UNCHANGED faults

StoreEvaluates(t) ==
  /\ AtHead(t) /\ ~writing /\ ~Rejects(t)
  /\ writing' = TRUE
  /\ UNCHANGED <<steady, service, process, queue, pc, verdict>>

StoreWriteFails(t) ==
  /\ AtHead(t) /\ writing /\ faults < MaxFaults
  /\ faults' = faults + 1
  /\ MutationFails(t)

\* The write succeeded: the draft becomes the data and t resumes at step.
Publish(t, mutation, step) ==
  /\ AtHead(t) /\ writing /\ pc[t] = mutation
  /\ Goto(t, step)
  /\ queue' = Tail(queue)
  /\ writing' = FALSE
  /\ UNCHANGED <<service, process, environment, gen, waitFor>>

SetAgent(t, status) == agent' = [agent EXCEPT ![AgentOf[t]] = status]
SetRun(r, status) == run' = [run EXCEPT ![r] = status]
SetReceipt(r, decision, why, started) ==
  receipt' = [receipt EXCEPT ![r] =
    [decision |-> decision, reason |-> why, gen |-> gen[r],
     started |-> started]]

\* Mutant of RecordDenial: the Receipt is not part of the commit.
RecordDenialNever(r) == UNCHANGED receipt

RecordDenial(r) == SetReceipt(r, "deny", verdict[r], FALSE)

\* Mutant of RestoreEvidence: runnerStarted:true is left standing.
RestoreEvidenceNever(r) == UNCHANGED receipt

\* Put back the Receipt of the admission.
RestoreEvidence(r) == SetReceipt(r, "allow", "allowed", FALSE)

Recorded(r) == run[r] # "none" /\ agent[AgentOf[r]] # "absent"

\* `if (storedRun)` and `if (agent)` of the terminal mutations.
EndRun(r, outcome, status) ==
  /\ IF run[r] # "none" THEN SetRun(r, outcome) ELSE UNCHANGED run
  /\ IF agent[AgentOf[r]] \notin {"absent", "stopped"}
     THEN SetAgent(r, status) ELSE UNCHANGED agent

CommitDenial(r) ==
  /\ Publish(r, "denying", "returning")
  /\ SetRun(r, "denied")
  /\ RecordDenial(r)
  /\ UNCHANGED <<agent, ent, verdict>>

CommitAdmission(r) ==
  /\ Publish(r, "admitting", "launching")
  /\ SetRun(r, "queued")
  /\ SetAgent(r, "busy")
  /\ IF Capsule(r) THEN SetReceipt(r, "allow", "allowed", FALSE)
     ELSE UNCHANGED receipt
  /\ UNCHANGED <<ent, verdict>>

CommitMark(r) ==
  /\ \/ /\ Publish(r, "marking", "marked") /\ Recorded(r)
        /\ SetRun(r, "running")
        /\ UNCHANGED verdict
     \/ /\ Publish(r, "marking", "caught") /\ ~Recorded(r)
        /\ verdict' = [verdict EXCEPT ![r] = "cancelled"]
        /\ UNCHANGED run
  /\ UNCHANGED <<agent, receipt, ent>>

CommitEvidence(r) ==
  /\ Publish(r, "evidencing", "evidenced")
  /\ SetReceipt(r, "allow", "allowed", TRUE)
  /\ UNCHANGED <<agent, run, ent, verdict>>

CommitRetraction(r) ==
  /\ Publish(r, "retracting", "caught")
  /\ RestoreEvidence(r)
  /\ verdict' = [verdict EXCEPT ![r] = "cancelled"]
  /\ UNCHANGED <<agent, run, ent>>

\* Mutant of AfterLateDenial: the return after the denial is missing.
AfterLateDenialHandoff == "deriving"

\* finalizeLateCapsuleDenial is followed by a return.
AfterLateDenial == "resolved"

CommitLateDenial(r) ==
  /\ \/ Publish(r, "lateDenying", AfterLateDenial)
     \/ Publish(r, "lateRetrying", "resolved")
  /\ SetReceipt(r, "deny", "stale_entitlement_generation", FALSE)
  /\ EndRun(r, "denied", "ready")
  /\ UNCHANGED <<ent, verdict>>

CommitPreRunnerFailure(r) ==
  /\ Publish(r, "prefailing", "resolved")
  /\ RestoreEvidence(r)
  /\ EndRun(r, verdict[r], "ready")
  /\ UNCHANGED <<ent, verdict>>

CommitFailure(r) ==
  /\ Publish(r, "failing", "resolved")
  /\ EndRun(r, verdict[r], IF verdict[r] = "cancelled" THEN "ready" ELSE "error")
  /\ UNCHANGED <<receipt, ent, verdict>>

CommitCompletion(r) ==
  /\ Publish(r, "completing", "resolved")
  /\ IF Recorded(r) THEN SetRun(r, "completed") /\ SetAgent(r, "ready")
     ELSE UNCHANGED <<run, agent>>
  /\ UNCHANGED <<receipt, ent, verdict>>

CommitStopped(s) ==
  /\ Publish(s, "settingStopped", "returning")
  /\ SetAgent(s, "stopped")
  /\ UNCHANGED <<run, receipt, ent, verdict>>

CommitReady(t) ==
  /\ Publish(t, "settingReady", "done")
  /\ SetAgent(t, "ready")
  /\ UNCHANGED <<run, receipt, ent, verdict>>

\* Mutant of RemoveReceipts: the Receipts survive their Runs.
RemoveReceiptsNever(gone) == UNCHANGED receipt

RemoveReceipts(gone) ==
  receipt' = [r \in Runs |-> IF r \in gone THEN NoReceipt ELSE receipt[r]]

\* deleteAgent removes the Agent, its Runs and their Receipts together.
CommitRemoval(d) ==
  LET gone == {r \in Runs : AgentOf[r] = AgentOf[d]} IN
  /\ Publish(d, "removing", "returning")
  /\ SetAgent(d, "absent")
  /\ run' = [r \in Runs |-> IF r \in gone THEN "none" ELSE run[r]]
  /\ RemoveReceipts(gone)
  /\ UNCHANGED <<ent, verdict>>

\* Mutant of NextEntitlement: a new grant revives the revoked generation.
NextEntitlementSameGeneration(e) ==
  [gen |-> IF e.gen = 0 THEN 1 ELSE e.gen, active |-> TRUE]

\* Granting an active Entitlement changes nothing; otherwise the grant is the
\* next generation.
NextEntitlement(e) ==
  IF e.active THEN e ELSE [gen |-> e.gen + 1, active |-> TRUE]

CommitGrant(t) ==
  /\ Publish(t, "granting", "done")
  /\ ent' = [ent EXCEPT ![PairOf(t)] = NextEntitlement(@)]
  /\ UNCHANGED <<agent, run, receipt, verdict>>

CommitRevoke(t) ==
  /\ Publish(t, "revoking", "done")
  /\ ent' = [ent EXCEPT ![PairOf(t)].active = FALSE]
  /\ UNCHANGED <<agent, run, receipt, verdict>>

-----------------------------------------------------------------------------
(* The process dies, and initialize brings it back *)

\* Requests in flight are lost with everything that is not on disk.  A write
\* in progress either is on disk (its commit and then the crash) or is not.
Crash ==
  /\ up /\ crashes < MaxCrashes
  /\ crashes' = crashes + 1
  /\ up' = FALSE
  /\ pc' = [t \in Ops |->
              IF pc[t] \in Answered \cup {"idle"} THEN pc[t] ELSE "lost"]
  /\ queue' = <<>> /\ writing' = FALSE
  /\ cancelling' = {}
  /\ pending' = [a \in Agents |-> {}]
  /\ active' = [a \in Agents |-> None]
  /\ lock' = [a \in Agents |-> <<>>]
  /\ runner' = [a \in Agents |-> None]
  /\ UNCHANGED <<database, killed, attempted, gen, verdict, waitFor, archived,
                 faults>>

RestartedAgent(a) == IF agent[a] = "busy" THEN "ready" ELSE agent[a]

RestartedRun(r) == IF run[r] \in Running THEN "cancelled" ELSE run[r]

\* Every Agent's workspace must be in place, or the server does not start.
Initialize ==
  /\ ~up
  /\ \A a \in archived : agent[a] = "absent"
  /\ up' = TRUE
  /\ run' = [r \in Runs |-> RestartedRun(r)]
  /\ agent' = [a \in Agents |-> RestartedAgent(a)]
  /\ UNCHANGED <<store, service, process, control, receipt, ent, archived,
                 faults, crashes>>

-----------------------------------------------------------------------------
(* The specification *)

Init ==
  /\ agent = [a \in Agents |-> "ready"]
  /\ run = [r \in Runs |-> "none"]
  /\ receipt = [r \in Runs |-> NoReceipt]
  /\ ent = [e \in Entitlements |->
              IF e \in InitialGrants THEN [gen |-> 1, active |-> TRUE]
              ELSE [gen |-> 0, active |-> FALSE]]
  /\ archived = {}
  /\ queue = <<>> /\ writing = FALSE
  /\ cancelling = {}
  /\ pending = [a \in Agents |-> {}]
  /\ active = [a \in Agents |-> None]
  /\ lock = [a \in Agents |-> <<>>]
  /\ runner = [a \in Agents |-> None]
  /\ killed = {} /\ attempted = {}
  /\ pc = [t \in Ops |-> "idle"]
  /\ gen = [r \in Runs |-> 0]
  /\ verdict = [r \in Runs |-> "none"]
  /\ waitFor = [t \in Cancels |-> {}]
  /\ up = TRUE /\ faults = 0 /\ crashes = 0

Admit(r) ==
  \/ BeginValidation(r) \/ PlanRefused(r) \/ PlanCompiled(r)
  \/ LateNotFound(r) \/ RequestAdmission(r) \/ RequestDenial(r) \/ Launch(r)

Execute(r) ==
  \/ CancelAfterMark(r) \/ PrepareHome(r) \/ PrepareHomeAborted(r)
  \/ HomePrepared(r) \/ RecheckAfterEvidence(r) \/ DeriveAborted(r)
  \/ WithdrawBeforeHandoff(r) \/ Handoff(r) \/ RunnerExits(r)
  \/ Catch(r) \/ Finish(r)

Cancel(t) ==
  \/ RunnerCancelled(t) \/ Drain(t) \/ AdmissionsReleased(t)
  \/ ExecutionSettled(t)

DeleteFiles(d) == DeleteUnderLock(d) \/ Archive(d) \/ Restore(d)

\* The commits of a Run's own mutations.
CommitRun(r) ==
  \/ CommitDenial(r) \/ CommitAdmission(r) \/ CommitMark(r)
  \/ CommitEvidence(r) \/ CommitRetraction(r) \/ CommitLateDenial(r)
  \/ CommitPreRunnerFailure(r) \/ CommitFailure(r) \/ CommitCompletion(r)

CommitOp ==
  \/ \E r \in Runs : CommitRun(r)
  \/ \E s \in Stops : CommitStopped(s)
  \/ \E d \in Deletes : CommitRemoval(d)
  \/ \E t \in Starts : CommitReady(t)
  \/ \E t \in Grants : CommitGrant(t)
  \/ \E t \in Revokes : CommitRevoke(t)

StoreStep == CommitOp \/ \E t \in Ops : StoreRejects(t) \/ StoreEvaluates(t)

Request ==
  \/ \E r \in Runs : SendRefused(r) \/ SendBaseline(r) \/ SendCapsule(r)
  \/ \E s \in Stops : BeginStop(s)
  \/ \E d \in Deletes : BeginDelete(d)
  \/ \E t \in Starts : BeginStart(t)
  \/ \E t \in Grants : BeginGrant(t)
  \/ \E t \in Revokes : BeginRevoke(t)

\* Nothing is left to do.
Rest ==
  /\ up /\ \A t \in Ops : pc[t] \in Answered
  /\ UNCHANGED vars

Next ==
  \/ Request
  \/ \E r \in Runs : Admit(r) \/ Execute(r)
  \/ \E t \in Cancels : Cancel(t)
  \/ \E d \in Deletes : DeleteFiles(d)
  \/ \E t \in Runs \cup Cancels : Unwind(t)
  \/ StoreStep
  \/ \E t \in Ops : StoreWriteFails(t)
  \/ Crash
  \/ Initialize
  \/ Rest

Spec == Init /\ [][Next]_vars

\* What the process owes: an await whose promise has settled is resumed, the
\* file system answers, a Codex process ends (CODEX_TIMEOUT_MS bounds it) and
\* a server that can be brought back up is.  Clients owe nothing.
Fairness ==
  /\ \A r \in Runs : WF_vars(Admit(r)) /\ WF_vars(Execute(r))
  /\ \A t \in Cancels : WF_vars(Cancel(t))
  /\ \A d \in Deletes : WF_vars(DeleteFiles(d))
  /\ \A t \in Runs \cup Cancels : WF_vars(Unwind(t))
  /\ WF_vars(StoreStep)
  /\ WF_vars(Initialize)

FairSpec == Spec /\ Fairness

-----------------------------------------------------------------------------
(* Types *)

Records ==
  [decision : {"none", "allow", "deny"},
   reason : DenialReasons \cup {"none", "allowed"},
   gen : Nat, started : BOOLEAN]

Verdicts == DenialReasons \cup {"none", "failed", "cancelled"}

DatabaseOK ==
  /\ agent \in [Agents -> AgentStatus]
  /\ run \in [Runs -> Running \cup Terminal \cup {"none"}]
  /\ receipt \in [Runs -> Records]
  /\ ent \in [Entitlements -> [gen : Nat, active : BOOLEAN]]

StoreOK == queue \in Seq(Ops) /\ writing \in BOOLEAN

ServiceOK ==
  /\ cancelling \subseteq Agents
  /\ pending \in [Agents -> SUBSET Runs]
  /\ active \in [Agents -> Runs \cup {None}]
  /\ lock \in [Agents -> Seq(Runs \cup Deletes)]

ProcessOK ==
  /\ runner \in [Agents -> Runs \cup {None}]
  /\ killed \subseteq Runs /\ attempted \subseteq Runs

StepsOK == pc \in [Ops -> Steps]

LocalOK ==
  /\ gen \in [Runs -> Nat]
  /\ verdict \in [Runs -> Verdicts]
  /\ waitFor \in [Cancels -> SUBSET Runs]

EnvironmentOK ==
  /\ archived \subseteq Agents
  /\ up \in BOOLEAN /\ faults \in Nat /\ crashes \in Nat

\* The type invariant: statuses, Receipts and steps are among the values the
\* code gives them, and the store queues only known operations.
TypeOK ==
  /\ DatabaseOK /\ StoreOK /\ ServiceOK /\ ProcessOK
  /\ StepsOK /\ LocalOK /\ EnvironmentOK
=============================================================================
