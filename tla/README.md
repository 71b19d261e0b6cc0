# ScopedRun in TLA+

A formal model of the ScopedRun agent server (`src/apps/server`) and of its web
client (`src/apps/web`). The modules are translated
from the TypeScript source; the line numbers are those of the sources beside
this directory (`PROJECT.json`, "map", has one entry per definition).

    tlc -workers 2 -config stop.cfg MCRunLifecycle.tla     # one model-checking run
    tlapm RunLifecycleProofs.tla                           # the proofs

## 1. The system

One Node process serves a JSON API. A *Principal* owns *Agents*; an Agent is a
workspace directory and a Codex home. A message sent to an Agent becomes a
*Run*, executed by a Codex process. A *Capsule* Run names a *Resource* of the
Registry, needs an active *Entitlement* of its Principal, and leaves a
*Decision Receipt*; a *baseline* Run names none. Nothing runs in parallel inside
the process, but every `await` is a point where any other request may proceed.

| Component | State | Operations | Talks to |
|---|---|---|---|
| `AgentService` (agent-service.ts) | `cancellationRequests` (a set of Agent ids), `pendingAdmissions`, `activeExecutions`, `agentFileOperations` (a promise chain per Agent) | create, update, delete, start and stop an Agent; send a message; execute a Run; `initialize` | everything below |
| `JsonStore` (store.ts) | the published data, a promise queue, the file | `mutate` (clone, change, validate, write a temporary file, rename, publish), `read`, `initialize` (migrate, backfill) | file system |
| Entitlements (entitlement-service.ts) | the Entitlement ledger, in the store | grant, revoke, list | store |
| Authorizer (resource-authorizer.ts), Registry (resource-registry.ts) | the Registry, read once | a decision and the generation it rests on | store (read) |
| Mount plan compiler and path validator | none | two checks of the Entitlement around an awaited validation of the path | store (read), file system |
| Decision Receipts (receipt-*.ts) | the Receipts, in the store | add, replace, remove with the Agent | store |
| Runners (codex-runner.ts, container-codex-runner.ts) | the live process of each Agent, cancellation and timeout timers, memoised removals | `run`, `cancel` | Docker or a local process |
| Workspaces, Codex homes (workspace.ts, codex-home.ts, managed-file.ts) | directories | create, archive, restore, remove, prepare, write AGENTS.md | file system |
| Resource advisor (resource-advisor.ts, resource-routes.ts) | none | list the Resources a Principal is entitled to, suggest one for a text | store (read) |
| Web client, session (App.tsx, run-polling.ts) | session epoch, request counters, selection, the Run shown, its Receipt, polling loops | select, send, poll, retry, switch Principal | the API |
| Web client, suggestions (resource-advisor-coordinator.ts) | text and its revision, suggestion, picked Resource, catalog | edit, suggest, pick | the API |
| HTTP routes, configuration, views, deployment | none that outlives a request | | |

**What is hard.** A Run crosses about ten awaits between authorization and the
call of the Runner, and at each of them the Entitlement may be revoked and
granted again, the Agent stopped, started or deleted, or a write may fail.
`stopAgent` does not take the file lock that sends and deletes take, so it must
find a Run wherever the Run is: not yet registered, pending admission, active,
or inside the Runner. Authority (the Receipt) and fact (the Runner was called)
live in different places and must agree after every error path (ADR-004). The
process may die anywhere. PROJECT.json lists the hazards one by one.

**What makes each component correct.**

- *AgentService*: one live Run per Agent and busy exactly then; a stop or delete
  finds silence when it proceeds; no Runner starts without current authority or
  against a cancellation; a terminal Run never changes; a deleted Agent leaves
  nothing; every admitted Run ends and every stop or delete is answered.
- *JsonStore*: mutations take effect one at a time, wholly or not at all, and a
  restart finds the last published commit.
- *Entitlements*: generations only grow; at most the last one is active.
- *Receipts*: Run and Receipt tell one story; `runnerStarted` is the truth.
- *Runners*: one process per Agent; a cancellation that has returned leaves no Codex at
  work, except in a container whose `rm --force` failed or whose server died.
- *Files*: a failed or interrupted create, update or delete is undone or finished.
- *Web client*: an answer that is out of date is dropped; polling ends; the evidence
  shown is of the page's Agent and never goes back; only the user picks a Resource.

## 2. The modules

| Module | Content |
|---|---|
| `RunContract` | The abstract specification: what the owner of an Agent is promised about each Run, with no word about locks, queues, flags, failed writes or restarts. |
| `RunLifecycle` | State, actions, specification and fairness of the Run lifecycle: AgentService's sends, executions, stops, deletes and starts, the Entitlement's grants and revokes, the store's queue, the process of each Agent, failed writes, crashes, `initialize`. The last section is the type invariant. |
| `RunProperties` | What must hold: safety invariants, action properties, the refinement of `RunContract`, liveness, and two that the code violates (section 5). |
| `RunLifecycleProofs` | Types; exclusion of file operations; stale denials stay true; Run and Receipt agree. |
| `RunDrainProofs` | Terminal records are final; one execution per Agent; nothing is left of a deleted Agent; who accounts for a live Run. |
| `RunContractProofs` | Handoffs: written ahead, authorized, told truthfully; `RunLifecycle` implements `RunContract`; stops and deletes silence their Agent. |
| `EntitlementLedger` | The data of the store as far as the ledger and one other service need it: versions, histories, grant, revoke, schema, migration, backfill. No variables; operators only. |
| `AtomicStore` | What the store promises: each request takes effect at most once, wholly, at one instant, and is answered afterwards; it fails only for a reason of its own. |
| `JsonStore`, `StoreProperties` | The store as it is (promise chain, copy, temporary file, rename, publication, start-up), its properties and the refinement mapping to `AtomicStore`. |
| `StoreProofs` | All safety properties of the store and the refinement. |
| `RunnerProcess`, `RunnerProperties` | Both Runners with their children, the engine, Codex, and a server that dies. |
| `RunnerProofs` | All safety properties of the Runners. |
| `AgentFiles`, `AgentFilesProperties` | Agents as record, directory, archive and AGENTS.md: create, update and delete with their undo. |
| `AgentFilesProofs` | Types; survival of workspaces; record, AGENTS.md and directory agree. |
| `WebSession`, `WebProperties` | The page: selection, sends, polling loops, retries, the session epoch. |
| `RunEvidence`, `EvidenceProperties` | `WebSession` with what the page shows beside a Run: its Receipt, the denial, the delegated context. |
| `WebProofs` | All safety properties of the session and of the evidence. |
| `GuidedDelegation`, `DelegationProperties` | The Run setup: the task's text, the Advisor and its answers, the picker, the catalog. |
| `DelegationProofs` | All its properties. |
| `MCRunLifecycle`, `MCJsonStore`, `MCRunnerProcess`, `MCAgentFiles`, `MCWebSession`, `MCRunEvidence`, `MCGuidedDelegation` | The instances for TLC; a configuration lists the requests of each kind and which of them are unusual. |

The modules meet at the server's interfaces. `RunLifecycle` is the composition of
AgentService with the store, the authorizer, the Receipts and the Runner, each as
coarse as AgentService can observe it; `JsonStore` and `RunnerProcess` open two of
these up. A commit that `RunLifecycle` makes in one step is the `Rename` of
`JsonStore`, which `ImplementsContract` shows to be atomic; the Runner's process,
which it takes to end after a cancel, is what `TurnsAndCancelsEnd`
and `CancelLeavesSilence` of `RunnerProcess` are about; the directories under an
Agent's lock are those of `AgentFiles`. `WebSession` is a client of all of it and
knows only that reads show the state at the time they are served; `RunEvidence`
composes it with the Receipts. `GuidedDelegation` ends where `WebSession` begins: what
is picked there is what a send delegates.

### RunContract

Four variables per Run, the ones a client can learn: the status of its record, the
decision and `runnerStarted` of its Receipt, and whether the Runner was called. A
Capsule Run announces its handoff before it happens and may take that back until it
happens; it is handed over once, with an allowing Receipt that announces it; it
completes only then; it is denied only before; it ends once and changes no more, and it
disappears with its Agent at any time. A baseline Run has no Receipt. `RunLifecycle`
maps to it by hiding everything else; `attempted` is the contract's `handed`.

### RunLifecycle

**Operations.** A request is an element of `Runs`, `Stops`, `Deletes`, `Starts`,
`Grants` or `Revokes`. What it names (`AgentOf`, `PrincipalOf`, `ResourceOf`) is
constant; when it arrives is open. `pc[t]` is the await at which it is
suspended, so one action is the code between two awaits:

| `pc` | in the code |
|---|---|
| `authorized`, `validating` | admitCapsuleRun :386, compileMountPlan's `await validate` |
| `awaitAdmit`, `awaitDeny`, `awaitDelete` | in withAgentFileOperation :1055, waiting for the previous file operation |
| a member of `Mutations` | in `store.mutate`; the name says which mutation it awaits |
| `launching` | the admission is published; beginExecution :598 is next |
| `marked`, `preparing`, `evidenced`, `deriving` | executeRun :830, :833, :854, :898 |
| `inRunner` | `await runner.run` :893 |
| `caught` | entering executeRun's catch clause :937 |
| `resolved`, `rejected` | the execution promise has settled, `activeExecutions` still holds it |
| `killing`, `draining`, `awaitAdmissions`, `awaitRun` | cancelExecution :1015-1034 |
| `archiving`, `restoring` | deleteAgent's `workspaces.archive` and `restore` |
| `returning`, `unwinding` | the finally clauses, after success and after an error |
| `done`, `refused`, `broken`, `lost` | answered, refused, execution rejected, gone with the process |

**State.** `agent`, `run`, `receipt`, `ent` are the database as last published;
Agent and Run statuses, the fields of a Receipt that the properties tell apart
(decision, reason, generation, runnerStarted) and, of the ledger, the current
Entitlement of each pair. `queue` and `writing` are `JsonStore.queue`: the head
is evaluated (`StoreEvaluates`, or `StoreRejects` when the callback throws) and
then its write succeeds (a `Commit...` action: the whole mutation takes effect
and its operation resumes) or fails (`StoreWriteFails`). `cancelling`,
`pending`, `active`, `lock` are the four fields of AgentService. `lock[a]` lists
the holder and the waiters of Agent a's promise chain. `runner`, `killed` are
the Runner's live process and its cancelled processes. `attempted` holds the
Runs whose local `runnerAttempted` is true. `CapsuleRuntime` says of each life of the
server whether it has the container Runner, without which a Capsule Run is denied
(`runtime_profile_unsupported`).

**Abstractions.** Between evaluation and publication of a mutation no other
mutation can run, so evaluating against the published data at the commit gives
the same result; the checks that decide a rejection read
`cancellationRequests` when the callback runs, which is why `StoreEvaluates`
and the commit are two steps. Write and rename are one step here, which a crash
precedes or follows; `JsonStore` has them apart. A validation, a derivation, `prepareAgentCodexHome`,
`archive` and `restore` each may succeed or fail whenever they are called. A
process of a dead server is taken to be gone here; `RunnerProcess` keeps it. Merged: awaits of values that are
already settled.

### JsonStore

`queue` is the promise chain; its head is at `stage`: `idle` before its callback,
`opening`, `writing`, `renaming` inside `persist`, `renamed` until `this.data = next`.
`Reject` is a callback that throws or a schema that refuses, `PersistFails` a failing
file operation, `Crash` a death at any of these points, leaving whatever `tmp` is.
`Load`, `Upgrade`, `FinishUpgrade`, `RefuseFile`, `UpgradeFails` are `initialize` by
the kind of file it meets (absent, torn, version 1, version 2 with or without
history). Data are the Entitlement histories and a set of *notes*, the writes of
all other services; an unfit note is one the schema refuses.

### RunnerProcess

A call's `child` is Codex (local) or the engine's client (container), which of the
two is `isolated`, chosen at the start as `createRunner` does. `removal[c]` is the memoised
`rm --force` of a call, `timeout` and `forceKill` the armed timers, `container[a]`
who has the Agent's name. `Verdict` is the order in which the code looks at its
flags after the child has closed. Codex may end by itself or never.

`Crash` is the death of the server: the registry, the flags and the timers are lost
and the calls with them, while children, containers and the commands the engine
was given go on (`Orphan`, `OrphanEnds`, `CodexEndsAlone`). The next life of the server
starts turns of the same Agent among them, under the same container name: one that is
taken makes the new client fail, and is what a removal then hits.

### AgentFiles

`record` is the database, `dir`, `archived`, `agentsMd` the disk; each of the two
steps of a create, update or delete is an action, each undo is one, and each may
fail. Runs and statuses (`Admit`, `RunEnds`, `SetStatus`) are those of
`RunLifecycle` reduced to what updates and deletes can observe.

### WebSession

A *task* is an asynchronous activity of the page: a send, the load after a
selection, a retry, a listing. It has one request out at a time; the server serves
it (`Serve`, `ServeSend`), and its answer arrives later (`...Arrives`) or it fails
(`Lose`). `ref` is `selectedIdRef.current`, which a render sets to the selection,
and `effectFor` the selection whose effect has run; a click is rendered and its
effect run before anything else, a selection made by an answer later. The loop of
`run-polling.ts` is the steps `waiting`, `fetching`, `refreshing`, `finishing`; what a
task does on its caller's behalf when the loop returns or throws is `Quiet` and
`GiveUp`. Requests that are made together (messages with Runs, the three of
onTerminal, the four after a denial) are one request that may fail in part. When one of
onTerminal's requests fails, the answers of the others are taken at the failure or never
(`LoseInLoop`, and `LoseRequest` of `RunEvidence` for the Receipt), where `Promise.all`
lets them arrive a little later, during the loop's next wait or after it has given up, through
the same checks.

### RunEvidence

Each of its steps is a step of `WebSession` together with what it does to
`activeReceipt`, `deniedRun` and `submittedCapsule` (`receipt`, `denied`, `context`). The
requests for Receipts that nobody awaits, after a send and after the load of a Run that
is over, are `proof`; those of the loops are the loops' own requests, whose answer holds
`seen`. `asked` stands for the counter `receiptRequestRef`: an answer is taken only by
the request that asked last, in the epoch in which it did, about the Agent selected.
`version[r]` counts the changes of a Receipt on the server, so that an answer can be older
than what is shown.

### GuidedDelegation

The Advisor of the server ranks the eligible Resources by the terms that match: tags
before names before descriptions, then the number of terms; a tie is no match. Texts
are sets of terms. The coordinator of the page drops an answer whose revision, Agent,
Principal or request is not the present one (`IsCurrent`); the reducer, the picker and
the catalog's check of the pick are actions and helpers of their own. The server's
Entitlements change at any time. `choice` and `entitled` are history variables: `choice`
is set only where the user picks, to the Resource with the Agent, session and number of
sends it was picked for, and `entitled` where an Entitlement is granted. The page and the coordinator
each keep the text; `updatePrompt` (App.tsx:168-173) sets both, and the model has one variable, which
makes the coordinator's own refusal of an empty text (resource-advisor-coordinator.ts:107) unreachable.

## 3. The runs

Bounds of `RunLifecycle`: every run uses one Agent, one Resource and one grantable
pair. One Agent is enough because the service's state is
a map from Agent to state with no operation that touches two of them; the store's
queue, which they share, is contended already by the requests of one. Two sends are
enough for one to be live while the other is admitted, denied or overtaken. One
revoke and one grant suffice to make a generation stale and current again under a
new number (revoke, then re-grant). `MaxFaults` bounds failed writes, `MaxCrashes`
deaths of the process; both are also constants of the theorems, which hold for
every value. Requests of strangers and for unregistered Resources are in the model and
in no run: the former are refused in one step that changes nothing, the latter go the
way of every other denial (`unknown_resource`) or are refused.

| Run | Instance | What it shows |
|---|---|---|
| `stop` | Capsule send, baseline send, stop, start, revoke, grant; 1 crash, after which the server has no container Runner | `OneRunPerAgent`; `QuietAfterDrain`: when a stop proceeds to write `stopped` nothing of the Agent lives; `NoHandoffDuringCancel`; `HandoffIsAuthorized`: at the call of the Runner the database shows the Run running, its Receipt with runnerStarted, and that Receipt's generation active; `EvidenceIsWrittenAhead`; `StaleDenialIsTrue` (across the re-grant); `ImplementsRunContract` (refinement of `RunContract`) |
| `delete` | 2 Capsule sends, 2 deletes, revoke; 1 failed write; fair | `OneFileOperation`, `NothingOfDeletedAgent`, `EvidenceIsTruthful`, `ReceiptMatchesRun`, `TerminalRecordsFrozen`, on error paths too; `RequestsSettle`: lock, flag, execution and store queue never wait for each other in a circle |
| `store` | 2 grants (one for a pair that is not seeded), revoke, a fit and an unfit note; every kind of initial file; 1 failed write, 1 crash; fair | `ReadsAreDurable`, `AnswersAreTrue`, `FileStaysReadable`, `RegrantsAreNew`, `ImplementsContract` (refinement of `AtomicStore`); `EveryRequestSettles`: a mutation that was accepted fails only in its turn and for its own throw, refusal or failed write, and is answered |
| `runner` | either Runner, 2 turns of one Agent, 1 cancel; 1 failing removal, 1 death of the server; fair | `OneCodexPerAgent`, `CancelledRunsSaySo`; `CancelLeavesSilence`: when a cancel returns, neither the call it found nor an earlier one has a Codex at work, but for `LeftBehind`; `StrayRemovalsAreLate`, `TurnsAndCancelsEnd` |
| `files` | create, 2 updates, 2 deletes; 1 failure, 1 crash; fair | `WorkspacesSurvive`; without a crash `RunsSeeTheirInstructions`, `RecordsMatchDirectories`, `UndoSparesOthers`; `EveryRequestEnds` |
| `web` | 3 Agents of 2 Principals, 1 new Run, 1 selection, 1 change of the Principal, 1 retry, 2 failing requests, 2 errors in a row end a loop; fair | `OneLoopPerRun`, `NothingForeignIsShown`, `LoopsEndForAReason`, `TasksEnd` |
| `evidence` | the same Agents, an earlier Run and a new one, 1 selection, 1 change of the Principal, 1 failing request | `EvidenceIsOfThePage`, `FinalEvidenceIsShown`, `EvidenceNeverGoesBack` |
| `delegation` | 2 Principals, 2 edits, 2 suggestions, 1 selection, 1 change of the Principal, 1 send, 1 change of an Entitlement or of the Agent's being busy | `AdviceIsCurrent`, `LoadingIsAwaited`; `ChoiceIsExplicit`: a pick is the user's last one and was made for this Agent, session and Run; `NothingForeignIsOffered` |
| `two_cancels`, `crash_evidence`, `absent_container` | | the violations of section 5 |
| `lost_retry` | an earlier Run of one Agent, a send to another Agent of the Principal, 1 selection, 2 failing requests | the fourth violation of section 5 |

Of the other bounds: in `store`, one failure and one crash meet every stage of a
mutation and of an upgrade, and two grants with a revoke between them give a pair
three generations. In `runner`, two turns are what the removal of one can do to
another. In `files`, two updates are needed for one to undo what the other relies
on, and two deletes for one to find the other's archive. In `web`, one Run is polled
by its send, by a load and by a retry, the three places that call `pollRun`; loops of
different Runs share nothing but `activeRun` and `pollRetry`. Two errors stand for the three of the code (`MaxErrors` is a constant).
In `evidence`, two Runs of one Agent are what it takes for the Receipt of one to arrive
when the other is shown; one failing request reaches both a loop, which asks again, and a
request nobody awaits. In `delegation`, two suggestions are out at a time, and two edits
make a text and, while its suggestion is on the way, another one or none.

`LeftBehind`, the exception of `CancelLeavesSilence`, is a call whose `rm --force` failed or whose
server died: a failed removal makes the Runner kill the engine's client, and the container goes on.
`Hindered`, the exception of the Runner's liveness property, follows from it: what was left
behind may be a container with the Agent's name, so the removal of the next turn removes
that one and the next turn's own client, which may create its container later, is not
removed again. `Undisturbed`, the condition of three properties of `files`, is a server without
a death that has met one failure at most: `initialize` repairs statuses and nothing on disk, so
what a crash has left half done stays; and a failure is undone, but a failure of the undo itself
is only reported, which leaves the half done state too.

Deadlock is checked in every run but `delegation`, where a user with a bounded number of
edits and clicks may stop with everything answered: `Rest` (and its like) is the only way to stand
still, and only when every request is answered and the server is up. In
`RunLifecycle` deletes and crashes are in no run together: a process death between
`archive` and the commit leaves an Agent without a workspace, `initialize` then throws
(workspace.ts refuses), and the model stops there as the server does. `AgentFiles`
has the two together, and its server stays down.

Liveness is stated as `<>[]`: in the end everything is answered and stays so. No
request comes without end, so this says the same as one leads-to per request.

**Fairness** is always weak fairness of what the system does by itself, each kind of
step of each operation separately, and never of a client's request, a failure or a
crash. A continuation that has become ready stays so until it runs, which is why
weak fairness is enough.

- `RunLifecycle`: a settled promise's continuation runs, the file system answers,
  and a Codex process ends, for `CODEX_TIMEOUT_MS` bounds it; somebody restarts the
  server.
- `JsonStore`: the file system answers; somebody restarts the server.
- `RunnerProcess`: timers fire, the engine answers, events are delivered, a client
  whose container is gone exits, SIGKILL kills. Codex need neither end by itself nor heed SIGTERM.
- `AgentFiles`: the server goes on with what it has begun, and Runs end. Requests die
  with their server, so nothing rests on a restart.
- `WebSession`: a request is answered or fails, timers fire, React renders and runs
  effects, Runs end.
- `RunEvidence`, `GuidedDelegation`: none; what is said of them is safety.

Each property of a passing run has a mutant: a change of one definition that stands
for a plausible bug and that TLC must find through that property. The mutants are
the operators `...Never`, `...Unless...`, `...Late` etc. beside the definition they
change, each marked by a comment.

## 4. The proofs

For all sets of Agents, Principals, Resources and requests and all bounds, from the
assumptions on constants that each module names (`ConstantsAssumption` and
`OperationsDisjoint`, `LedgerAssumption`, `StoreAssumption`, `RunnerAssumption`,
`AgentFilesAssumption`, `SessionAssumption`, `EvidenceAssumption`, `DelegationAssumption`).
They say what the kinds of requests are, that ids are not reused, and that `None` is
none of the values it stands beside.

| Theorem | States | Module |
|---|---|---|
| `TypeCorrect` | `Spec => []TypeOK` | `RunLifecycleProofs` |
| `FileOperationsExclude` | `Spec => []OneFileOperation` | `RunLifecycleProofs` |
| `StaleDenialsStayTrue` | `Spec => []StaleDenialIsTrue` | `RunLifecycleProofs` |
| `RecordsAgree` | `Spec => []ReceiptMatchesRun` | `RunLifecycleProofs` |
| `EndedRunsStay` | `Spec => TerminalRecordsFrozen` | `RunDrainProofs` |
| `DrainInvCorrect`, `MannedCorrect` | `Spec => []DrainInv`, `Spec => []Manned` | `RunDrainProofs` |
| `DeleteLeavesNothing` | `Spec => []NothingOfDeletedAgent` | `RunDrainProofs` |
| `LiveInvCorrect`, `BusyMeansOneRun` | `Spec => []LiveInv`, `Spec => [](faults = 0 => OneRunPerAgent)` | `RunDrainProofs` |
| `EvidencePrecedesHandoff` | `Spec => []EvidenceIsWrittenAhead` | `RunContractProofs` |
| `HandoffsAreAuthorized` | `Spec => HandoffIsAuthorized` | `RunContractProofs` |
| `ContractImplemented` | `Spec => ImplementsRunContract` | `RunContractProofs` |
| `EvidenceOfEndedRuns` | `Spec => [](crashes = 0 => EvidenceIsTruthful)` | `RunContractProofs` |
| `CancelsAreNotOvertaken` | `Spec /\ []StopsAlone => NoHandoffDuringCancel` | `RunContractProofs` |
| `DrainsLeaveQuiet` | `Spec /\ []StopsAlone => [](NothingRuns /\ (faults = 0 => QuietAfterDrain))` | `RunContractProofs` |
| `StoreTypeCorrect`, `ReadsStayDurable` | `Spec => []TypeOK`, `Spec => []ReadsAreDurable` | `StoreProofs` |
| `FilesStayReadable`, `RegrantsStayNew` | `Spec => FileStaysReadable`, `Spec => RegrantsAreNew` | `StoreProofs` |
| `AnswersStayTrue` | `Spec => []AnswersAreTrue` | `StoreProofs` |
| `StoreImplementsContract` | `Spec => ImplementsContract` | `StoreProofs` |
| `FailuresAreOwn` | `Spec => OwnFailures`, the first half of `EveryRequestSettles` | `StoreProofs` |
| `RunnerInvCorrect` | `Spec => [](RunnerInv /\ Named /\ Traced)` | `RunnerProofs` |
| `OneCodexInAWorkspace` | `Spec => []OneCodexPerAgent` | `RunnerProofs` |
| `CancelsAreHonoured` | `Spec => []CancelledRunsSaySo` | `RunnerProofs` |
| `CancelsLeaveSilence` | `Spec => CancelLeavesSilence` | `RunnerProofs` |
| `RemovalsSpareLiveTurns` | `Spec => StrayRemovalsAreLate` | `RunnerProofs` |
| `FilesTypeCorrect`, `WorkspacesAlwaysSurvive` | `Spec => []TypeOK`, `Spec => []WorkspacesSurvive` | `AgentFilesProofs` |
| `FilesInvCorrect` | `Spec => [](TypeInv /\ FilesInv /\ CalmInv)` | `AgentFilesProofs` |
| `RunsReadTheRecord` | `Spec => []RunsSeeTheirInstructions` | `AgentFilesProofs` |
| `RecordsAndDirectoriesMatch` | `Spec => []RecordsMatchDirectories` | `AgentFilesProofs` |
| `UndoesSpareOthers` | `Spec => UndoSparesOthers` | `AgentFilesProofs` |
| `SessionInvCorrect` | `Spec => []SessionInv` | `WebProofs` |
| `LoopsAreUnique`, `PageIsOfItsPrincipal` | `Spec => []OneLoopPerRun`, `Spec => []NothingForeignIsShown` | `WebProofs` |
| `LoopsEndWithAReason` | `Spec => LoopsEndForAReason` | `WebProofs` |
| `EvidenceInvCorrect`, `FinalInvCorrect` | the inductive invariants of the evidence | `WebProofs` |
| `EvidenceBelongsToThePage` | `EvidenceSpec => []EvidenceIsOfThePage` | `WebProofs` |
| `ReceiptsGoForward` | `EvidenceSpec => EvidenceNeverGoesBack` | `WebProofs` |
| `FinalReceiptIsShown` | `EvidenceSpec => []FinalEvidenceIsShown` | `WebProofs` |
| `DelegationTypeCorrect`, `AdviceInvCorrect` | `Spec => []TypeOK`, `Spec => []AdviceInv` | `DelegationProofs` |
| `AdviceStaysCurrent`, `LoadingEndsWithAnAnswer` | `Spec => []AdviceIsCurrent`, `Spec => []LoadingIsAwaited` | `DelegationProofs` |
| `ChoiceStaysExplicit` | `Spec => []ChoiceIsExplicit` | `DelegationProofs` |
| `NothingForeignIsEverOffered` | `Spec => []NothingForeignIsOffered` | `DelegationProofs` |

The conditions are needed. A terminal write that fails leaves a Run running for
ever (section 5), and after a stop and a start a later send makes a second one; a death between the
announcement and the handoff leaves the announcement (run `crash_evidence`). `StopsAlone` says that no
stop is under way beside another stop or a delete of its Agent; two deletes exclude each other by the
file lock. With two stops at a time both properties fail (run `two_cancels`, and `QuietAfterDrain` on the
same instance); in `stop` and `delete` it holds of every state, for no request there can break it.

None of these is inductive by itself. The inductive invariants, in the order in
which they rest on each other:

`TypeInv` adds to the types

- `LockHolders`: whoever is at a step of `HoldSteps` is at the head of its
  Agent's lock. Without it releasing a lock could take the tail of an empty
  sequence. It is preserved because a lock only grows at its end, and loses its
  head only by a step of the head. Exclusion follows at once;
- `VerdictFits`: a Run that waits to be denied has a reason, and one in the catch
  clause or after it has an outcome. Without it `CommitFailure` and
  `CommitPreRunnerFailure` could publish a value that is no status.

`StaleInv` is about the ledger: the generation a request was authorized with, and
the one its Receipt names, have been reached by the pair's Entitlement; a denial
for staleness is on its way only when that generation is no longer current. A
grant of an inactive pair opens the next generation, so a generation that has
passed is never current again. It also carries which steps only Capsule Runs
take.

`RecordInv` has the store's queue (mutations only, no operation twice), the
Receipt that an evaluated mutation found (it is still there when the commit
replaces it, because nothing commits in between), the agreement of the two
records, and that no execution has anything left to write for a denied Run.

`OpenInv` widens the last: before its first commit a send has no record, an
execution with something left to write has a Run that has not ended, and a dead
server executes nothing. The last is what makes `initialize`, which ends Runs
from outside, compatible with the rest. `TerminalRecordsFrozen` then holds of
every step.

`DrainInv` says why an execution has its Agent alone. `Held`: from the admission's commit
to its own terminal commit an execution's Agent is busy, its Run has a record, and no
other execution of the Agent is at work. Whoever else writes the Agent has looked first
and is protected by something different in each case, which is what the other parts
say: an admission or a start checked the status when its callback ran and nothing commits before
its write (`Checked`); a delete has found neither admission nor execution and holds the
lock (`Drained`, `Pended`); a stop holds no lock, and the admission that comes after it
has looked is behind the stop's own write in the store's queue (`Drained`, `Queued`).
`Deleted` follows for an Agent that is gone. The cancellation flag plays no part in
it, so overlapping cancellations, which break `NoHandoffWhileAwaited`, do no harm here.

`Manned` gives each live process an execution that awaits it, and `LiveInv` adds to
`DrainInv`, as long as no write has failed, that a live Run has an execution that will
still write its end; hence `OneRunPerAgent`.

`HandedInv`, on top of `RunInv` (the conjunction of the five before it), follows the
handoff: before it nobody has been handed over, after it the Receipt says so until the
record goes. At the handoff itself the step's own check of the generation and `RecordInv`
give the authority of the Receipt. The refinement has one step of the contract for each
commit and for the handoff, and a stutter for everything else; what it needs of each
commit (that the Run has the status the contract starts from, that a denial finds the Run not
handed over) is `OpenInv`, `DrainInv` and `HandedInv`.

`Flagged` and `Quiet` are about a cancellation under `StopsAlone`. While a stop or delete is under way
its Agent's flag is up, since only its own finally clause lowers it; so a step towards the handoff, which
looks at the flag first, is not taken. After the drain (`Silent`) nothing of the Agent is registered, on the
way to it, or past the flag in the store's queue; an admission that is evaluated later finds the flag.
With `Manned` no process is left, and with `LiveInv` no live Run as long as no write has failed.

`StoreInv` says what the file, the temporary file, memory and the draft have to do with
each other at each stage of `persist` (`UpInv`, `StartingInv`): up to the rename the
file is what readers see, after it the file is the draft, and the draft is the effect
of the head of the queue on what readers see. `Chained` has each queued request once.
Durability follows directly; the refinement maps `Rename` to the contract's `Apply`,
`Publish` to `Acknowledge` and an upgrade to a stutter, for an upgraded file means
what the old one meant. A request that fails does so while nothing of it is on disk, in its own turn, and the step
that fails it is a throw, a refusal or a counted failure, which is what `Fail` of `AtomicStore` asks (`FailuresAreOwn`).
`AnswerInv` adds that a note on disk has a request that was
answered, died, or is just between rename and publication.

`FilesInv` is `WorkspacesSurvive` with what makes it inductive: a create works on a
directory without a record (`CreatesFirst`), commits only when the directory is whole
(`CommitsComplete`), and a delete is at work only on an Agent whose create has
committed (`DeletesLast`). It rests on ids being fresh (randomUUID).

`CalmInv` speaks of an undisturbed server. Between two of its steps an update, delete or create knows
what the first one has done (`UpdatesMid`, `DeletesMid`, `CreatesMid`), and one that undoes has met the
only failure there may be, so its undo succeeds. Where nobody is between two steps, AGENTS.md is that of the record
(`Current`), a record has its workspace (`Complete`), and no record means no directory (`NoLeftovers`).

`RunnerInv` ties the Runner's bookkeeping to its calls. `Registered`: the registry holds exactly the calls in
progress, so two of them are of different Agents. `ChildrenEnd`: a child outlives its call only when the server
has died, and a call without a child has asked nothing of the engine. `Awaited`: the call a cancel has found is
flagged until its verdict, which is then a cancellation; its outcome afterwards is none of a completion, a timeout
and a failure. `Named` gives a container the Agent of its call, so that what a name holds belongs to that Agent
across deaths. `Traced` follows a container back to its call: a Codex that works in one has a live client that a call
in progress awaits, or its removal failed, or its server died. A cancel that returns has waited for the end of its
client, so with `Traced` nothing is left but the last two cases.

`SessionInv` has what makes a late answer harmless: a task's Agent is that of its Run, and its
answer is about that Run (`TasksFit`, `ServerFits`); a shown Run is of the Agent rendered, or of the one whose
effect ran last, for a page that has not run its effect still shows the old Run (`Page`); and `pollingRunIds` is the set of
Runs that are polled (`LoopsFit`). `KnowledgeInv` adds what can be known of the server: nobody knows of a
Run whose send has not been served, and what somebody was told is over does not become live. That is why a loop
that ends has either seen the end or offers a retry.

The evidence rests on both. `EvidencePage` is `Page` for Receipt, denial, context and the question
that was asked last. `Ordered`: nothing is newer than the server's Receipt, and an answer that would still be taken, because its
question is the last, is no older than the Receipt shown. `FinalInv` follows the last question to its end: a loop that asked last goes on
or has brought the final Receipt, since the answer it ends with was read after the Run was over
(`AwaitedIsFinal`); a request nobody awaits is on its way or has brought it (`UnawaitedIsFinal`), except
after a failed request; a Run shown as over is over (`ShownIsOver`).

`AdviceInv` relates the panel to the questions out: the panel shows the answer to the last question, or waits
for it, and text, Principal and Agent are still those it was asked about (`Consulted`); no question has a revision that
the page has not reached (`Numbered`), and one whose answer would be taken is awaited by the panel (`Expected`). `OfferInv` adds that an answer
contains only Resources its own Principal has been entitled to, and that the listing out for the present
session is the session's own (`Entitled`). `ChoiceInv` says what a pick was made for at each point between a
selection and its effect; `ChoiceOnNext` shows for every action that it keeps the pick only where that still holds.

Each proof has one lemma per family of actions, and in it one step per action.
Frame lemmas (`UnchangedTyped`, `SteadyTyped`) and lemmas about the building
blocks (`Goto`, `Submit`, `JoinLock`, `ReleaseLock`, `Throw`, `Publish`) keep the
variables an action leaves alone out of the leaves; a lemma "a step of t to s"
per invariant (`LockStep`, `VerdictStep`, `KnownStep`, `QueueStep`, `RecordMove`,
`OpenMove`) does the rest.

Every invariant and every action property of the passing runs has a theorem. Model-checked only are the five
liveness properties: `RequestsSettle`, `EveryRequestSettles` (its second half), `TurnsAndCancelsEnd`, `EveryRequestEnds`
and `TasksEnd`. They rest on weak fairness, hence on ENABLED, which the prover does not reason
about. The theorems also leave the four violations of section 5 to TLC.

## 5. Where the code departs from its documents

Four runs are expected to end in a violation:

- `two_cancels` (`NoHandoffWhileAwaited`). `cancellationRequests` holds Agent
  ids, so two cancellations of an Agent share one flag and the first to end
  deletes it. stop 1 has drained and queues `stopped`; behind it a start and an
  admission are queued; stop 2 raises the same flag; stop 1 ends and lowers it
  before the admission's callback runs; the admission passes, and the Run starts
  the Runner while stop 2 waits for it. ADR-004 says such a request "remains
  active until admission either fails or registers its execution".
- `crash_evidence` (`SettledEvidenceMeansHandoff`). A death between the write of
  runnerStarted:true and the handoff: `initialize` cancels the Run and leaves the Receipt,
  which then says for good that the Runner was started. docs/ARCHITECTURE.md:114-116
  says the final value is true only when the handoff was attempted. What does hold across
  deaths is the other direction, `EvidenceIsWrittenAhead`.
- `absent_container` (`TurnsAndCancelsEnd`). A turn gets one `rm --force`. With an engine
  that reports success for a name that does not exist, a cancel or a timeout before
  the container has been created spends it, the container starts afterwards, and
  nothing ends the turn; README.md calls `CODEX_TIMEOUT_MS` the maximum duration of
  a turn. The tests' engine rejects in that case, and then (`MissingIsError`, run
  `runner`) all is well.
- `lost_retry` (`RetryStaysOffered`). A message is sent to an Agent; before it is
  answered, the user selects another Agent, whose Run is live. The requests of that
  Run's loop fail until the loop gives up, and the page offers to retry. Now the answer to the message
  arrives. Its `pollRun` has nothing to do, since its Agent is not selected, and returns
  at once; `setPollRetry(null)` (App.tsx:565) follows whichever Agent is selected, and
  withdraws the offer. The page shows the Run as live with its controls disabled, no
  loop and no retry. The final audit says of repeated failures that the page "exposes an
  explicit retry".

More departures the models have and no run reports, because they are close to
what the code accepts knowingly:

- If the write of the catch clause's own terminal mutation fails (agent-service.ts:977),
  the Run stays running on a busy Agent until a stop or a restart; the comment before
  executeRun's first mutation says a transient write failure must converge.
- A death between the commit of an update and the rewrite of AGENTS.md leaves the old
  instructions in the workspace until the next update (`RunsSeeTheirInstructions`
  fails with one crash); the workspace's README (workspace.ts:57) says AGENTS.md
  contains the current ones.
- The local Runner's Codex is an ordinary child (codex-runner.ts:133) that survives a
  killed server; the next server knows nothing of it, and a second Codex may work in the
  same workspace. `OneCodexPerAgent` exempts the local Runner after a crash; with
  containers it holds across deaths.
- `pollRun` refuses a second loop for a Run in `pollingRunIds` (App.tsx:458), also when
  the first is about to end. The user leaves an Agent and returns while the loop of its
  Run is between two of its checks, before it reads that the Run is over, so that the
  loop does not notice. The load of the selection is served while the Run is still live. The Run ends, the loop
  reads so and waits for onTerminal's answers, and the answer of the load arrives only
  then: it shows the Run as live again, no loop is started, the old one ends, and nobody
  follows the Run. A first load that a send overtakes does the same. A loop of an earlier
  session also keeps its Run in `pollingRunIds` until its timer fires, so that a change
  of the Principal there and back may find no loop.
- When `rm --force` fails, the container Runner kills the engine's client
  (container-codex-runner.ts:191-194); the client closes, the cancel returns true, and the container
  may go on working in the workspace of an Agent that is then shown as stopped, or
  deleted. `CancelLeavesSilence` excepts exactly this and what a dead server has left.
- A loop's answer may show a Run as over while the last Receipt taken is still the one of
  the running Run, for the two are read one after the other; the proof chain
  (resource-capsule.tsx:212-232) then says "The allowed Run ended before Runner
  invocation." until the next answer. .scratch/run-scoped-resource-capsule/spec.md:316-317
  says the page does not infer execution from timing. `FinalEvidenceIsShown` is
  stated for a page at rest.
- A load that is answered after a send asks for the Receipt of the Run it found, which is the
  older one; that answer then is the last that was asked for, and after a baseline send it also sets
  the delegated context (App.tsx:259-260). The proof chain stays "correlation pending", or
  stands on the older Run's context. `EvidenceIsOfThePage` speaks of the Agent.
- A suggestion that is accepted may name a Resource that the catalog, read once per
  session, does not list; the panel then says "Next Run · No Resource" though the pick is
  sent. The server decides on it as on every other.

`NoHandoffDuringCancel` and `QuietAfterDrain` are checked with one stop (run `stop`); with two they fail
as `two_cancels` shows, and the theorems have `StopsAlone` as their condition.

## 6. Not modelled

In the server: the messages of a Run, redaction, the refusal of Runs when no Ark key
is configured, correlation mismatches of Receipts (the service passes the Run's own
ids), several Resources in one request (the API allows one), parsing of requests, configuration,
parsing of Codex events, the splitting of texts into terms, the checks of paths (their verdict is open),
the one-time checks of directories at start-up, and the ENOENT of a temporary file that
another process removes during start-up (store.ts:281). In the page: messages, the
Agents' forms, wording and layout. Components with status `not_modelled` are I/O,
parsing or rendering; those that are partly modelled say in PROJECT.json what is left out.

## 7. Plan

1. The remaining conditions of theorems: `OneRunPerAgent` after a failed write that is not a
   terminal one, `EvidenceIsTruthful` after a death that is not between announcement and handoff.
2. Facts about the operators of `EntitlementLedger` (migration, backfill, grant, revoke) as lemmas
   about every ledger, where `StoreProofs` now has what its steps need.
3. `PathRules`: the validation of resource paths and of managed roots as operators,
   against reference definitions over bounded inputs.
4. A run with a stranger's requests and an unregistered Resource.

A run answers one question about one instance; new questions go first to an
existing run, so that the whole set stays quick to check. Runs of `RunLifecycle` keep
to one Agent and two of each contended request; the theorems remove those bounds for
the safety properties.
