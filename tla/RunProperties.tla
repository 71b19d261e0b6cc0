---------------------------- MODULE RunProperties ---------------------------
(***************************************************************************)
(* What the Run lifecycle must do and must never do.                       *)
(***************************************************************************)
EXTENDS RunLifecycle

-----------------------------------------------------------------------------
(* Safety *)

RunsOf(a) == {r \in Runs : AgentOf[r] = a}

\* An Agent is busy exactly while one Run record of its own is queued or
\* running, and never while two are: the admission mutation, the five terminal
\* mutations, stopAgent and a restart together keep the pair in step.
OneRunPerAgent ==
  \A a \in Agents :
    LET live == {r \in RunsOf(a) : run[r] \in Running} IN
    /\ \A r, s \in live : r = s
    /\ (agent[a] = "busy") <=> (live # {})

\* Between the lock and its release: what runs inside withAgentFileOperation.
FileSteps ==
  {"admitting", "denying", "launching", "unwinding", "returning", "killing",
   "draining", "awaitAdmissions", "awaitRun", "archiving", "removing",
   "restoring"}

\* The file operations of one Agent exclude each other, sends and deletes
\* alike: nothing is admitted while a delete moves the workspace away.
OneFileOperation ==
  \A t, u \in Runs \cup Deletes :
    /\ AgentOf[t] = AgentOf[u]
    /\ pc[t] \in FileSteps /\ pc[u] \in FileSteps
    => t = u

\* From the moment a stop or delete has drained the Agent until it answers,
\* no Run of the Agent is queued or running, no execution is registered and no
\* Codex process lives: what stopAgent and deleteAgent rely on when they write.
QuietAfterDrain ==
  \A t \in Cancels :
    pc[t] \in {"settingStopped", "archiving", "removing", "restoring",
               "returning"} =>
      LET a == AgentOf[t] IN
      /\ active[a] = None /\ runner[a] = None
      /\ \A r \in RunsOf(a) : run[r] \notin Running

\* A deleted Agent leaves nothing behind: no Run record, no Receipt, no
\* execution and no Codex process, however the delete met a send.
NothingOfDeletedAgent ==
  \A a \in Agents :
    agent[a] = "absent" =>
      /\ active[a] = None /\ pending[a] = {} /\ runner[a] = None
      /\ \A r \in RunsOf(a) : run[r] = "none" /\ receipt[r] = NoReceipt

\* A Run record and its Receipt tell one story: a Capsule Run has a Receipt
\* and a baseline Run has none, a Run is denied exactly when its Receipt
\* denies, and a denial never claims a Runner (ADR-004: one atomic commit).
ReceiptMatchesRun ==
  \A r \in Runs :
    /\ run[r] = "none" => receipt[r] = NoReceipt
    /\ run[r] # "none" => (receipt[r] # NoReceipt <=> Capsule(r))
    /\ run[r] = "denied" <=> receipt[r].decision = "deny"
    /\ receipt[r].started => receipt[r].decision = "allow"

\* A Receipt that denies with stale_entitlement_generation is right for ever:
\* no later grant makes the generation it names current again, so a client's
\* retry can only be admitted under a new generation.
StaleDenialIsTrue ==
  \A r \in Runs :
    receipt[r].reason = "stale_entitlement_generation" =>
      ~ (ent[PairOf(r)].active /\ ent[PairOf(r)].gen = receipt[r].gen)

\* Once a Run is terminal, its Receipt says runnerStarted exactly when the
\* Runner was called, through every cancellation, denial and failed write.
EvidenceIsTruthful ==
  \A r \in Runs :
    run[r] \in Terminal /\ Capsule(r) => (receipt[r].started <=> r \in attempted)

\* Write-ahead evidence: whenever the Runner has been called for a Capsule Run,
\* the database says so already and never takes it back, so that no crash, failed
\* write or late cancellation can hide an execution from the Receipt.
EvidenceIsWrittenAhead ==
  \A r \in Runs :
    Capsule(r) /\ r \in attempted /\ run[r] # "none" =>
      receipt[r].decision = "allow" /\ receipt[r].started

\* What docs/ARCHITECTURE.md says of the settled Receipt, restarts included:
\* runnerStarted is stored true only when the handoff was attempted.
SettledEvidenceMeansHandoff ==
  \A r \in Runs :
    run[r] \in Terminal /\ receipt[r].started => r \in attempted

-----------------------------------------------------------------------------
(* Action properties *)

HandedOff(r) == r \notin attempted /\ r \in attempted'

\* The Runner is called for a Capsule Run only while the database itself shows
\* the Run running, its allow Receipt with runnerStarted:true, and the very
\* generation of that Receipt active.
HandoffIsAuthorized ==
  [][\A r \in Runs : HandedOff(r) =>
       /\ run[r] = "running" /\ agent[AgentOf[r]] = "busy"
       /\ Capsule(r) =>
            /\ receipt[r].decision = "allow" /\ receipt[r].started
            /\ ent[PairOf(r)].active /\ ent[PairOf(r)].gen = receipt[r].gen]_vars

\* A stop or delete that has been requested is never overtaken by a handoff
\* to the Runner, not even when it arrived while the admission was being
\* written.
InProgress(t) ==
  pc[t] \in {"killing", "draining", "awaitAdmissions", "awaitRun",
             "settingStopped", "archiving", "removing", "restoring"}
NoHandoffDuringCancel ==
  [][\A r \in Runs : HandedOff(r) =>
       \A t \in Cancels : AgentOf[t] = AgentOf[r] => ~InProgress(t)]_vars

\* The weaker half of it: once a stop or delete is already waiting for an
\* execution to end, that execution does not start the Runner any more.
NoHandoffWhileAwaited ==
  [][\A r \in Runs : HandedOff(r) =>
       \A t \in Cancels : pc[t] = "awaitRun" => r \notin waitFor[t]]_vars

\* Terminal records are final: a Run that has ended and its Receipt change
\* no more, except that a delete removes both.
TerminalRecordsFrozen ==
  [][\A r \in Runs : run[r] \in Terminal =>
       \/ run'[r] = run[r] /\ receipt'[r] = receipt[r]
       \/ run'[r] = "none" /\ receipt'[r] = NoReceipt
                           /\ agent'[AgentOf[r]] = "absent"]_vars

-----------------------------------------------------------------------------
(* Refinement *)

Contract == INSTANCE RunContract WITH
  Capsules <- {r \in Runs : Capsule(r)},
  decision <- [r \in Runs |-> receipt[r].decision],
  started  <- [r \in Runs |-> receipt[r].started],
  handed   <- attempted

\* The server keeps the contract about Runs: every step of it, failed writes,
\* crashes and restarts included, is one step of the contract or none.
ImplementsRunContract == Contract!Spec

-----------------------------------------------------------------------------
(* Liveness *)

\* Every request comes to rest: the file lock, the store queue and the waits of
\* cancelExecution strand nobody, so in the end every stop and delete has been
\* answered, every send has left the lock, and every admitted Run has ended or
\* gone with its Agent, unless a failed write kept its end out of the database.
RequestsSettle ==
  <>[](/\ \A t \in Cancels : pc[t] \in {"idle"} \cup Answered
       /\ \A r \in Runs :
            /\ pc[r] \notin {"awaitAdmit", "awaitDeny", "admitting", "denying"}
            /\ faults > 0 \/ run[r] \notin Running)
=============================================================================
