------------------------------ MODULE JsonStore ------------------------------
(***************************************************************************)
(* JsonStore and the Entitlement mutations that run in it.  Mutations are  *)
(* queued on one promise chain.  Each one works on a copy of the published *)
(* data, is checked against the schema, written to a temporary file that   *)
(* then replaces the database file, and only then published in memory.     *)
(* The process may die between any two steps and be started again; it then *)
(* reads the file, migrates version 1 and backfills version 2.             *)
(***************************************************************************)
EXTENDS EntitlementLedger, Sequences

CONSTANTS
  InitialFiles, \* what an earlier version may have left on disk, with nothing
                \* yet by the requests of this behaviour
  MaxCrashes,   \* bound: deaths of the process
  MaxFaults     \* bound: failed writes and renames

ASSUME StoreAssumption ==
  /\ InitialFiles \subseteq Contents \cup {Absent, Torn}
  /\ \A f \in InitialFiles \cap Contents :
       f.notes = {} /\ (f.version = 1 => FitsVersion1(f))
  /\ MaxCrashes \in Nat /\ MaxFaults \in Nat

VARIABLES
  file,     \* the database file
  tmp,      \* the temporary file beside it
  server,   \* "down", "starting", "up", or "refused" after a bad file
  data,     \* the published copy in memory
  draft,    \* the copy that is being persisted
  stage,    \* the await inside persist, "idle" outside of it
  queue,    \* the mutations on the promise chain, in order
  pc,       \* where each request is
  result,   \* what it was answered with
  crashes, faults

disk == <<file, tmp>>
memory == <<data, draft, stage>>
requests == <<queue, pc, result>>
bounds == <<crashes, faults>>
vars == <<disk, server, memory, requests, bounds>>

Persisting == {"opening", "writing", "renaming"}

Init ==
  /\ file \in InitialFiles /\ tmp = Absent
  /\ server = "down"
  /\ data = EmptyDatabase /\ draft = EmptyDatabase /\ stage = "idle"
  /\ queue = <<>>
  /\ pc = [t \in Requests |-> "new"]
  /\ result = [t \in Requests |-> 0]
  /\ crashes = 0 /\ faults = 0

-----------------------------------------------------------------------------
(* Requests *)

Refuse(t) ==
  /\ server = "up" /\ pc[t] = "new" /\ Forbidden(t)
  /\ pc' = [pc EXCEPT ![t] = "failed"]
  /\ UNCHANGED <<disk, server, memory, queue, result, bounds>>

Submit(t) ==
  /\ server = "up" /\ pc[t] = "new" /\ ~Forbidden(t)
  /\ pc' = [pc EXCEPT ![t] = "queued"]
  /\ queue' = Append(queue, t)
  /\ UNCHANGED <<disk, server, memory, result, bounds>>

AtHead(t) == server = "up" /\ queue # <<>> /\ t = Head(queue)

\* Mutant: a failure is not caught on the chain, and rejects all that wait.
SettleUncaught(t, how) ==
  /\ pc' = IF how = "failed"
           THEN [u \in Requests |-> IF pc[u] = "queued" THEN "failed" ELSE pc[u]]
           ELSE [pc EXCEPT ![t] = how]
  /\ queue' = IF how = "failed" THEN <<>> ELSE Tail(queue)
  /\ stage' = "idle"

\* The operation of t settles and the chain continues with the next one.
Settle(t, how) ==
  /\ pc' = [pc EXCEPT ![t] = how]
  /\ queue' = Tail(queue)
  /\ stage' = "idle"

\* The callback throws, or leaves data that the schema rejects.
Reject(t) ==
  /\ AtHead(t) /\ stage = "idle" /\ ~Succeeds(t, data)
  /\ Settle(t, "failed")
  /\ UNCHANGED <<disk, server, data, draft, result, bounds>>

\* Mutant: works on the last draft instead of a copy of the published data.
EvaluateOnDraft(t) ==
  /\ AtHead(t) /\ stage = "idle" /\ Succeeds(t, data)
  /\ draft' = Effect(t, draft)
  /\ stage' = "opening"
  /\ UNCHANGED <<disk, server, data, requests, bounds>>

\* Mutant: works on the published data itself.
EvaluateInPlace(t) ==
  /\ AtHead(t) /\ stage = "idle" /\ Succeeds(t, data)
  /\ draft' = Effect(t, data) /\ data' = draft'
  /\ stage' = "opening"
  /\ UNCHANGED <<disk, server, requests, bounds>>

Evaluate(t) ==
  /\ AtHead(t) /\ stage = "idle" /\ Succeeds(t, data)
  /\ draft' = Effect(t, data)
  /\ stage' = "opening"
  /\ UNCHANGED <<disk, server, data, requests, bounds>>

\* Mutant: does not wait for the rename.
PublishEarly(t) ==
  /\ AtHead(t) /\ stage \in {"renaming", "renamed"}
  /\ data' = draft
  /\ Settle(t, "done")
  /\ result' = [result EXCEPT ![t] = Answer(t, draft)]
  /\ UNCHANGED <<disk, server, draft, bounds>>

Publish(t) ==
  /\ AtHead(t) /\ stage = "renamed"
  /\ data' = draft
  /\ Settle(t, "done")
  /\ result' = [result EXCEPT ![t] = Answer(t, draft)]
  /\ UNCHANGED <<disk, server, draft, bounds>>

-----------------------------------------------------------------------------
(* persist *)

Alive == server \in {"starting", "up"}

\* Mutant: writes the database file itself.
OpenInPlace ==
  /\ Alive /\ stage = "opening" /\ stage' = "writing"
  /\ file' = Torn
  /\ UNCHANGED <<tmp, server, data, draft, requests, bounds>>

\* writeFile truncates the temporary file, whatever it held.
OpenTemporary ==
  /\ Alive /\ stage = "opening" /\ stage' = "writing"
  /\ tmp' = Torn
  /\ UNCHANGED <<file, server, data, draft, requests, bounds>>

FillTemporary ==
  /\ Alive /\ stage = "writing" /\ stage' = "renaming"
  /\ tmp' = draft
  /\ UNCHANGED <<file, server, data, draft, requests, bounds>>

Rename ==
  /\ Alive /\ stage = "renaming" /\ stage' = "renamed"
  /\ file' = tmp /\ tmp' = Absent
  /\ UNCHANGED <<server, data, draft, requests, bounds>>

PersistFails(t) ==
  /\ AtHead(t) /\ stage \in Persisting
  /\ faults < MaxFaults /\ faults' = faults + 1
  /\ Settle(t, "failed")
  /\ UNCHANGED <<disk, server, data, draft, result, crashes>>

-----------------------------------------------------------------------------
(* initialize and the death of the process *)

\* A file that already is as it should be is taken over, not rewritten.
Load ==
  /\ server = "down" /\ Readable(file) /\ Upgraded(file) = file
  /\ server' = "up" /\ data' = file
  /\ UNCHANGED <<disk, draft, stage, requests, bounds>>

Upgrade ==
  /\ server = "down" /\ Readable(file) /\ Upgraded(file) # file
  /\ server' = "starting" /\ stage' = "opening"
  /\ draft' = Upgraded(file)
  /\ UNCHANGED <<disk, data, requests, bounds>>

FinishUpgrade ==
  /\ server = "starting" /\ stage = "renamed"
  /\ server' = "up" /\ stage' = "idle"
  /\ data' = draft
  /\ UNCHANGED <<disk, draft, requests, bounds>>

RefuseFile ==
  /\ server = "down" /\ ~Readable(file)
  /\ server' = "refused"
  /\ UNCHANGED <<disk, memory, requests, bounds>>

\* The memory of a new process.
Restarted == data' = EmptyDatabase /\ draft' = EmptyDatabase /\ stage' = "idle"

\* initialize rejects, and with it the entry point of the server.
UpgradeFails ==
  /\ server = "starting" /\ stage \in Persisting
  /\ faults < MaxFaults /\ faults' = faults + 1
  /\ server' = "down" /\ Restarted
  /\ UNCHANGED <<disk, requests, crashes>>

Crash ==
  /\ Alive
  /\ crashes < MaxCrashes /\ crashes' = crashes + 1
  /\ server' = "down" /\ Restarted
  /\ queue' = <<>>
  /\ pc' = [t \in Requests |-> IF pc[t] = "queued" THEN "lost" ELSE pc[t]]
  /\ UNCHANGED <<disk, result, faults>>

-----------------------------------------------------------------------------

Answered == {"done", "failed", "lost"}

\* The only ways to stand still.
Rest ==
  /\ server = "refused" \/ (server = "up" /\ \A t \in Requests : pc[t] \in Answered)
  /\ UNCHANGED vars

Mutate(t) == Reject(t) \/ Evaluate(t) \/ Publish(t)
Persist == OpenTemporary \/ FillTemporary \/ Rename
Start == Load \/ Upgrade \/ FinishUpgrade \/ RefuseFile

Next ==
  \/ \E t \in Requests : Refuse(t) \/ Submit(t) \/ Mutate(t) \/ PersistFails(t)
  \/ Persist \/ Start \/ UpgradeFails \/ Crash
  \/ Rest

Spec == Init /\ [][Next]_vars

\* Settled promises continue, the file system answers, and somebody starts the
\* server again.  Requests, failures and crashes are not fair.
Fairness ==
  /\ WF_vars(\E t \in Requests : Mutate(t))
  /\ WF_vars(Persist)
  /\ WF_vars(Start)

FairSpec == Spec /\ Fairness

-----------------------------------------------------------------------------

\* Types: what the files, the memory and the requests hold.
TypeOK ==
  /\ file \in Contents \cup {Absent, Torn}
  /\ tmp \in Contents \cup {Absent, Torn}
  /\ server \in {"down", "starting", "up", "refused"}
  /\ data \in Contents /\ draft \in Contents
  /\ stage \in Persisting \cup {"idle", "renamed"}
  /\ queue \in Seq(Requests)
  /\ pc \in [Requests -> Answered \cup {"new", "queued"}]
  /\ result \in [Requests -> Nat]
  /\ crashes \in 0..MaxCrashes /\ faults \in 0..MaxFaults
=============================================================================
