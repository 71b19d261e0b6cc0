--------------------------- MODULE StoreProperties ---------------------------
(***************************************************************************)
(* What must hold of the JSON store, and of the Entitlements kept in it.   *)
(***************************************************************************)
EXTENDS JsonStore

\* The histories as they are on disk, none of them before version 2.
Ledger == IF file \in {Absent, Torn} THEN [p \in Pairs |-> {}] ELSE file.ledger

\* A read is never ahead of the disk: what the server shows is what a restart
\* would find, except between a rename and the publication that follows it,
\* when the disk is one commit ahead (mutate: persist, then this.data = next).
ReadsAreDurable ==
  server = "up" => file = IF stage = "renamed" THEN draft ELSE data

\* Answers tell the truth for ever.  Whatever was answered is on disk, through
\* any later failure, crash and upgrade: the note, the granted generation, the
\* revoked one.  A note that was refused or whose write failed is not there.
\* This is about all mutations working on a copy of the published data.
AnswersAreTrue ==
  \A t \in Requests :
    /\ pc[t] = "done" /\ t \in Notes => t \in file.notes
    /\ pc[t] = "done" /\ t \in Grants =>
         \E e \in Ledger[PairOf[t]] : e.gen = result[t]
    /\ pc[t] = "done" /\ t \in Revokes =>
         [gen |-> result[t], status |-> "revoked"] \in Ledger[PairOf[t]]
    /\ pc[t] = "failed" /\ t \in Notes /\ file \notin {Absent, Torn} =>
         t \notin file.notes

\* No step makes a readable file unreadable: the process can die in the middle
\* of any write, and the next start finds a whole file that its schema accepts
\* (persist writes beside the file and renames).
FileStaysReadable == [][Readable(file) => Readable(file')]_vars

\* Access that was revoked comes back only under a new number, and numbers never
\* fall: not by a grant, not by a retry of one, not by a restart that backfills
\* or migrates.  It is what lets a Run hold on to a generation.
RegrantsAreNew ==
  [][\A p \in Pairs :
       LET old == Ledger[p]
           new == Ledger'[p]
       IN  /\ LatestGeneration(new) >= LatestGeneration(old)
           /\ old # {} /\ ~IsActive(old) /\ IsActive(new) =>
                LatestGeneration(new) > LatestGeneration(old)]_vars

\* The store implements AtomicStore.  A mutation takes effect when the file is
\* renamed; migration and backfill are part of what the file means, so that a
\* start changes nothing.
Progress(t) ==
  IF AtHead(t) /\ stage = "renamed" THEN "applied"
  ELSE IF pc[t] \in {"new", "queued"} THEN "open" ELSE pc[t]

Contract == INSTANCE AtomicStore WITH
              contents <- Upgraded(file),
              outcome <- [t \in Requests |-> Progress(t)],
              answer <- result,
              faults <- faults

ImplementsContract == Contract!Spec

\* A mutation that was accepted fails only in its own turn and for a reason of
\* its own: a write of it failed, or, with the data on disk at that moment, it
\* throws or leaves what the schema rejects.
OwnFailures ==
  [][\A t \in Requests :
       pc[t] = "queued" /\ pc'[t] = "failed" =>
         /\ AtHead(t)
         /\ faults' > faults \/ (stage = "idle" /\ ~Succeeds(t, file))]_vars

\* A mutation that fails does not break the promise chain for those behind it
\* (store.ts:306, where the rejection is caught): each one that was accepted has
\* its turn and fails only on its own account, and each one is answered, or lost
\* with its process.
EveryRequestSettles ==
  /\ OwnFailures
  /\ \A t \in Requests : pc[t] = "queued" ~> pc[t] \in Answered

=============================================================================
