------------------------- MODULE EvidenceProperties -------------------------
(***************************************************************************)
(* What must hold of the evidence that the Web client shows.               *)
(***************************************************************************)
EXTENDS RunEvidence

\* Of one Run the page never replaces a Receipt by an older one, however the answers to
\* the loops, to sends and to loads overtake one another.
EvidenceNeverGoesBack ==
  [][receipt # None /\ receipt' # None /\ receipt.run = receipt'.run =>
       receipt'.version >= receipt.version]_evars

\* Whatever is still on its way, the Receipt, the denial and the delegated context that a
\* rendered page shows are those of Runs of the Agent that is selected.
EvidenceIsOfThePage ==
  ref = selected /\ effectFor = ref =>
    /\ receipt # None => AgentOf[receipt.run] = ref
    /\ \A r \in {denied, context} \ {None} : AgentOf[r] = ref

AtRest ==
  /\ \A t \in Tasks : task[t].pc \in {"idle", "done"}
  /\ \A p \in Proofs : proof[p].pc = "idle"
  /\ ref = selected /\ effectFor = ref

\* Once nothing is on its way, the Receipt that is shown beside a Run that is over is its
\* final one, if the page has last asked for the Receipt of that Run: a loop that meets a
\* failed request asks again, and only a request that nobody awaits is lost for good.
FinalEvidenceIsShown ==
  /\ AtRest /\ activeRun # None /\ ~activeRun.live
  /\ asked # None /\ asked.run = activeRun.id
  /\ IF asked.awaited THEN lost < MaxErrors ELSE lost = 0
  => receipt = ReceiptOf(activeRun.id, version[activeRun.id])
=============================================================================
