----------------------------- MODULE RunEvidence -----------------------------
(***************************************************************************)
(* The evidence the Web client shows beside a Run: its Decision Receipt,   *)
(* the denial, and what the user delegated to it (submittedCapsule).       *)
(*                                                                         *)
(* Each step is a step of WebSession and what it does to the evidence.     *)
(* Receipts are asked for by the polling loops, and by requests that       *)
(* nobody awaits: after a send, and after the load of a Run that is over.  *)
(* A Receipt changes while its Run is live; its version counts how often.  *)
(***************************************************************************)
EXTENDS WebSession

CONSTANTS
  Capsules  \* the Runs that a Resource is delegated to; they have a Receipt

ASSUME EvidenceAssumption ==
  /\ Capsules \subseteq Runs
  /\ None \notin [run : Runs, task : Tasks, awaited : BOOLEAN] \cup [run : Runs, version : 0..2]

VARIABLES
  version,  \* the server: the version of each Receipt
  receipt,  \* activeReceipt, or None
  denied,   \* deniedRun
  context,  \* the Run that submittedCapsule names
  seen,     \* the version that the answer to a loop's request holds
  proof,    \* the requests that nobody awaits
  asked     \* who has asked last: receiptRequestRef, or None once it is moved on

shown == <<receipt, denied, context>>
requests == <<seen, proof, asked>>
evidence == <<version, shown, requests>>
evars == <<vars, evidence>>

\* The requests are named for the Run and for the task that starts them.
Proofs == {p \in Runs \X Tasks : p[2] \in Sends => p[2][2] = p[1]}
Ticket(r, t, awaited) == [run |-> r, task |-> t, awaited |-> awaited]
NoProof == [pc |-> "idle", epoch |-> 0, version |-> 0]

EvidenceInit ==
  /\ version = [r \in Runs |-> 0]
  /\ receipt = None /\ denied = None /\ context = None
  /\ seen = [t \in Tasks |-> 0]
  /\ proof = [p \in Proofs |-> NoProof] /\ asked = None

-----------------------------------------------------------------------------
(* loadReceipt *)

\* What the server says of a Run: a Capsule Run's Receipt, or none.
ReceiptOf(r, v) == IF r \in Capsules THEN [run |-> r, version |-> v] ELSE None

\* Mutant: every answer is taken that is about the Agent shown.
WantedByPage(ticket, e) == ref = AgentOf[ticket.run]

\* An answer is taken if nobody has asked since, and the page is still that of the
\* Principal and of the Agent.
Wanted(ticket, e) == e = epoch /\ asked = ticket /\ ref = AgentOf[ticket.run]

\* A context that is there already stays.
Take(r, v) ==
  /\ receipt' = ReceiptOf(r, v)
  /\ context' = IF context = None /\ r \in Capsules THEN r ELSE context
  /\ UNCHANGED denied

Answered(ticket, e, v) ==
  IF Wanted(ticket, e) THEN Take(ticket.run, v) ELSE UNCHANGED shown

Ask(p) ==
  /\ proof' = [proof EXCEPT ![p] = [pc |-> "out", epoch |-> epoch, version |-> 0]]
  /\ asked' = Ticket(p[1], p[2], FALSE)
  /\ UNCHANGED seen

ServeProof(p) ==
  /\ proof[p].pc = "out"
  /\ proof' = [proof EXCEPT ![p].pc = "served", ![p].version = version[p[1]]]
  /\ UNCHANGED <<vars, version, shown, seen, asked>>

ProofArrives(p) ==
  /\ proof[p].pc = "served"
  /\ proof' = [proof EXCEPT ![p] = NoProof]
  /\ Answered(Ticket(p[1], p[2], FALSE), proof[p].epoch, proof[p].version)
  /\ UNCHANGED <<vars, version, seen, asked>>

ProofFails(p) ==
  /\ proof[p].pc # "idle" /\ lost < MaxLost /\ lost' = lost + 1
  /\ proof' = [proof EXCEPT ![p] = NoProof]
  /\ UNCHANGED <<server, identity, lists, view, run, task, selects, version, shown, seen,
                 asked>>

-----------------------------------------------------------------------------
(* The steps of the page *)

\* Mutant: the denial stays.
ClearButDenial == receipt' = None /\ context' = None /\ asked' = None /\ UNCHANGED denied

\* A new page, or a new send: nothing is shown, and requests that are out are too late.
Clear == receipt' = None /\ denied' = None /\ context' = None /\ asked' = None

KeepEvidence == UNCHANGED evidence

NewPage ==
  /\ \/ \E a \in Agents : Select(a) /\ effectFor # effectFor'
     \/ \E p \in Principals : SwitchSession(p)
     \/ \E t \in Sends : Send(t)
     \/ Effect
  /\ Clear /\ UNCHANGED <<version, seen, proof>>

\* Only a Run that a Resource is delegated to is denied with a record.
Judge(t) ==
  /\ ServeSend(t)
  /\ latest' # latest /\ live' = live => task[t].run \in Capsules

SamePage ==
  /\ \/ \E a \in Agents : Select(a) /\ effectFor = effectFor'
     \/ \E t \in Tasks : Retry(t) \/ Judge(t) \/ Wake(t) \/ ListArrives(t)
     \/ \E r \in Runs : RunEnds(r)
     \/ Render
     \/ Rest /\ \A p \in Proofs : proof[p] = NoProof
  /\ KeepEvidence

ServeRead(t) ==
  /\ Serve(t)
  /\ seen' = IF task[t].run = None THEN seen ELSE [seen EXCEPT ![t] = version[task[t].run]]
  /\ UNCHANGED <<version, shown, proof, asked>>

\* A Run that is over is loaded with its Receipt; of another the loop asks for it.
Load(t) ==
  /\ LoadArrives(t)
  /\ LET r == task[t].body.run IN
     IF LoadIsWanted(t) /\ r # None /\ r \notin task[t].body.live
     THEN Ask(<<r, t>>) ELSE UNCHANGED requests
  /\ UNCHANGED <<version, shown>>

OfLoop(t) == Ticket(task[t].run, t, TRUE)

\* A loop that goes on asks for the Receipt, of a live Run and of one that has ended.
Fetch(t) ==
  /\ FetchArrives(t)
  /\ asked' = IF task'[t].pc \in {"refreshing", "finishing"} THEN OfLoop(t) ELSE asked
  /\ UNCHANGED <<version, shown, seen, proof>>

\* Mutant: the Receipt is not asked for when the Run has ended.
RefreshWhileLive(t) ==
  /\ RefreshArrives(t) \/ FinishArrives(t)
  /\ IF At(t, "refreshing") THEN Answered(OfLoop(t), task[t].epoch, seen[t])
                            ELSE UNCHANGED shown
  /\ UNCHANGED <<version, requests>>

Refresh(t) ==
  /\ RefreshArrives(t) \/ FinishArrives(t)
  /\ Answered(OfLoop(t), task[t].epoch, seen[t])
  /\ UNCHANGED <<version, requests>>

\* A send is answered.  What was delegated is known from the request.
ContextOf(r) == IF r \in Capsules THEN r ELSE None

Sent(t) ==
  LET r == task[t].run
      here == ref = task[t].agent
      isDenial == task[t].body.run = r /\ r \notin task[t].body.live IN
  /\ SendArrives(t)
  /\ IF Fresh(t) /\ here
     THEN /\ context' = IF task[t].body.run = None THEN None ELSE ContextOf(r)
          /\ denied' = IF isDenial THEN r ELSE denied
          /\ IF r \in Capsules /\ task[t].body.run = r THEN Ask(<<r, t>>)
                                                      ELSE UNCHANGED requests
     ELSE UNCHANGED <<context, denied, requests>>
  /\ UNCHANGED <<version, receipt>>

\* Of the three requests of onTerminal the Receipt may be answered when another fails: here
\* at that moment or never, in the code also a little later.
\* A loop hears of a failure of loadReceipt only if nobody has asked since.
LoseRequest(t) ==
  /\ Lose(t)
  /\ At(t, "refreshing") => asked = OfLoop(t)
  /\ \/ /\ Arrived(t, "finishing")
        /\ Answered(OfLoop(t), task[t].epoch, seen[t])
     \/ /\ At(t, "sending") /\ ref = task[t].agent
        /\ context' = None /\ UNCHANGED <<receipt, denied>>
     \/ /\ ~(At(t, "sending") /\ ref = task[t].agent)
        /\ UNCHANGED shown
  /\ UNCHANGED <<version, requests>>

\* The server: a Receipt changes while its Run is live (RunLifecycle).
ReceiptChanges(r) ==
  /\ r \in live \cap Capsules /\ version[r] < 2
  /\ version' = [version EXCEPT ![r] = @ + 1]
  /\ UNCHANGED <<vars, shown, requests>>

ProofStep(p) == ServeProof(p) \/ ProofArrives(p) \/ ProofFails(p)

PageStep(t) ==
  \/ ServeRead(t) \/ Load(t) \/ Fetch(t) \/ Refresh(t) \/ Sent(t) \/ LoseRequest(t)

EvidenceNext ==
  \/ NewPage \/ SamePage
  \/ \E t \in Tasks : PageStep(t)
  \/ \E p \in Proofs : ProofStep(p)
  \/ \E r \in Runs : ReceiptChanges(r)

EvidenceSpec == Init /\ EvidenceInit /\ [][EvidenceNext]_evars
=============================================================================
