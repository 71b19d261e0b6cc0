----------------------------- MODULE RunContract -----------------------------
(***************************************************************************)
(* What the server promises the owner of an Agent about each Run, with no  *)
(* word about locks, queues, flags, file writes or restarts: which records *)
(* a client may ever read, and what they tell of the Runner.               *)
(*                                                                         *)
(* A Capsule Run announces its handoff in the Receipt before it happens,   *)
(* takes the announcement back only if it does not happen, completes only  *)
(* after it happened, and is denied only if it never happened.             *)
(***************************************************************************)
CONSTANTS
  Runs, Agents,
  AgentOf,   \* the Agent each request is about
  Capsules   \* the requests that name a Resource

VARIABLES
  run,       \* status of each Run record, "none" while there is no record
  decision,  \* decision of each Receipt, "none" while there is none
  started,   \* runnerStarted of each Receipt
  handed     \* the Runs the Runner was called for

vars == <<run, decision, started, handed>>

Live == {"queued", "running"}
Ended == {"completed", "failed", "cancelled", "denied"}

Init ==
  /\ run = [r \in Runs |-> "none"]
  /\ decision = [r \in Runs |-> "none"]
  /\ started = [r \in Runs |-> FALSE]
  /\ handed = {}

Becomes(r, status) == run' = [run EXCEPT ![r] = status]
Says(r, what) == decision' = [decision EXCEPT ![r] = what]
Announces(r, yes) == started' = [started EXCEPT ![r] = yes]

Admit(r) ==
  /\ run[r] = "none" /\ r \notin handed
  /\ Becomes(r, "queued")
  /\ IF r \in Capsules THEN Says(r, "allow") ELSE UNCHANGED decision
  /\ UNCHANGED <<started, handed>>

Deny(r) ==
  /\ r \in Capsules /\ run[r] = "none" /\ r \notin handed
  /\ Becomes(r, "denied") /\ Says(r, "deny")
  /\ UNCHANGED <<started, handed>>

Begin(r) ==
  /\ run[r] = "queued" /\ Becomes(r, "running")
  /\ UNCHANGED <<decision, started, handed>>

\* Before the handoff a Receipt may be brought to say either.
Announce(r) ==
  /\ r \in Capsules /\ run[r] = "running" /\ r \notin handed
  /\ \E yes \in BOOLEAN : Announces(r, yes)
  /\ UNCHANGED <<run, decision, handed>>

HandOff(r) ==
  /\ run[r] = "running" /\ r \notin handed
  /\ r \in Capsules => decision[r] = "allow" /\ started[r]
  /\ handed' = handed \cup {r}
  /\ UNCHANGED <<run, decision, started>>

\* Authority was lost before the handoff.
Withdraw(r) ==
  /\ r \in Capsules /\ run[r] \in Live /\ r \notin handed
  /\ Becomes(r, "denied") /\ Says(r, "deny") /\ Announces(r, FALSE)
  /\ UNCHANGED handed

Complete(r) ==
  /\ run[r] = "running" /\ r \in handed
  /\ Becomes(r, "completed")
  /\ UNCHANGED <<decision, started, handed>>

Abort(r) ==
  /\ run[r] \in Live
  /\ \E status \in {"failed", "cancelled"} : Becomes(r, status)
  /\ IF r \in Capsules /\ r \notin handed THEN Announces(r, FALSE)
     ELSE UNCHANGED started
  /\ UNCHANGED <<decision, handed>>

\* An Agent is deleted with its Runs and their Receipts.
Remove(a) ==
  LET Gone(f, empty) ==
        [r \in Runs |-> IF AgentOf[r] = a THEN empty ELSE f[r]] IN
  /\ run' = Gone(run, "none")
  /\ decision' = Gone(decision, "none")
  /\ started' = Gone(started, FALSE)
  /\ UNCHANGED handed

\* After a crash every live Run is cancelled, whatever its Receipt announced.
Restart ==
  /\ run' = [r \in Runs |-> IF run[r] \in Live THEN "cancelled" ELSE run[r]]
  /\ UNCHANGED <<decision, started, handed>>

Next ==
  \/ \E r \in Runs :
       \/ Admit(r) \/ Deny(r) \/ Begin(r) \/ Announce(r) \/ HandOff(r)
       \/ Withdraw(r) \/ Complete(r) \/ Abort(r)
  \/ \E a \in Agents : Remove(a)
  \/ Restart

Spec == Init /\ [][Next]_vars
=============================================================================
