----------------------------- MODULE AtomicStore -----------------------------
(***************************************************************************)
(* What the JSON store promises, with no word about memory, temporary      *)
(* files, queues or restarts.  Every request takes effect at most once, at *)
(* one instant, completely; it is answered afterwards, with what it did.   *)
(* A request fails for a reason of its own: it may not be made, it does    *)
(* not fit the data as it finds it, or the storage failed under it.  It    *)
(* then has no effect.  A request whose server dies is never answered,     *)
(* whether or not it has taken effect.  What has taken effect stays.       *)
(***************************************************************************)
EXTENDS EntitlementLedger

VARIABLES
  contents,  \* the one copy of the data
  outcome,   \* where each request is
  answer,    \* the generation it answers with
  faults     \* how often the storage has failed

vars == <<contents, outcome, answer, faults>>

Init ==
  /\ contents \in Contents
  /\ outcome = [t \in Requests |-> "open"]
  /\ answer = [t \in Requests |-> 0]
  /\ faults = 0

Apply(t) ==
  /\ outcome[t] = "open" /\ Succeeds(t, contents)
  /\ contents' = Effect(t, contents)
  /\ outcome' = [outcome EXCEPT ![t] = "applied"]
  /\ UNCHANGED <<answer, faults>>

Acknowledge(t) ==
  /\ outcome[t] = "applied"
  /\ outcome' = [outcome EXCEPT ![t] = "done"]
  /\ answer' = [answer EXCEPT ![t] = Answer(t, contents)]
  /\ UNCHANGED <<contents, faults>>

Fail(t) ==
  /\ outcome[t] = "open"
  /\ \/ (Forbidden(t) \/ ~Succeeds(t, contents)) /\ UNCHANGED faults
     \/ faults' = faults + 1
  /\ outcome' = [outcome EXCEPT ![t] = "failed"]
  /\ UNCHANGED <<contents, answer>>

\* The storage fails under no request: a start does not get through.
StartFails ==
  /\ faults' = faults + 1
  /\ UNCHANGED <<contents, outcome, answer>>

Lose(T) ==
  /\ \A t \in T : outcome[t] \in {"open", "applied"}
  /\ outcome' = [t \in Requests |-> IF t \in T THEN "lost" ELSE outcome[t]]
  /\ UNCHANGED <<contents, answer, faults>>

Next ==
  \/ \E t \in Requests : Apply(t) \/ Acknowledge(t) \/ Fail(t)
  \/ \E T \in SUBSET Requests : Lose(T)
  \/ StartFails

Spec == Init /\ [][Next]_vars
=============================================================================
