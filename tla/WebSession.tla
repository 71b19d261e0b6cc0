----------------------------- MODULE WebSession -----------------------------
(***************************************************************************)
(* The Web client's session: the list of Agents, the selection, the Run    *)
(* that is shown, and the loops that poll Runs, over requests whose        *)
(* answers come late, in any order, or never.                              *)
(*                                                                         *)
(* A task is an asynchronous activity: a send, the load that follows a     *)
(* selection, a retry of polling, a listing of Agents.  It has at most one *)
(* request out.  The server reads its state when it serves the request,    *)
(* and the answer arrives later, so what it says may be out of date.       *)
(***************************************************************************)
EXTENDS Naturals

CONSTANTS
  Principals, Agents, OwnerOf,  \* demo sessions and the Agents of each
  First,                        \* the session the page is opened with
  Runs, AgentOf,                \* Runs and their Agents
  Earlier,                      \* the last Runs of Agents when the page is opened
  None,
  MaxErrors,    \* maxConsecutiveErrors
  \* bounds:
  MaxSelects,   \* selections by the user
  MaxSwitches,  \* changes of the Principal
  MaxRetries,   \* clicks on "Retry status"
  MaxLost       \* requests that fail

Sends == {"send"} \X (Runs \ Earlier)
Loads == {"load"} \X (0..(MaxSelects + MaxSwitches))
Lists == {"list"} \X (1..MaxSwitches)
Retries == {"retry"} \X (1..MaxRetries)
Tasks == Sends \cup Loads \cup Lists \cup Retries

ASSUME SessionAssumption ==
  /\ OwnerOf \in [Agents -> Principals] /\ AgentOf \in [Runs -> Agents]
  /\ First \in Principals /\ Earlier \subseteq Runs
  /\ \A r, s \in Earlier : AgentOf[r] = AgentOf[s] => r = s
  /\ None \notin Principals \cup Agents \cup Runs
  /\ None \notin [run : Runs \cup {None}, live : SUBSET Runs]
  /\ MaxErrors \in Nat \ {0}
  /\ MaxSelects \in Nat /\ MaxSwitches \in Nat /\ MaxRetries \in Nat /\ MaxLost \in Nat

VARIABLES
  \* the server
  latest, live,  \* the last Run of each Agent, the Runs queued or running
  \* the page
  session, epoch,           \* the Principal, and how often it was changed
  listed, busyShown,        \* the Agents listed, and those shown as busy
  selected, ref, effectFor, \* the selection: set, rendered, and its effect run
  activeRun,                \* the Run that is shown, and whether as live
  pollRetry,                \* the Run whose polling may be retried
  polling,                  \* pollingRunIds
  task,
  lost, selects

server == <<latest, live>>
identity == <<session, epoch>>
lists == <<listed, busyShown, selected>>
view == <<ref, effectFor>>
run == <<activeRun, pollRetry, polling>>
bounds == <<lost, selects>>
vars == <<server, identity, lists, view, run, task, bounds>>

Owned(p) == {a \in Agents : OwnerOf[a] = p}
Task(pc, a, r, e, n, b) ==
  [pc |-> pc, agent |-> a, run |-> r, epoch |-> e, errors |-> n, body |-> b]
Idle == Task("idle", None, None, 0, 0, None)
Done == Task("done", None, None, 0, 0, None)
Over(t) == IF t \in Sends THEN Done ELSE Idle
Shown(r, alive) == [id |-> r, live |-> alive]

Init ==
  /\ latest = [a \in Agents |-> IF \E r \in Earlier : AgentOf[r] = a
                                THEN CHOOSE r \in Earlier : AgentOf[r] = a ELSE None]
  /\ live \in SUBSET Earlier
  /\ session = First /\ epoch = 0
  /\ listed = Owned(session) /\ busyShown = {AgentOf[r] : r \in live} \cap listed
  /\ selected \in listed /\ ref = None /\ effectFor = None
  /\ activeRun = None /\ pollRetry = None /\ polling = {}
  /\ task = [t \in Tasks |-> Idle]
  /\ lost = 0 /\ selects = 0

-----------------------------------------------------------------------------
(* The polling loop *)

\* shouldContinue
Continues(t) == task[t].epoch = epoch /\ ref = task[t].agent

Forget(r) == polling' = polling \ {r}

\* pollRun returns.  A send then withdraws the offer of a retry.
Quiet(t) ==
  /\ Forget(task[t].run)
  /\ pollRetry' = IF t \in Sends THEN None ELSE pollRetry
  /\ task' = [task EXCEPT ![t] = Over(t)]

\* Mutant: the failure is swallowed.
GiveUpSilently(t) == Quiet(t)

\* pollRun throws.  A send then lists the Agents again.
GiveUp(t) ==
  /\ Forget(task[t].run)
  /\ pollRetry' = IF ref = task[t].agent /\ (t \in Retries \/ task[t].epoch = epoch)
                  THEN task[t].run ELSE pollRetry
  /\ task' = [task EXCEPT ![t] =
       IF t \in Sends THEN Task("relisting", None, None, epoch, 0, None) ELSE Over(t)]

\* The head of the loop, after n consecutive errors.
Loop(t, n) ==
  \/ /\ Continues(t)
     /\ task' = [task EXCEPT ![t] = Task("waiting", @.agent, @.run, @.epoch, n, None)]
     /\ UNCHANGED <<polling, pollRetry>>
  \/ ~Continues(t) /\ Quiet(t)

\* The catch clause of the loop.
LoopError(t) ==
  IF task[t].errors + 1 >= MaxErrors THEN GiveUp(t) ELSE Loop(t, task[t].errors + 1)

\* Mutant: a Run may have two loops.
StartsTwice(a, r) == ref = a

\* pollRun returns at once if the Run has a loop, or if the Agent is not the selected
\* one any more.
Starts(a, r) == r \notin polling /\ ref = a

\* pollRun, up to its first wait.
StartPoll(t, a, r) ==
  IF Starts(a, r)
  THEN /\ polling' = polling \cup {r}
       /\ task' = [task EXCEPT ![t] = Task("waiting", a, r, epoch, 0, None)]
  ELSE UNCHANGED polling /\ task' = [task EXCEPT ![t] = Over(t)]

-----------------------------------------------------------------------------
(* What the user does, on a page that has been rendered and whose effects have run. *)
(* A selection by the user is rendered, and its effect run, at once.                *)

Ready == effectFor = ref

\* The effect of a selection: nothing is shown, and the Agent's Runs are loaded.
EffectOn(a) ==
  /\ activeRun' = None /\ pollRetry' = None /\ effectFor' = a
  /\ \E t \in Loads :
       /\ task[t].pc = "idle"
       /\ t = CHOOSE u \in Loads : task[u].pc = "idle"
       /\ task' = [task EXCEPT ![t] = Task("loading", a, None, epoch, 0, None)]

Select(a) ==
  /\ Ready /\ selects < MaxSelects /\ selects' = selects + 1
  /\ a \in listed /\ a # selected
  /\ selected' = a /\ ref' = a
  /\ IF a = effectFor THEN UNCHANGED <<activeRun, pollRetry, effectFor, task>>
                      ELSE EffectOn(a)
  /\ UNCHANGED <<server, identity, listed, busyShown, polling, lost>>

\* changeDemoSession
SwitchSession(p) ==
  /\ Ready /\ epoch < MaxSwitches
  /\ p # session /\ selected \notin busyShown
  /\ session' = p /\ epoch' = epoch + 1
  /\ listed' = {} /\ busyShown' = {}
  /\ selected' = None /\ ref' = None /\ effectFor' = None
  /\ activeRun' = None /\ pollRetry' = None
  /\ task' = [task EXCEPT ![<<"list", epoch + 1>>] =
                Task("listing", None, None, epoch + 1, 0, None)]
  /\ UNCHANGED <<server, polling, bounds>>

\* sendMessage, up to the answer.  The form is disabled while the Agent is busy.
Send(t) ==
  LET a == AgentOf[t[2]] IN
  /\ Ready /\ t \in Sends /\ task[t] = Idle
  /\ selected = a /\ ref = a /\ a \notin busyShown
  /\ activeRun # None => ~activeRun.live
  /\ activeRun' = None /\ pollRetry' = None
  /\ task' = [task EXCEPT ![t] = Task("sending", a, t[2], epoch, 0, None)]
  /\ UNCHANGED <<server, identity, lists, view, polling, bounds>>

\* retryRunPolling
Retry(t) ==
  /\ Ready /\ t \in Retries /\ task[t] = Idle
  /\ pollRetry # None /\ ref = AgentOf[pollRetry]
  /\ pollRetry' = None
  /\ StartPoll(t, ref, pollRetry)
  /\ UNCHANGED <<server, identity, lists, view, activeRun, bounds>>

-----------------------------------------------------------------------------
(* A selection that an answer has made is rendered later, its effect after that. *)

Render ==
  /\ ref # selected /\ effectFor = ref
  /\ ref' = selected
  /\ UNCHANGED <<server, identity, lists, effectFor, run, task, bounds>>

Effect ==
  /\ effectFor # ref /\ ref # None
  /\ EffectOn(ref)
  /\ UNCHANGED <<server, identity, lists, ref, polling, bounds>>

-----------------------------------------------------------------------------
(* The server *)

Asking ==
  {"loading", "fetching", "refreshing", "finishing", "sending", "relisting", "listing"}
Listing == {"finishing", "relisting", "listing"}
Answer(r, alive) == [run |-> r, live |-> alive]
Served(t, b) == task' = [task EXCEPT ![t] = [@ EXCEPT !.body = b]]

\* A read: the last Run of the Agent, or the Run that was asked for.
Serve(t) ==
  /\ task[t].pc \in Asking \ {"sending"} /\ task[t].body = None
  /\ LET r == IF task[t].pc = "loading" THEN latest[task[t].agent] ELSE task[t].run IN
     Served(t, Answer(r, IF task[t].pc \in Listing THEN live ELSE live \cap {r}))
  /\ UNCHANGED <<server, identity, lists, view, run, bounds>>

\* A send is accepted, or denied with a record, or refused without one.
ServeSend(t) ==
  LET r == task[t].run
      a == task[t].agent IN
  /\ task[t].pc = "sending" /\ task[t].body = None
  /\ \/ /\ \A s \in live : AgentOf[s] # a
        /\ latest' = [latest EXCEPT ![a] = r]
        /\ live' \in {live, live \cup {r}}
        /\ Served(t, Answer(r, live' \cap {r}))
     \/ /\ Served(t, Answer(None, {}))
        /\ UNCHANGED server
  /\ UNCHANGED <<identity, lists, view, run, bounds>>

RunEnds(r) ==
  /\ r \in live /\ live' = live \ {r}
  /\ UNCHANGED <<latest, identity, lists, view, run, task, bounds>>

-----------------------------------------------------------------------------
(* Answers *)

\* request throws when the Principal has changed since it was made.
Fresh(t) == task[t].epoch = epoch
At(t, pc) == task[t].pc = pc
Arrived(t, pc) == At(t, pc) /\ task[t].body # None

\* refreshAgents
ShowAgents(alive) ==
  LET mine == Owned(session) IN
  /\ listed' = mine
  /\ busyShown' = {AgentOf[r] : r \in alive} \cap mine
  /\ selected' \in IF selected \in mine THEN {selected}
                  ELSE IF mine = {} THEN {None} ELSE mine

\* Mutant: the selection is not looked at.
LoadIsWantedBySession(t) == Fresh(t)

LoadIsWanted(t) == Fresh(t) /\ ref = task[t].agent

LoadArrives(t) ==
  LET b == task[t].body IN
  /\ Arrived(t, "loading")
  /\ IF LoadIsWanted(t) /\ b.run # None
     THEN /\ activeRun' = Shown(b.run, b.run \in b.live)
          /\ IF b.run \in b.live THEN StartPoll(t, task[t].agent, b.run)
             ELSE UNCHANGED polling /\ task' = [task EXCEPT ![t] = Idle]
     ELSE /\ activeRun' = IF LoadIsWanted(t) THEN None ELSE activeRun
          /\ UNCHANGED polling /\ task' = [task EXCEPT ![t] = Idle]
  /\ UNCHANGED <<server, identity, lists, view, pollRetry, bounds>>

\* Mutant: a loop that is out of date does not leave.
WakeIfCurrent(t) ==
  /\ At(t, "waiting") /\ Continues(t)
  /\ task' = [task EXCEPT ![t] = [@ EXCEPT !.pc = "fetching"]]
  /\ UNCHANGED <<server, identity, lists, view, run, bounds>>

\* The timer of a loop fires.
Wake(t) ==
  /\ At(t, "waiting")
  /\ \/ /\ Continues(t)
        /\ task' = [task EXCEPT ![t] = [@ EXCEPT !.pc = "fetching"]]
        /\ UNCHANGED <<polling, pollRetry>>
     \/ ~Continues(t) /\ Quiet(t)
  /\ UNCHANGED <<server, identity, lists, view, activeRun, bounds>>

FetchArrives(t) ==
  LET r == task[t].run
      alive == task[t].body.live
      next == IF r \in alive THEN "refreshing" ELSE "finishing" IN
  /\ Arrived(t, "fetching")
  /\ \/ /\ Continues(t)
        /\ activeRun' = Shown(r, r \in alive)
        /\ task' = [task EXCEPT ![t] = [@ EXCEPT !.pc = next, !.body = None]]
        /\ UNCHANGED <<polling, pollRetry>>
     \/ /\ Fresh(t) /\ ~Continues(t)
        /\ Quiet(t) /\ UNCHANGED activeRun
     \/ /\ ~Fresh(t)
        /\ LoopError(t) /\ UNCHANGED activeRun
  /\ UNCHANGED <<server, identity, lists, view, bounds>>

\* loadReceipt; it also swallows errors that come too late to matter.
RefreshArrives(t) ==
  /\ Arrived(t, "refreshing")
  /\ Loop(t, 0)
  /\ UNCHANGED <<server, identity, lists, view, activeRun, bounds>>

\* onTerminal: messages, Agents and Receipt.
FinishArrives(t) ==
  /\ Arrived(t, "finishing")
  /\ IF Fresh(t) THEN ShowAgents(task[t].body.live) /\ Quiet(t)
                 ELSE LoopError(t) /\ UNCHANGED lists
  /\ UNCHANGED <<server, identity, view, activeRun, bounds>>

Accepted(t) ==
  LET a == task[t].agent
      r == task[t].run IN
  /\ task[t].body.run = r /\ r \in task[t].body.live
  /\ activeRun' = IF ref = a THEN Shown(r, TRUE) ELSE activeRun
  /\ busyShown' = busyShown \cup ({a} \cap listed)
  /\ StartPoll(t, a, r)
  /\ pollRetry' = IF Starts(a, r) THEN pollRetry ELSE None
  /\ UNCHANGED <<listed, selected>>

\* A denial is shown, any other error clears the view; then Agents are listed again,
\* and with them the denied Run is read.
NotAccepted(t, r) ==
  /\ activeRun' = IF ref # task[t].agent THEN activeRun
                  ELSE IF r = None THEN None ELSE Shown(r, FALSE)
  /\ task' = [task EXCEPT ![t] = Task("relisting", @.agent, r, epoch, 0, None)]
  /\ UNCHANGED <<lists, polling, pollRetry>>

SendArrives(t) ==
  LET b == task[t].body IN
  /\ Arrived(t, "sending")
  /\ \/ Fresh(t) /\ Accepted(t)
     \/ Fresh(t) /\ b.run \notin b.live /\ NotAccepted(t, b.run)
     \/ ~Fresh(t) /\ task' = [task EXCEPT ![t] = Done] /\ UNCHANGED <<lists, run>>
  /\ UNCHANGED <<server, identity, view, bounds>>

ListArrives(t) ==
  /\ Arrived(t, "listing") \/ Arrived(t, "relisting")
  /\ IF Fresh(t) THEN ShowAgents(task[t].body.live) ELSE UNCHANGED lists
  /\ activeRun' = IF Fresh(t) /\ task[t].run # None /\ ref = task[t].agent
                  THEN Shown(task[t].run, FALSE) ELSE activeRun
  /\ task' = [task EXCEPT ![t] = Over(t)]
  /\ UNCHANGED <<server, identity, view, pollRetry, polling, bounds>>

Arrives(t) ==
  \/ LoadArrives(t) \/ FetchArrives(t) \/ RefreshArrives(t) \/ FinishArrives(t)
  \/ SendArrives(t) \/ ListArrives(t)

-----------------------------------------------------------------------------
(* Requests that fail, before or after the server has served them *)

\* When one request of onTerminal fails, the listing made with it is taken here or never;
\* in the code it may also be taken during the next wait.
LoseInLoop(t) ==
  /\ At(t, "fetching") \/ (At(t, "refreshing") /\ Continues(t)) \/ At(t, "finishing")
  /\ LoopError(t)
  /\ \/ UNCHANGED lists
     \/ Arrived(t, "finishing") /\ Fresh(t) /\ ShowAgents(task[t].body.live)
  /\ UNCHANGED activeRun

LoseOther(t) ==
  \/ /\ At(t, "loading") \/ At(t, "listing") \/ At(t, "relisting")
     /\ task' = [task EXCEPT ![t] = Over(t)]
     /\ UNCHANGED <<lists, run>>
  \/ At(t, "sending") /\ Fresh(t) /\ NotAccepted(t, None)

Lose(t) ==
  /\ lost < MaxLost /\ lost' = lost + 1
  /\ LoseInLoop(t) \/ LoseOther(t)
  /\ UNCHANGED <<server, identity, view, selects>>

-----------------------------------------------------------------------------

Rest ==
  /\ \A t \in Tasks : task[t].pc \in {"idle", "done"}
  /\ live = {} /\ ref = selected /\ effectFor = ref
  /\ UNCHANGED vars

Next ==
  \/ \E a \in Agents : Select(a)
  \/ \E p \in Principals : SwitchSession(p)
  \/ \E t \in Tasks : Send(t) \/ Retry(t) \/ Serve(t) \/ ServeSend(t) \/ Wake(t)
                      \/ Arrives(t) \/ Lose(t)
  \/ \E r \in Runs : RunEnds(r)
  \/ Render \/ Effect \/ Rest

Spec == Init /\ [][Next]_vars

\* Requests are answered or fail, timers fire, React renders, and Runs end.
FairSpec ==
  /\ Spec
  /\ WF_vars(Render) /\ WF_vars(Effect)
  /\ \A r \in Runs : WF_vars(RunEnds(r))
  /\ \A t \in Tasks :
       /\ WF_vars(Wake(t)) /\ WF_vars(Serve(t) \/ ServeSend(t))
       /\ WF_vars(Arrives(t) \/ Lose(t))

-----------------------------------------------------------------------------

Loops == {"waiting", "fetching", "refreshing", "finishing"}
=============================================================================
