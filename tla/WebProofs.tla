------------------------------ MODULE WebProofs ------------------------------
(***************************************************************************)
(* The Web client's session, for every set of Principals, Agents and Runs, *)
(* every number of requests that fail and every order of the answers.      *)
(*                                                                         *)
(* A page that has not run its effect yet still shows a Run of the Agent   *)
(* before; so what the steps keep is that a shown Run belongs to the Agent *)
(* that is rendered or to the one whose effect was run last (Page).  That  *)
(* a task knows which Agent its Run has, and its answer is about that Run, *)
(* is kept beside it (Fits).                                               *)
(*                                                                         *)
(* Next, what the page knows of the server (KnowledgeInv) and how a loop   *)
(* ends.  The second half is about RunEvidence, a step of which is a step  *)
(* of the session: the Receipts shown are the page's own, go forward, and  *)
(* end with the final one (EvidenceInv, FinalInv).                         *)
(***************************************************************************)
EXTENDS EvidenceProperties, WebProperties, TLAPS

Answers == [run : Runs \cup {None}, live : SUBSET Runs]
TaskRecs ==
  [pc : Asking \cup {"idle", "done", "waiting"}, agent : Agents \cup {None},
   run : Runs \cup {None}, epoch : 0..MaxSwitches, errors : 0..(MaxErrors - 1),
   body : Answers \cup {None}]

\* A task and its answer are about one Run, or one Agent.
Fits(t, x) ==
  /\ x.run # None => x.agent = AgentOf[x.run]
  /\ x.pc \in Loops \cup {"sending"} =>
       x.run # None /\ (x.body # None => x.body.run \in {None, x.run})
  /\ x.pc = "sending" => t = <<"send", x.run>>
  /\ x.pc = "waiting" => x.body = None
  /\ x.pc = "fetching" /\ x.body # None => x.body.run = x.run
  /\ x.pc = "loading" =>
       /\ t \in Loads /\ x.agent \in Agents /\ x.run = None
       /\ x.body # None /\ x.body.run # None => AgentOf[x.body.run] = x.agent
  /\ t \in Lists => x.pc \in {"idle", "listing"}

Good(t, x) == x \in TaskRecs /\ Fits(t, x)

TasksFit == task \in [Tasks -> TaskRecs] /\ \A t \in Tasks : Fits(t, task[t])

ServerFits ==
  /\ latest \in [Agents -> Runs \cup {None}] /\ live \subseteq Runs
  /\ \A a \in Agents : latest[a] # None => AgentOf[latest[a]] = a

\* The page of the Principal, and of the Agents that are rendered.
Page ==
  /\ session \in Principals /\ epoch \in 0..MaxSwitches
  /\ listed \subseteq Owned(session) /\ busyShown \subseteq Agents
  /\ {selected, ref, effectFor} \subseteq Owned(session) \cup {None}
  /\ activeRun \in [id : Runs, live : BOOLEAN] \cup {None}
  /\ activeRun # None => AgentOf[activeRun.id] \in {ref, effectFor}
  /\ lost \in Nat /\ selects \in Nat

LoopsFit ==
  pollRetry \in Runs \cup {None} /\ polling \subseteq Runs /\ OneLoopPerRun

SessionInv == TasksFit /\ ServerFits /\ Page /\ LoopsFit

-----------------------------------------------------------------------------
(* Tasks *)

\* What a step writes into one task.
Move(t, x) == task' = [task EXCEPT ![t] = x]

\* Tasks of different kinds are different.
LEMMA Kinds ==
  ASSUME NEW t \in Tasks
  PROVE  /\ t \in Sends => t \notin Lists /\ t \notin Loads /\ t \notin Retries
         /\ t \in Loads => t \notin Lists /\ t \notin Retries
         /\ t \in Retries => t \notin Lists
BY DEF Sends, Loads, Lists, Retries

\* A task that nothing is known of fits, and so does one that has ended.
LEMMA OverFits ==
  ASSUME SessionAssumption, NEW t \in Tasks
  PROVE  /\ Good(t, Idle)
         /\ t \notin Lists => Good(t, Over(t))
         /\ t \in Lists => Over(t) = Idle
BY Kinds DEF SessionAssumption, Good, Fits, TaskRecs, Idle, Done, Task, Over, Asking, Loops

\* One task is written.
LEMMA MoveFits ==
  ASSUME TasksFit, NEW t \in Tasks, NEW x, Good(t, x), Move(t, x)
  PROVE  TasksFit' /\ task'[t] = x /\ \A u \in Tasks : u # t => task'[u] = task[u]
<1>1. /\ task' \in [Tasks -> TaskRecs] /\ task'[t] = x
      /\ \A u \in Tasks : u # t => task'[u] = task[u]
  BY DEF TasksFit, Good, Move
<1>2. \A u \in Tasks : Fits(u, task'[u])
  <2> SUFFICES ASSUME NEW u \in Tasks PROVE Fits(u, task'[u])
    OBVIOUS
  <2>1. CASE u = t
    BY <1>1, <2>1 DEF Good
  <2>2. CASE u # t
    <3>1. task'[u] = task[u] /\ Fits(u, task[u])
      BY <1>1, <2>2 DEF TasksFit
    <3>. QED
      BY <3>1
  <2>. QED
    BY <2>1, <2>2
<1>. QED
  BY <1>1, <1>2 DEF TasksFit

\* Records that are updated, written out.
LEMMA Fields ==
  ASSUME NEW x \in TaskRecs, NEW b, NEW p
  PROVE  /\ [x EXCEPT !.body = b] = Task(x.pc, x.agent, x.run, x.epoch, x.errors, b)
         /\ [x EXCEPT !.pc = p] = Task(p, x.agent, x.run, x.epoch, x.errors, x.body)
         /\ [x EXCEPT !.pc = p, !.body = b] = Task(p, x.agent, x.run, x.epoch, x.errors, b)
<1>1. [x EXCEPT !.body = b] = Task(x.pc, x.agent, x.run, x.epoch, x.errors, b)
  BY DEF TaskRecs, Task
<1>2. [x EXCEPT !.pc = p] = Task(p, x.agent, x.run, x.epoch, x.errors, x.body)
  BY DEF TaskRecs, Task
<1>3. [x EXCEPT !.pc = p, !.body = b] = [[x EXCEPT !.pc = p] EXCEPT !.body = b]
  OBVIOUS
<1>4. [Task(p, x.agent, x.run, x.epoch, x.errors, x.body) EXCEPT !.body = b]
        = Task(p, x.agent, x.run, x.epoch, x.errors, b)
  BY DEF Task
<1>5. [x EXCEPT !.pc = p, !.body = b] = Task(p, x.agent, x.run, x.epoch, x.errors, b)
  BY <1>2, <1>3, <1>4, Zenon
<1>. QED
  BY <1>1, <1>2, <1>5

\* A task whose answer has come, or whose timer has fired, goes on with it.
LEMMA GoesOn ==
  ASSUME SessionAssumption, NEW t \in Tasks, NEW x, Good(t, x), NEW b \in Answers \cup {None},
         NEW p \in Asking \cup {"waiting"},
         NEW n \in 0..(MaxErrors - 1)
  PROVE  /\ x.pc \in Loops /\ p \in Loops /\ b = None =>
              Good(t, Task(p, x.agent, x.run, x.epoch, n, b))
         /\ x.body = None /\ x.pc \notin {"idle", "waiting"}
            /\ (x.run # None => b.run \in {None, x.run})
            /\ (x.pc = "fetching" => b.run = x.run)
            /\ (x.pc = "loading" /\ b.run # None => AgentOf[b.run] = x.agent) =>
              Good(t, Task(x.pc, x.agent, x.run, x.epoch, x.errors, b))
BY DEF SessionAssumption, Good, Fits, TaskRecs, Task, Asking, Loops

-----------------------------------------------------------------------------
(* Loops *)

\* What a step does to the loop of one task: nothing, or it ends, or it starts.
LoopMove(t) ==
  \/ /\ polling' = polling
     /\ task'[t].pc \in Loops <=> task[t].pc \in Loops
     /\ task[t].pc \in Loops => task'[t].run = task[t].run
  \/ /\ task[t].pc \in Loops /\ task'[t].pc \notin Loops
     /\ polling' = polling \ {task[t].run}
  \/ /\ task[t].pc \notin Loops /\ task'[t].pc \in Loops
     /\ task'[t].run \in Runs \ polling /\ polling' = polling \cup {task'[t].run}

\* A step of one task as far as tasks and loops are concerned.
Stepped(t) ==
  /\ TasksFit' /\ LoopMove(t) /\ \A u \in Tasks : u # t => task'[u] = task[u]
  /\ pollRetry' \in Runs \cup {None}

LEMMA OneLoopStays ==
  ASSUME LoopsFit, NEW t \in Tasks, Stepped(t)
  PROVE  LoopsFit'
<1>1. polling' \subseteq Runs
  BY DEF LoopsFit, Stepped, LoopMove
<1>2. \A u \in Tasks, r \in Runs : u # t => (Polls(u, r)' <=> Polls(u, r))
  BY DEF Stepped, Polls
<1>3. ASSUME NEW r \in Runs
      PROVE  /\ r \in polling' <=> \E u \in Tasks : Polls(u, r)'
             /\ \A u, v \in Tasks : Polls(u, r)' /\ Polls(v, r)' => u = v
  <2>1. /\ r \in polling <=> \E u \in Tasks : Polls(u, r)
        /\ \A u, v \in Tasks : Polls(u, r) /\ Polls(v, r) => u = v
    BY DEF LoopsFit, OneLoopPerRun
  <2>2. CASE /\ polling' = polling
             /\ task'[t].pc \in Loops <=> task[t].pc \in Loops
             /\ task[t].pc \in Loops => task'[t].run = task[t].run
    <3>1. Polls(t, r)' <=> Polls(t, r)
      BY <2>2 DEF Polls
    <3>. QED
      BY <1>2, <2>1, <2>2, <3>1
  <2>3. CASE /\ task[t].pc \in Loops /\ task'[t].pc \notin Loops
             /\ polling' = polling \ {task[t].run}
    <3>1. ~Polls(t, r)' /\ (Polls(t, r) <=> task[t].run = r)
      BY <2>3 DEF Polls
    <3>2. r \in polling' <=> r \in polling /\ ~Polls(t, r)
      BY <2>3, <3>1
    <3>. QED
      BY <1>2, <2>1, <3>1, <3>2
  <2>4. CASE /\ task[t].pc \notin Loops /\ task'[t].pc \in Loops
             /\ task'[t].run \in Runs \ polling /\ polling' = polling \cup {task'[t].run}
    <3>1. ~Polls(t, r) /\ (Polls(t, r)' <=> task'[t].run = r)
      BY <2>4 DEF Polls
    <3>2. /\ r \in polling' <=> r \in polling \/ Polls(t, r)'
          /\ Polls(t, r)' => r \notin polling
      BY <2>4, <3>1
    <3>. QED
      BY <1>2, <2>1, <3>1, <3>2
  <2>. QED
    BY <2>2, <2>3, <2>4 DEF Stepped, LoopMove
<1>. QED
  BY <1>1, <1>3 DEF LoopsFit, Stepped, OneLoopPerRun, Polls

\* What is known of a task in a loop.
LEMMA InLoop ==
  ASSUME SessionAssumption, SessionInv, NEW t \in Tasks, task[t].pc \in Loops
  PROVE  /\ task[t] \in TaskRecs /\ Good(t, task[t]) /\ t \notin Lists
         /\ task[t].run \in Runs /\ task[t].agent = AgentOf[task[t].run]
         /\ epoch \in 0..MaxSwitches
<1>1. task[t] \in TaskRecs /\ Fits(t, task[t]) /\ Good(t, task[t])
  BY DEF SessionInv, TasksFit, Good
<1>. QED
  BY <1>1 DEF SessionInv, Page, Fits, Loops, TaskRecs

LEMMA QuietSteps ==
  ASSUME SessionAssumption, SessionInv, NEW t \in Tasks, task[t].pc \in Loops, Quiet(t)
  PROVE  Stepped(t)
<1>1. Good(t, Over(t)) /\ Over(t).pc \notin Loops
  BY InLoop, OverFits DEF Over, Idle, Done, Task, Loops
<1>2. Move(t, Over(t)) /\ polling' = polling \ {task[t].run}
  BY DEF Quiet, Forget, Move
<1>3. pollRetry' \in Runs \cup {None}
  BY DEF Quiet, SessionInv, LoopsFit
<1>. QED
  BY <1>1, <1>2, <1>3, MoveFits DEF SessionInv, Stepped, LoopMove

LEMMA GiveUpSteps ==
  ASSUME SessionAssumption, SessionInv, NEW t \in Tasks, task[t].pc \in Loops, GiveUp(t)
  PROVE  Stepped(t)
<1>. DEFINE x == IF t \in Sends THEN Task("relisting", None, None, epoch, 0, None) ELSE Over(t)
<1>1. Good(t, x) /\ x.pc \notin Loops
  <2>1. CASE t \in Sends
    BY <2>1, InLoop DEF Good, Fits, TaskRecs, Task, Loops, Asking, SessionAssumption
  <2>2. CASE t \notin Sends
    BY <2>2, InLoop, OverFits DEF Over, Idle, Task, Loops
  <2>. QED
    BY <2>1, <2>2
<1>2. Move(t, x) /\ polling' = polling \ {task[t].run}
  BY DEF GiveUp, Forget, Move
<1>3. pollRetry' \in Runs \cup {None}
  BY InLoop DEF GiveUp, SessionInv, LoopsFit
<1>. HIDE DEF x
<1>. QED
  BY <1>1, <1>2, <1>3, MoveFits DEF SessionInv, Stepped, LoopMove

LEMMA LoopSteps ==
  ASSUME SessionAssumption, SessionInv, NEW t \in Tasks, task[t].pc \in Loops,
         NEW n \in 0..(MaxErrors - 1), Loop(t, n)
  PROVE  Stepped(t)
<1>1. CASE ~Continues(t) /\ Quiet(t)
  BY <1>1, QuietSteps
<1>2. CASE /\ Continues(t) /\ UNCHANGED <<polling, pollRetry>>
           /\ task' = [task EXCEPT ![t] =
                Task("waiting", @.agent, @.run, @.epoch, n, None)]
  <2>. DEFINE x == Task("waiting", task[t].agent, task[t].run, task[t].epoch, n, None)
  <2>1. Good(t, x)
    BY InLoop, GoesOn DEF Loops
  <2>2. x.pc \in Loops /\ x.run = task[t].run
    BY DEF Task, Loops
  <2>3. Move(t, x)
    BY <1>2 DEF Move
  <2>4. pollRetry' \in Runs \cup {None} /\ polling' = polling
    BY <1>2 DEF SessionInv, LoopsFit
  <2>. HIDE DEF x
  <2>. QED
    BY <2>1, <2>2, <2>3, <2>4, MoveFits DEF SessionInv, Stepped, LoopMove
<1>. QED
  BY <1>1, <1>2 DEF Loop

LEMMA LoopErrorSteps ==
  ASSUME SessionAssumption, SessionInv, NEW t \in Tasks, task[t].pc \in Loops,
         LoopError(t)
  PROVE  Stepped(t)
<1>1. CASE task[t].errors + 1 >= MaxErrors
  BY <1>1, GiveUpSteps DEF LoopError
<1>2. CASE ~(task[t].errors + 1 >= MaxErrors)
  <2>1. task[t].errors + 1 \in 0..(MaxErrors - 1)
    BY <1>2, InLoop DEF TaskRecs, SessionAssumption
  <2>2. Loop(t, task[t].errors + 1)
    BY <1>2 DEF LoopError
  <2>. QED
    BY <2>1, <2>2, LoopSteps
<1>. QED
  BY <1>1, <1>2

\* A loop starts, or the task is over.
LEMMA StartPollSteps ==
  ASSUME SessionAssumption, SessionInv, NEW t \in Tasks, task[t].pc \notin Loops,
         t \notin Lists, NEW a, NEW r \in Runs, a = AgentOf[r], StartPoll(t, a, r),
         pollRetry' \in Runs \cup {None}
  PROVE  Stepped(t)
<1>1. CASE Starts(a, r)
  <2>. DEFINE x == Task("waiting", a, r, epoch, 0, None)
  <2>1. Good(t, x)
    BY DEF SessionAssumption, SessionInv, Page, Good, Fits, TaskRecs, Task, Loops, Asking
  <2>2. x.pc \in Loops /\ x.run = r
    BY DEF Task, Loops
  <2>3. Move(t, x) /\ polling' = polling \cup {r} /\ r \notin polling
    BY <1>1 DEF Move, StartPoll, Starts
  <2>. HIDE DEF x
  <2>. QED
    BY <2>1, <2>2, <2>3, MoveFits DEF SessionInv, Stepped, LoopMove
<1>2. CASE ~Starts(a, r)
  <2>1. Good(t, Over(t)) /\ Over(t).pc \notin Loops
    BY OverFits DEF Over, Idle, Done, Task, Loops
  <2>2. Move(t, Over(t)) /\ polling' = polling
    BY <1>2 DEF StartPoll, Move
  <2>. QED
    BY <2>1, <2>2, MoveFits DEF SessionInv, Stepped, LoopMove
<1>. QED
  BY <1>1, <1>2

\* A task that has no loop goes on without one.
LEMMA NoLoopSteps ==
  ASSUME SessionInv, NEW t \in Tasks, task[t].pc \notin Loops, NEW x, Good(t, x),
         x.pc \notin Loops, Move(t, x), polling' = polling,
         pollRetry' \in Runs \cup {None}
  PROVE  Stepped(t)
BY MoveFits DEF SessionInv, Stepped, LoopMove

-----------------------------------------------------------------------------
(* The steps *)

LEMMA StepKeeps ==
  ASSUME SessionInv, NEW t \in Tasks, Stepped(t), Page', ServerFits'
  PROVE  SessionInv'
BY OneLoopStays DEF SessionInv, Stepped

\* What a step leaves alone.
LEMMA SameServer ==
  ASSUME SessionInv, UNCHANGED server
  PROVE  ServerFits'
BY DEF SessionInv, ServerFits, server

LEMMA SamePageFits ==
  ASSUME SessionInv, UNCHANGED <<identity, lists, view, activeRun>>, lost' \in Nat,
         selects' \in Nat
  PROVE  Page'
BY DEF SessionInv, Page, identity, lists, view, Owned

\* A Run that is shown in place of another: one of the Agent that is rendered.
LEMMA ShowFits ==
  ASSUME SessionInv, UNCHANGED <<identity, lists, view, bounds>>,
         \/ activeRun' \in {activeRun, None}
         \/ \E r \in Runs, b \in BOOLEAN : AgentOf[r] = ref /\ activeRun' = Shown(r, b)
  PROVE  Page'
BY DEF SessionInv, Page, identity, lists, view, bounds, Owned, Shown

LEMMA EffectSteps ==
  ASSUME SessionAssumption, SessionInv, NEW a \in Agents, EffectOn(a),
         UNCHANGED polling
  PROVE  \E t \in Loads : t \in Tasks /\ Stepped(t)
<1>1. PICK t \in Loads :
        /\ task[t].pc = "idle"
        /\ task' = [task EXCEPT ![t] = Task("loading", a, None, epoch, 0, None)]
  BY DEF EffectOn
<1>2. t \in Tasks /\ t \notin Lists
  BY Kinds DEF Tasks
<1>. DEFINE x == Task("loading", a, None, epoch, 0, None)
<1>3. Good(t, x)
  BY <1>2 DEF SessionAssumption, SessionInv, Page, Good, Fits, TaskRecs, Task, Loops, Asking
<1>4. x.pc \notin Loops
  BY DEF Task, Loops
<1>5. Move(t, x) /\ task[t].pc \notin Loops /\ polling' = polling
      /\ pollRetry' \in Runs \cup {None}
  BY <1>1 DEF Move, EffectOn, Loops
<1>. HIDE DEF x
<1>. QED
  BY <1>2, <1>3, <1>4, <1>5, NoLoopSteps

LEMMA SelectKeeps ==
  ASSUME SessionAssumption, SessionInv, NEW a \in Agents, Select(a)
  PROVE  SessionInv'
<1>1. ServerFits'
  BY SameServer DEF Select
<1>2. Page'
  <2>1. a \in Owned(session)
    BY DEF Select, SessionInv, Page
  <2>2. activeRun' = None \/ (activeRun' = activeRun /\ a = effectFor)
    BY DEF Select, EffectOn
  <2>3. effectFor' = a /\ ref' = a /\ selected' = a
    BY DEF Select, EffectOn
  <2>4. /\ session' = session /\ epoch' = epoch /\ listed' = listed
        /\ busyShown' = busyShown /\ lost' = lost /\ selects' = selects + 1
        /\ ref = effectFor
    BY DEF Select, identity, Ready
  <2>5. /\ session' \in Principals /\ epoch' \in 0..MaxSwitches
        /\ listed' \subseteq Owned(session') /\ busyShown' \subseteq Agents
        /\ lost' \in Nat /\ selects' \in Nat
    BY <2>4 DEF SessionInv, Page
  <2>6. {selected', ref', effectFor'} \subseteq Owned(session') \cup {None}
    BY <2>1, <2>3, <2>4
  <2>7. /\ activeRun' \in [id : Runs, live : BOOLEAN] \cup {None}
        /\ activeRun' # None => AgentOf[activeRun'.id] \in {ref', effectFor'}
    BY <2>2, <2>3, <2>4 DEF SessionInv, Page
  <2>. QED
    BY <2>5, <2>6, <2>7 DEF Page, Owned
<1>3. CASE a = effectFor
  <2>1. UNCHANGED <<pollRetry, task, polling>>
    BY <1>3 DEF Select
  <2>. QED
    BY <1>1, <1>2, <2>1 DEF SessionInv, TasksFit, LoopsFit, OneLoopPerRun, Polls
<1>4. CASE a # effectFor
  <2>1. EffectOn(a) /\ UNCHANGED polling
    BY <1>4 DEF Select
  <2>. QED
    BY <1>1, <1>2, <2>1, EffectSteps, StepKeeps
<1>. QED
  BY <1>3, <1>4

LEMMA SwitchSessionKeeps ==
  ASSUME SessionAssumption, SessionInv, NEW p \in Principals, SwitchSession(p)
  PROVE  SessionInv'
<1>. DEFINE t == <<"list", epoch + 1>>
            x == Task("listing", None, None, epoch + 1, 0, None)
<1>1. epoch + 1 \in 1..MaxSwitches
  BY DEF SwitchSession, SessionInv, Page, SessionAssumption
<1>2. t \in Lists /\ t \in Tasks
  BY <1>1 DEF Tasks, Lists
<1>3. Good(t, x)
  BY <1>1, <1>2 DEF SessionAssumption, Good, Fits, TaskRecs, Task, Loops, Asking
<1>4. x.pc \notin Loops
  BY DEF Task, Loops
<1>5. Move(t, x) /\ polling' = polling /\ pollRetry' \in Runs \cup {None}
  BY DEF Move, SwitchSession
<1>6. ServerFits'
  BY SameServer DEF SwitchSession
<1>7. Page'
  <2>1. /\ session' = p /\ epoch' = epoch + 1 /\ listed' = {} /\ busyShown' = {}
        /\ selected' = None /\ ref' = None /\ effectFor' = None /\ activeRun' = None
        /\ lost' = lost /\ selects' = selects
    BY DEF SwitchSession, bounds
  <2>. QED
    BY <1>1, <2>1 DEF SessionInv, Page
<1>. HIDE DEF t, x
<1>8. task[t].pc \notin Loops
  BY <1>2 DEF SessionInv, TasksFit, Fits, Loops
<1>. QED
  BY <1>2, <1>3, <1>4, <1>5, <1>6, <1>7, <1>8, NoLoopSteps, StepKeeps

LEMMA SendKeeps ==
  ASSUME SessionAssumption, SessionInv, NEW t \in Tasks, Send(t)
  PROVE  SessionInv'
<1>. DEFINE a == AgentOf[t[2]]
            x == Task("sending", a, t[2], epoch, 0, None)
<1>1. t \in Sends /\ task[t] = Idle /\ t = <<"send", t[2]>> /\ t[2] \in Runs
  BY DEF Send, Sends
<1>2. t \notin Lists
  BY <1>1, Kinds
<1>3. Good(t, x) /\ x.pc \notin Loops
  BY <1>1, <1>2 DEF SessionAssumption, SessionInv, Page, Good, Fits, TaskRecs, Task, Loops,
     Asking
<1>4. Move(t, x) /\ polling' = polling /\ pollRetry' \in Runs \cup {None}
  BY DEF Move, Send
<1>5. ServerFits' /\ Page'
  BY SameServer, ShowFits DEF Send
<1>6. task[t].pc \notin Loops
  BY <1>1 DEF Idle, Task, Loops
<1>. HIDE DEF x
<1>. QED
  BY <1>3, <1>4, <1>5, <1>6, NoLoopSteps, StepKeeps

LEMMA RetryKeeps ==
  ASSUME SessionAssumption, SessionInv, NEW t \in Tasks, Retry(t)
  PROVE  SessionInv'
<1>1. t \in Retries /\ t \notin Lists /\ task[t].pc \notin Loops
  BY Kinds DEF Retry, Idle, Task, Loops
<1>2. pollRetry \in Runs /\ ref = AgentOf[pollRetry]
  BY DEF Retry, SessionInv, LoopsFit
<1>3. StartPoll(t, ref, pollRetry) /\ pollRetry' \in Runs \cup {None}
  BY DEF Retry
<1>4. Stepped(t)
  BY <1>1, <1>2, <1>3, StartPollSteps
<1>5. ServerFits' /\ Page'
  BY SameServer, ShowFits DEF Retry
<1>. QED
  BY <1>4, <1>5, StepKeeps

LEMMA RenderKeeps ==
  ASSUME SessionInv, Render
  PROVE  SessionInv'
<1>1. ServerFits'
  BY SameServer DEF Render
<1>2. Page'
  <2>1. /\ ref' = selected /\ effectFor' = effectFor /\ effectFor = ref
        /\ selected' = selected /\ session' = session /\ epoch' = epoch
        /\ listed' = listed /\ busyShown' = busyShown /\ activeRun' = activeRun
        /\ lost' = lost /\ selects' = selects
    BY DEF Render, identity, lists, run, bounds
  <2>. QED
    BY <2>1 DEF SessionInv, Page, Owned
<1>. QED
  BY <1>1, <1>2 DEF Render, run, SessionInv, TasksFit, LoopsFit, OneLoopPerRun, Polls

LEMMA EffectKeeps ==
  ASSUME SessionAssumption, SessionInv, Effect
  PROVE  SessionInv'
<1>1. ServerFits'
  BY SameServer DEF Effect
<1>2. ref \in Owned(session) /\ ref \in Agents
  BY DEF Effect, SessionInv, Page, Owned
<1>3. Page'
  <2>1. /\ ref' = ref /\ effectFor' = ref /\ activeRun' = None
        /\ selected' = selected /\ session' = session /\ epoch' = epoch
        /\ listed' = listed /\ busyShown' = busyShown
        /\ lost' = lost /\ selects' = selects
    BY DEF Effect, EffectOn, identity, lists, bounds
  <2>. QED
    BY <1>2, <2>1 DEF SessionInv, Page, Owned
<1>4. EffectOn(ref) /\ UNCHANGED polling
  BY DEF Effect
<1>. QED
  BY <1>1, <1>2, <1>3, <1>4, EffectSteps, StepKeeps

-----------------------------------------------------------------------------
(* The server's steps *)

\* A task goes on in its loop, or outside of any.
LEMMA GoesOnSteps ==
  ASSUME SessionInv, NEW t \in Tasks, NEW x, Good(t, x), Move(t, x),
         x.pc \in Loops <=> task[t].pc \in Loops, x.run = task[t].run,
         UNCHANGED <<polling, pollRetry>>
  PROVE  Stepped(t)
BY MoveFits DEF SessionInv, LoopsFit, Stepped, LoopMove

LEMMA ServedSteps ==
  ASSUME SessionAssumption, SessionInv, NEW t \in Tasks, NEW b \in Answers,
         task[t].pc \in Asking, task[t].body = None, Served(t, b),
         task[t].run # None => b.run \in {None, task[t].run},
         task[t].pc = "fetching" => b.run = task[t].run,
         task[t].pc = "loading" /\ b.run # None => AgentOf[b.run] = task[t].agent,
         UNCHANGED <<polling, pollRetry>>
  PROVE  Stepped(t)
<1>. DEFINE y == task[t]
            x == Task(y.pc, y.agent, y.run, y.epoch, y.errors, b)
<1>1. y \in TaskRecs /\ Good(t, y)
  BY DEF SessionInv, TasksFit, Good
<1>2. [y EXCEPT !.body = b] = x
  BY <1>1, Fields
<1>3. Move(t, x)
  BY <1>2, Zenon DEF Served, Move
<1>4. Good(t, x)
  <2>1. y.pc \in Asking \cup {"waiting"} /\ y.pc \notin {"idle", "waiting"} /\ b \in Answers \cup {None}
    BY DEF Asking
  <2>2. y.errors \in 0..(MaxErrors - 1)
    BY <1>1 DEF TaskRecs
  <2>. HIDE DEF y
  <2>. QED
    BY <1>1, <2>1, <2>2, GoesOn DEF y
<1>5. x.pc = y.pc /\ x.run = y.run
  BY DEF Task
<1>. HIDE DEF x
<1>. QED
  BY <1>3, <1>4, <1>5, GoesOnSteps

LEMMA ServeKeeps ==
  ASSUME SessionAssumption, SessionInv, NEW t \in Tasks, Serve(t)
  PROVE  SessionInv'
<1>. DEFINE r == IF task[t].pc = "loading" THEN latest[task[t].agent] ELSE task[t].run
            b == Answer(r, IF task[t].pc \in Listing THEN live ELSE live \cap {r})
<1>1. task[t] \in TaskRecs /\ Fits(t, task[t])
  BY DEF SessionInv, TasksFit
<1>2. /\ task[t].pc \in Asking \ {"sending"} /\ task[t].body = None /\ Served(t, b)
      /\ UNCHANGED <<polling, pollRetry>>
  BY DEF Serve, run
<1>3. r \in Runs \cup {None} /\ (task[t].pc = "loading" /\ r # None => AgentOf[r] = task[t].agent)
  BY <1>1 DEF SessionInv, ServerFits, Fits, TaskRecs
<1>4. b \in Answers /\ b.run = r
  BY <1>3 DEF SessionInv, ServerFits, Answers, Answer
<1>5. task[t].pc = "loading" => task[t].run = None
  BY <1>1 DEF Fits
<1>. HIDE DEF b
<1>6. Stepped(t)
  BY <1>2, <1>3, <1>4, <1>5, ServedSteps
<1>7. ServerFits' /\ Page'
  BY SameServer, ShowFits DEF Serve, run
<1>. QED
  BY <1>6, <1>7, StepKeeps

LEMMA ServeSendKeeps ==
  ASSUME SessionAssumption, SessionInv, NEW t \in Tasks, ServeSend(t)
  PROVE  SessionInv'
<1>. DEFINE r == task[t].run
            a == task[t].agent
<1>1. task[t] \in TaskRecs /\ Fits(t, task[t])
  BY DEF SessionInv, TasksFit
<1>2. /\ task[t].pc = "sending" /\ task[t].body = None /\ UNCHANGED <<polling, pollRetry>>
  BY DEF ServeSend, run
<1>3. r \in Runs /\ a = AgentOf[r] /\ a \in Agents
  BY <1>1, <1>2 DEF Fits, TaskRecs, SessionAssumption
<1>4. Page'
  BY ShowFits DEF ServeSend, run
<1>5. CASE /\ latest' = [latest EXCEPT ![a] = r]
           /\ live' \in {live, live \cup {r}}
           /\ Served(t, Answer(r, live' \cap {r}))
  <2>1. ServerFits'
    BY <1>3, <1>5 DEF SessionInv, ServerFits
  <2>2. Answer(r, live' \cap {r}) \in Answers /\ Answer(r, live' \cap {r}).run = r
    BY <1>3 DEF Answers, Answer
  <2>3. Stepped(t)
    BY <1>2, <1>5, <2>2, ServedSteps DEF Asking
  <2>. QED
    BY <1>4, <2>1, <2>3, StepKeeps
<1>6. CASE Served(t, Answer(None, {})) /\ UNCHANGED server
  <2>1. Answer(None, {}) \in Answers /\ Answer(None, {}).run = None
    BY DEF Answers, Answer
  <2>2. Stepped(t)
    BY <1>2, <1>6, <2>1, ServedSteps DEF Asking
  <2>. QED
    BY <1>4, <1>6, <2>2, SameServer, StepKeeps
<1>. QED
  BY <1>5, <1>6 DEF ServeSend

LEMMA RunEndsKeeps ==
  ASSUME SessionInv, NEW r \in Runs, RunEnds(r)
  PROVE  SessionInv'
<1>1. ServerFits'
  BY DEF RunEnds, SessionInv, ServerFits
<1>2. Page'
  BY ShowFits DEF RunEnds, run
<1>. QED
  BY <1>1, <1>2 DEF RunEnds, run, SessionInv, TasksFit, LoopsFit, OneLoopPerRun, Polls

-----------------------------------------------------------------------------
(* Answers and failures *)

\* What is known of any task.
LEMMA InTask ==
  ASSUME SessionAssumption, SessionInv, NEW t \in Tasks
  PROVE  /\ task[t] \in TaskRecs /\ Good(t, task[t]) /\ Fits(t, task[t])
         /\ task[t].body # None => task[t].body \in Answers
         /\ epoch \in 0..MaxSwitches
BY DEF SessionInv, TasksFit, Good, TaskRecs, Page

LEMMA ShowAgentsFits ==
  ASSUME SessionAssumption, SessionInv, NEW alive \in SUBSET Runs, ShowAgents(alive),
         UNCHANGED <<identity, view, activeRun, bounds>>
  PROVE  Page'
<1>1. /\ listed' = Owned(session) /\ busyShown' \subseteq Agents
      /\ selected' \in Owned(session) \cup {None}
  BY DEF ShowAgents, Owned
<1>2. /\ session' = session /\ epoch' = epoch /\ ref' = ref /\ effectFor' = effectFor
      /\ activeRun' = activeRun /\ lost' = lost /\ selects' = selects
  BY DEF identity, view, bounds
<1>3. Owned(session)' = Owned(session)
  BY <1>2 DEF Owned
<1>. QED
  BY <1>1, <1>2, <1>3 DEF SessionInv, Page

LEMMA LoadArrivesKeeps ==
  ASSUME SessionAssumption, SessionInv, NEW t \in Tasks, LoadArrives(t)
  PROVE  SessionInv'
<1>. DEFINE b == task[t].body
<1>1. /\ task[t].pc = "loading" /\ b \in Answers /\ task[t].agent \in Agents
      /\ b.run # None => b.run \in Runs /\ AgentOf[b.run] = task[t].agent
  BY InTask DEF LoadArrives, Arrived, At, Fits, Answers
<1>2. t \notin Lists /\ task[t].pc \notin Loops
  BY <1>1, InTask DEF Fits, Loops
<1>3. ServerFits'
  BY SameServer DEF LoadArrives
<1>4. Page'
  <2>1. \/ activeRun' \in {activeRun, None}
        \/ b.run # None /\ ref = task[t].agent /\ activeRun' = Shown(b.run, b.run \in b.live)
    BY DEF LoadArrives, LoadIsWanted
  <2>2. \/ activeRun' \in {activeRun, None}
        \/ \E r \in Runs, c \in BOOLEAN : AgentOf[r] = ref /\ activeRun' = Shown(r, c)
    <3>1. (b.run \in b.live) \in BOOLEAN
      OBVIOUS
    <3>. QED
      BY <1>1, <2>1, <3>1
  <2>. QED
    BY <2>2, ShowFits DEF LoadArrives
<1>5. pollRetry' \in Runs \cup {None}
  BY DEF LoadArrives, SessionInv, LoopsFit
<1>6. CASE b.run # None /\ StartPoll(t, task[t].agent, b.run)
  BY <1>1, <1>2, <1>3, <1>4, <1>5, <1>6, StartPollSteps, StepKeeps
<1>7. CASE UNCHANGED polling /\ task' = [task EXCEPT ![t] = Idle]
  <2>1. Good(t, Idle) /\ Idle.pc \notin Loops /\ Move(t, Idle)
    BY <1>7, OverFits DEF Idle, Task, Loops, Move
  <2>. QED
    BY <1>2, <1>3, <1>4, <1>5, <1>7, <2>1, NoLoopSteps, StepKeeps
<1>. QED
  BY <1>6, <1>7 DEF LoadArrives

LEMMA WakeKeeps ==
  ASSUME SessionAssumption, SessionInv, NEW t \in Tasks, Wake(t)
  PROVE  SessionInv'
<1>1. task[t].pc \in Loops /\ task[t].pc = "waiting"
  BY DEF Wake, At, Loops
<1>2. ServerFits' /\ Page'
  BY SameServer, ShowFits DEF Wake
<1>3. CASE ~Continues(t) /\ Quiet(t)
  BY <1>1, <1>2, <1>3, QuietSteps, StepKeeps
<1>4. CASE /\ task' = [task EXCEPT ![t] = [@ EXCEPT !.pc = "fetching"]]
           /\ UNCHANGED <<polling, pollRetry>>
  <2>. DEFINE y == task[t]
              x == Task("fetching", y.agent, y.run, y.epoch, y.errors, y.body)
  <2>1. [y EXCEPT !.pc = "fetching"] = x
    BY InTask, Fields
  <2>2. Move(t, x)
    BY <1>4, <2>1, Zenon DEF Move
  <2>3. Good(t, x) /\ x.pc \in Loops /\ x.run = y.run
    BY <1>1, InTask DEF Good, Fits, TaskRecs, Task, Loops, Asking
  <2>. HIDE DEF x
  <2>. QED
    BY <1>1, <1>2, <1>4, <2>2, <2>3, GoesOnSteps, StepKeeps
<1>. QED
  BY <1>3, <1>4 DEF Wake

LEMMA FetchArrivesKeeps ==
  ASSUME SessionAssumption, SessionInv, NEW t \in Tasks, FetchArrives(t)
  PROVE  SessionInv'
<1>. DEFINE y == task[t]
            alive == y.body.live
            next == IF y.run \in alive THEN "refreshing" ELSE "finishing"
<1>1. y.pc = "fetching" /\ y.pc \in Loops
  BY DEF FetchArrives, Arrived, At, Loops
<1>2. ServerFits'
  BY SameServer DEF FetchArrives
<1>3. CASE /\ Continues(t)
           /\ activeRun' = Shown(y.run, y.run \in alive)
           /\ task' = [task EXCEPT ![t] = [@ EXCEPT !.pc = next, !.body = None]]
           /\ UNCHANGED <<polling, pollRetry>>
  <2>. DEFINE x == Task(next, y.agent, y.run, y.epoch, y.errors, None)
  <2>1. [y EXCEPT !.pc = next, !.body = None] = x
    BY InTask, Fields
  <2>2. Move(t, x)
    BY <1>3, <2>1, Zenon DEF Move
  <2>3. next \in Loops /\ next \in Asking
    BY DEF Loops, Asking
  <2>4. Good(t, x)
    <3>1. y.errors \in 0..(MaxErrors - 1)
      BY InTask DEF TaskRecs
    <3>. HIDE DEF next
    <3>. QED
      BY <1>1, <2>3, <3>1, InTask, GoesOn
  <2>5. x.pc \in Loops /\ x.run = y.run
    BY <2>3 DEF Task
  <2>6. Page'
    <3>1. y.run \in Runs /\ AgentOf[y.run] = ref /\ (y.run \in alive) \in BOOLEAN
      BY <1>1, <1>3, InLoop DEF Continues
    <3>. QED
      BY <1>3, <3>1, ShowFits DEF FetchArrives
  <2>. HIDE DEF x
  <2>. QED
    BY <1>1, <1>2, <1>3, <2>2, <2>4, <2>5, <2>6, GoesOnSteps, StepKeeps
<1>4. CASE (Quiet(t) \/ LoopError(t)) /\ UNCHANGED activeRun
  <2>1. Page'
    BY <1>4, ShowFits DEF FetchArrives
  <2>. QED
    BY <1>1, <1>2, <1>4, <2>1, QuietSteps, LoopErrorSteps, StepKeeps
<1>. QED
  BY <1>3, <1>4 DEF FetchArrives

LEMMA RefreshArrivesKeeps ==
  ASSUME SessionAssumption, SessionInv, NEW t \in Tasks, RefreshArrives(t)
  PROVE  SessionInv'
<1>1. task[t].pc \in Loops /\ Loop(t, 0) /\ 0 \in 0..(MaxErrors - 1)
  BY DEF RefreshArrives, Arrived, At, Loops, SessionAssumption
<1>2. ServerFits' /\ Page'
  BY SameServer, ShowFits DEF RefreshArrives
<1>. QED
  BY <1>1, <1>2, LoopSteps, StepKeeps

LEMMA FinishArrivesKeeps ==
  ASSUME SessionAssumption, SessionInv, NEW t \in Tasks, FinishArrives(t)
  PROVE  SessionInv'
<1>1. task[t].pc \in Loops /\ task[t].body \in Answers
  BY InTask DEF FinishArrives, Arrived, At, Loops
<1>2. ServerFits'
  BY SameServer DEF FinishArrives
<1>3. CASE Fresh(t)
  <2>1. ShowAgents(task[t].body.live) /\ Quiet(t) /\ task[t].body.live \in SUBSET Runs
    BY <1>1, <1>3 DEF FinishArrives, Answers
  <2>2. Page'
    BY <2>1, ShowAgentsFits DEF FinishArrives
  <2>. QED
    BY <1>1, <1>2, <2>1, <2>2, QuietSteps, StepKeeps
<1>4. CASE ~Fresh(t)
  <2>1. LoopError(t) /\ Page'
    BY <1>4, ShowFits DEF FinishArrives
  <2>. QED
    BY <1>1, <1>2, <2>1, LoopErrorSteps, StepKeeps
<1>. QED
  BY <1>3, <1>4

\* A send is not accepted, for whatever reason; r is the Run that was denied.
LEMMA NotAcceptedSteps ==
  ASSUME SessionAssumption, SessionInv, NEW t \in Tasks, NEW r \in {None, task[t].run},
         task[t].pc = "sending", NotAccepted(t, r), UNCHANGED <<server, identity, view>>,
         lost' \in Nat, selects' \in Nat
  PROVE  SessionInv'
<1>. DEFINE y == task[t]
            x == Task("relisting", y.agent, r, epoch, 0, None)
<1>1. y.run \in Runs /\ y.agent = AgentOf[y.run] /\ t \notin Lists
  BY InTask DEF Fits, TaskRecs
<1>2. y.pc \notin Loops /\ x.pc \notin Loops
  BY DEF Loops, Task
<1>3. Good(t, x)
  BY <1>1, InTask DEF SessionAssumption, Good, Fits, TaskRecs, Task, Loops, Asking
<1>4. Move(t, x) /\ UNCHANGED <<polling, pollRetry>>
  BY DEF NotAccepted, Move
<1>5. Page'
  <2>1. \/ activeRun' \in {activeRun, None}
        \/ AgentOf[y.run] = ref /\ activeRun' = Shown(y.run, FALSE)
    BY <1>1 DEF NotAccepted
  <2>2. /\ session' = session /\ epoch' = epoch /\ listed' = listed
        /\ busyShown' = busyShown /\ selected' = selected /\ ref' = ref
        /\ effectFor' = effectFor
    BY DEF identity, view, lists, NotAccepted
  <2>3. \/ activeRun' \in {activeRun, None}
        \/ /\ activeRun' \in [id : Runs, live : BOOLEAN]
           /\ AgentOf[activeRun'.id] = ref
    <3>1. /\ Shown(y.run, FALSE) \in [id : Runs, live : BOOLEAN]
          /\ Shown(y.run, FALSE).id = y.run
      BY <1>1 DEF Shown
    <3>. QED
      BY <2>1, <3>1
  <2>. QED
    BY <2>2, <2>3 DEF SessionInv, Page, Owned
<1>6. ServerFits' /\ pollRetry' \in Runs \cup {None}
  BY <1>4, SameServer DEF SessionInv, LoopsFit
<1>. HIDE DEF x
<1>. QED
  BY <1>2, <1>3, <1>4, <1>5, <1>6, NoLoopSteps, StepKeeps

LEMMA SendArrivesKeeps ==
  ASSUME SessionAssumption, SessionInv, NEW t \in Tasks, SendArrives(t)
  PROVE  SessionInv'
<1>. DEFINE y == task[t]
<1>1. /\ y.pc = "sending" /\ y.pc \notin Loops /\ y.body \in Answers
      /\ y.run \in Runs /\ y.agent = AgentOf[y.run] /\ t \notin Lists
      /\ y.body.run \in {None, y.run}
  BY InTask DEF SendArrives, Arrived, At, Fits, TaskRecs, Loops
<1>2. ServerFits'
  BY SameServer DEF SendArrives
<1>3. CASE Fresh(t) /\ Accepted(t)
  <2>1. StartPoll(t, y.agent, y.run) /\ pollRetry' \in Runs \cup {None}
    BY <1>3 DEF Accepted, SessionInv, LoopsFit
  <2>2. Page'
    <3>1. \/ activeRun' = activeRun
          \/ /\ activeRun' \in [id : Runs, live : BOOLEAN]
             /\ AgentOf[activeRun'.id] = ref
      BY <1>1, <1>3 DEF Accepted, Shown
    <3>2. busyShown' \subseteq Agents
      BY <1>3 DEF Accepted, SessionInv, Page, Owned
    <3>3. /\ session' = session /\ epoch' = epoch /\ listed' = listed
          /\ selected' = selected /\ ref' = ref
          /\ effectFor' = effectFor /\ lost' = lost /\ selects' = selects
      BY <1>3 DEF SendArrives, Accepted, identity, view, bounds
    <3>. QED
      BY <3>1, <3>2, <3>3 DEF SessionInv, Page, Owned
  <2>. QED
    BY <1>1, <1>2, <2>1, <2>2, StartPollSteps, StepKeeps
<1>4. CASE NotAccepted(t, y.body.run)
  <2>1. lost' \in Nat /\ selects' \in Nat
    BY DEF SendArrives, bounds, SessionInv, Page
  <2>. QED
    BY <1>1, <1>4, <2>1, NotAcceptedSteps DEF SendArrives
<1>5. CASE task' = [task EXCEPT ![t] = Done] /\ UNCHANGED <<lists, run>>
  <2>1. t \in Sends
    BY <1>1, InTask DEF Fits, Tasks, Sends, Loads, Lists, Retries
  <2>2. Good(t, Done) /\ Done.pc \notin Loops /\ Move(t, Done)
    BY <1>1, <1>5, <2>1, OverFits DEF Over, Done, Task, Loops, Move
  <2>3. Page' /\ UNCHANGED <<polling, pollRetry>> /\ pollRetry' \in Runs \cup {None}
    BY <1>5, ShowFits DEF SendArrives, run, SessionInv, LoopsFit
  <2>. QED
    BY <1>1, <1>2, <2>2, <2>3, NoLoopSteps, StepKeeps
<1>. QED
  BY <1>3, <1>4, <1>5 DEF SendArrives

\* A task that has no loop is over.
LEMMA OverSteps ==
  ASSUME SessionAssumption, SessionInv, NEW t \in Tasks, task[t].pc \notin Loops,
         task' = [task EXCEPT ![t] = Over(t)], UNCHANGED <<polling, pollRetry>>
  PROVE  Stepped(t)
<1>1. Good(t, Over(t)) /\ Over(t).pc \notin Loops /\ Move(t, Over(t))
  BY OverFits DEF Over, Idle, Done, Task, Loops, Move
<1>. QED
  BY <1>1, NoLoopSteps DEF SessionInv, LoopsFit

LEMMA ListArrivesKeeps ==
  ASSUME SessionAssumption, SessionInv, NEW t \in Tasks, ListArrives(t)
  PROVE  SessionInv'
<1>. DEFINE y == task[t]
<1>1. /\ y.pc \notin Loops /\ y.body \in Answers
      /\ y.run \in Runs \cup {None} /\ (y.run # None => y.agent = AgentOf[y.run])
  BY InTask DEF ListArrives, Arrived, At, Fits, TaskRecs, Loops
<1>2. ServerFits' /\ Stepped(t)
  BY <1>1, SameServer, OverSteps DEF ListArrives
<1>3. Page'
  <2>1. \/ activeRun' = activeRun
        \/ /\ activeRun' \in [id : Runs, live : BOOLEAN]
           /\ AgentOf[activeRun'.id] = ref
    BY <1>1 DEF ListArrives, Shown
  <2>2. /\ session' = session /\ epoch' = epoch /\ ref' = ref /\ effectFor' = effectFor
        /\ lost' = lost /\ selects' = selects
    BY DEF ListArrives, identity, view, bounds
  <2>3. /\ listed' \subseteq Owned(session) /\ busyShown' \subseteq Agents
        /\ selected' \in Owned(session) \cup {None}
    BY DEF ListArrives, ShowAgents, lists, SessionInv, Page, Owned
  <2>. QED
    BY <2>1, <2>2, <2>3 DEF SessionInv, Page, Owned
<1>. QED
  BY <1>2, <1>3, StepKeeps

LEMMA LoseKeeps ==
  ASSUME SessionAssumption, SessionInv, NEW t \in Tasks, Lose(t)
  PROVE  SessionInv'
<1>1. lost' \in Nat /\ selects' \in Nat /\ UNCHANGED <<server, identity, view>>
  BY DEF Lose, SessionInv, Page
<1>2. ServerFits'
  BY <1>1, SameServer
<1>3. CASE LoseInLoop(t)
  <2>1. task[t].pc \in Loops /\ LoopError(t) /\ activeRun' = activeRun
    BY <1>3 DEF LoseInLoop, Arrived, At, Loops
  <2>2. CASE UNCHANGED lists
    BY <1>1, <1>2, <2>1, <2>2, SamePageFits, LoopErrorSteps, StepKeeps
  <2>3. CASE Arrived(t, "finishing") /\ ShowAgents(task[t].body.live)
    <3>1. /\ listed' \subseteq Owned(session) /\ busyShown' \subseteq Agents
          /\ selected' \in Owned(session) \cup {None}
      BY <2>3 DEF ShowAgents, Owned
    <3>2. /\ session' = session /\ epoch' = epoch /\ ref' = ref /\ effectFor' = effectFor
      BY <1>1 DEF identity, view
    <3>3. Page'
      BY <1>1, <2>1, <3>1, <3>2 DEF SessionInv, Page, Owned
    <3>. QED
      BY <1>2, <2>1, <3>3, LoopErrorSteps, StepKeeps
  <2>. QED
    BY <1>3, <2>2, <2>3 DEF LoseInLoop
<1>4. CASE /\ At(t, "loading") \/ At(t, "listing") \/ At(t, "relisting")
           /\ task' = [task EXCEPT ![t] = Over(t)] /\ UNCHANGED <<lists, run>>
  <2>1. task[t].pc \notin Loops /\ UNCHANGED <<polling, pollRetry, activeRun>>
    BY <1>4 DEF At, Loops, run
  <2>2. Page'
    BY <1>1, <1>4, <2>1, SamePageFits
  <2>. QED
    BY <1>2, <1>4, <2>1, <2>2, OverSteps, StepKeeps
<1>5. CASE At(t, "sending") /\ NotAccepted(t, None)
  BY <1>1, <1>5, NotAcceptedSteps DEF At
<1>. QED
  BY <1>3, <1>4, <1>5 DEF Lose, LoseOther

LEMMA InitSession == ASSUME SessionAssumption, Init PROVE SessionInv
<1>1. ServerFits
  <2>1. /\ latest = [a \in Agents |-> IF \E r \in Earlier : AgentOf[r] = a
                                THEN CHOOSE r \in Earlier : AgentOf[r] = a ELSE None]
        /\ live \subseteq Earlier /\ Earlier \subseteq Runs
    BY DEF Init, SessionAssumption
  <2>2. ASSUME NEW a \in Agents
        PROVE  /\ latest[a] \in Runs \cup {None}
               /\ latest[a] # None => AgentOf[latest[a]] = a
    <3>1. CASE \E r \in Earlier : AgentOf[r] = a
      <4>1. latest[a] \in Earlier /\ AgentOf[latest[a]] = a
        BY <2>1, <3>1
      <4>. QED
        BY <2>1, <4>1
    <3>2. CASE ~\E r \in Earlier : AgentOf[r] = a
      BY <2>1, <3>2
    <3>. QED
      BY <3>1, <3>2
  <2>. HIDE <2>1
  <2>3. latest \in [Agents -> Runs \cup {None}]
    <3>1. latest = [a \in Agents |-> latest[a]]
      BY <2>1
    <3>. QED
      BY <2>2, <3>1
  <2>. QED
    BY <2>1, <2>2, <2>3 DEF ServerFits
<1>2. TasksFit
  <2>1. \A t \in Tasks : Good(t, Idle)
    BY OverFits
  <2>. QED
    BY <2>1 DEF Init, TasksFit, Good
<1>3. Page
  BY DEF Init, Page, SessionAssumption, Owned
<1>4. LoopsFit
  BY DEF Init, LoopsFit, OneLoopPerRun, Polls, Idle, Task, Loops
<1>. QED
  BY <1>1, <1>2, <1>3, <1>4 DEF SessionInv

LEMMA SessionInductive ==
  ASSUME SessionAssumption, SessionInv, [Next]_vars
  PROVE  SessionInv'
<1>1. CASE UNCHANGED vars
  BY <1>1 DEF vars, server, identity, lists, view, run, bounds, SessionInv, TasksFit,
     ServerFits, Page, LoopsFit, OneLoopPerRun, Polls, Owned
<1>2. CASE \E a \in Agents : Select(a)
  BY <1>2, SelectKeeps
<1>3. CASE \E p \in Principals : SwitchSession(p)
  BY <1>3, SwitchSessionKeeps
<1>4. ASSUME NEW t \in Tasks,
             Send(t) \/ Retry(t) \/ Serve(t) \/ ServeSend(t) \/ Wake(t)
      PROVE  SessionInv'
  BY <1>4, SendKeeps, RetryKeeps, ServeKeeps, ServeSendKeeps, WakeKeeps
<1>5. ASSUME NEW t \in Tasks, Arrives(t) PROVE SessionInv'
  BY <1>5, LoadArrivesKeeps, FetchArrivesKeeps, RefreshArrivesKeeps, FinishArrivesKeeps,
     SendArrivesKeeps, ListArrivesKeeps DEF Arrives
<1>6. ASSUME NEW t \in Tasks, Lose(t) PROVE SessionInv'
  BY <1>6, LoseKeeps
<1>7. CASE \E r \in Runs : RunEnds(r)
  BY <1>7, RunEndsKeeps
<1>8. CASE Render \/ Effect
  BY <1>8, RenderKeeps, EffectKeeps
<1>9. CASE Rest
  BY <1>1, <1>9 DEF Rest
<1>. QED
  BY <1>1, <1>2, <1>3, <1>4, <1>5, <1>6, <1>7, <1>8, <1>9 DEF Next

\* The invariant of the session: tasks and answers are about one Run or one Agent, the
\* page is its Principal's, and the loops are those that are registered.
THEOREM SessionInvCorrect == Spec => []SessionInv
BY InitSession, SessionInductive, SessionAssumption, PTL DEF Spec

\* pollingRunIds is always the set of the Runs that have a loop, and no Run has two:
\* every way out of pollRun goes through its finally clause.
THEOREM LoopsAreUnique == Spec => []OneLoopPerRun
<1>1. SessionInv => OneLoopPerRun
  BY DEF SessionInv, LoopsFit
<1>. QED
  BY <1>1, SessionInvCorrect, PTL

\* No answer that arrives late puts a Run of another Principal, or of an Agent that is
\* not selected, on a page that has settled.
LEMMA PageShowsItsOwn ==
  ASSUME SessionAssumption, SessionInv
  PROVE  NothingForeignIsShown
<1>1. ASSUME activeRun # None
      PROVE  /\ OwnerOf[AgentOf[activeRun.id]] = session
             /\ Settled => AgentOf[activeRun.id] = ref
  <2>1. AgentOf[activeRun.id] \in {ref, effectFor} /\ AgentOf[activeRun.id] \in Agents
    BY <1>1 DEF SessionInv, Page, SessionAssumption
  <2>2. AgentOf[activeRun.id] \in Owned(session)
    BY <2>1 DEF SessionInv, Page, SessionAssumption
  <2>. QED
    BY <2>1, <2>2 DEF Owned, Settled
<1>. QED
  BY <1>1 DEF SessionInv, Page, NothingForeignIsShown

\* Neither the list nor the Run shown belongs to another Principal than the one that is
\* signed in, whatever the answers of the session before bring.
THEOREM PageIsOfItsPrincipal == Spec => []NothingForeignIsShown
<1>1. SessionInv => NothingForeignIsShown
  BY PageShowsItsOwn, SessionAssumption
<1>. QED
  BY <1>1, SessionInvCorrect, PTL

-----------------------------------------------------------------------------
(***************************************************************************)
(* A loop ends for a reason.  What a task has been told is over stays      *)
(* over: only its own send makes a Run live, and until the server has      *)
(* seen that send nobody else knows of the Run.                            *)
(***************************************************************************)

\* The server has seen the send of r.
Reached(r) ==
  \/ r \in Earlier
  \/ LET x == task[<<"send", r>>] IN
     x.pc # "idle" /\ (x.pc = "sending" => x.body # None)

\* Task t, whose record is x, has heard of r from somebody.
Mentions(t, x, r) ==
  \/ x.run = r /\ t # <<"send", r>>
  \/ x.body # None /\ x.body.run = r

\* A task whose record is x has been told that r is over.
Knows(x, r) ==
  \/ x.pc \in {"finishing", "relisting"} /\ x.run = r
  \/ x.body # None /\ x.body.run = r /\ r \notin x.body.live

\* The Runs of the server, and of an offer to retry, have been sent.
ServerReached ==
  /\ \A r \in Runs : r \in live \/ r = pollRetry => Reached(r)
  /\ \A a \in Agents : latest[a] # None => Reached(latest[a])

KnowledgeInv ==
  /\ ServerReached
  /\ \A t \in Tasks, r \in Runs :
       /\ Mentions(t, task[t], r) => Reached(r)
       /\ Knows(task[t], r) => r \notin live

\* What a task is after its loop has stopped, or has come back to its timer.
LoopLeft(t) ==
  /\ \A u \in Tasks : u # t => task'[u] = task[u]
  /\ task'[t].body = None /\ task'[t].run \in {None, task[t].run}
  /\ task'[t].pc \notin {"sending", "finishing"}
  /\ task'[t].pc = "idle" => t \notin Sends
  /\ task'[t].pc = "relisting" => task'[t].run = None
  /\ pollRetry' \in {None, pollRetry, task[t].run}

LEMMA QuietLeaves ==
  ASSUME SessionAssumption, SessionInv, NEW t \in Tasks, task[t].pc \in Loops, Quiet(t)
  PROVE  LoopLeft(t)
<1>1. task' = [task EXCEPT ![t] = Over(t)] /\ pollRetry' \in {None, pollRetry}
  BY DEF Quiet
<1>2. task'[t] = Over(t) /\ \A u \in Tasks : u # t => task'[u] = task[u]
  BY <1>1 DEF SessionInv, TasksFit
<1>. QED
  BY <1>1, <1>2 DEF LoopLeft, Over, Idle, Done, Task

LEMMA GiveUpLeaves ==
  ASSUME SessionAssumption, SessionInv, NEW t \in Tasks, task[t].pc \in Loops, GiveUp(t)
  PROVE  LoopLeft(t)
<1>. DEFINE x == IF t \in Sends THEN Task("relisting", None, None, epoch, 0, None) ELSE Over(t)
<1>1. task' = [task EXCEPT ![t] = x] /\ pollRetry' \in {pollRetry, task[t].run}
  BY DEF GiveUp
<1>2. task'[t] = x /\ \A u \in Tasks : u # t => task'[u] = task[u]
  BY <1>1 DEF SessionInv, TasksFit
<1>. QED
  BY <1>1, <1>2 DEF LoopLeft, Over, Idle, Task

LEMMA LoopLeaves ==
  ASSUME SessionAssumption, SessionInv, NEW t \in Tasks, task[t].pc \in Loops, NEW n,
         Loop(t, n)
  PROVE  LoopLeft(t)
<1>1. CASE Quiet(t)
  BY <1>1, QuietLeaves
<1>2. CASE /\ UNCHANGED <<polling, pollRetry>>
           /\ task' = [task EXCEPT ![t] =
                Task("waiting", @.agent, @.run, @.epoch, n, None)]
  <2>1. /\ task'[t] = Task("waiting", task[t].agent, task[t].run, task[t].epoch, n, None)
        /\ \A u \in Tasks : u # t => task'[u] = task[u]
    BY <1>2 DEF SessionInv, TasksFit
  <2>. QED
    BY <1>2, <2>1 DEF LoopLeft, Task
<1>. QED
  BY <1>1, <1>2 DEF Loop

LEMMA LoopErrorLeaves ==
  ASSUME SessionAssumption, SessionInv, NEW t \in Tasks, task[t].pc \in Loops,
         LoopError(t)
  PROVE  LoopLeft(t)
BY GiveUpLeaves, LoopLeaves DEF LoopError

\* What is known of the Runs stays true when one task takes a step that makes no Run
\* live and tells no news.
LEMMA KnowledgeStays ==
  ASSUME SessionInv, KnowledgeInv, NEW t \in Tasks,
         \A u \in Tasks : u # t => task'[u] = task[u],
         live' \subseteq live, latest' = latest,
         t \in Sends /\ (\/ task'[t].pc = "idle"
                         \/ task'[t].pc = "sending" /\ task'[t].body = None) =>
           task[t].pc = "idle",
         \A r \in Runs : Mentions(t, task'[t], r) \/ r = pollRetry' => Reached(r),
         \A r \in Runs : Knows(task'[t], r) => r \notin live
  PROVE  KnowledgeInv'
<1>1. ASSUME NEW r \in Runs, Reached(r) PROVE Reached(r)'
  <2>1. CASE r \in Earlier
    BY <2>1 DEF Reached
  <2>2. CASE r \notin Earlier
    <3>1. <<"send", r>> \in Tasks /\ <<"send", r>> \in Sends
      BY <2>2 DEF Tasks, Sends
    <3>2. CASE t = <<"send", r>>
      BY <1>1, <2>2, <3>1, <3>2 DEF Reached
    <3>3. CASE t # <<"send", r>>
      <4>1. task'[<<"send", r>>] = task[<<"send", r>>]
        BY <3>1, <3>3
      <4>. QED
        BY <1>1, <4>1 DEF Reached
    <3>. QED
      BY <3>2, <3>3
  <2>. QED
    BY <2>1, <2>2
<1>2. ServerReached'
  <2>1. \A r \in Runs : r \in live' \/ r = pollRetry' => Reached(r)
    BY DEF KnowledgeInv, ServerReached
  <2>2. \A a \in Agents : latest'[a] # None => latest'[a] \in Runs /\ Reached(latest'[a])
    BY DEF KnowledgeInv, ServerReached, SessionInv, ServerFits
  <2>. QED
    BY <1>1, <2>1, <2>2 DEF ServerReached
<1>3. ASSUME NEW u \in Tasks, NEW r \in Runs
      PROVE  /\ Mentions(u, task'[u], r) => Reached(r)'
             /\ Knows(task'[u], r) => r \notin live'
  <2>1. CASE u = t
    BY <1>1, <2>1
  <2>2. CASE u # t
    <3>1. task'[u] = task[u]
      BY <2>2
    <3>. QED
      BY <1>1, <3>1 DEF KnowledgeInv
  <2>. QED
    BY <2>1, <2>2
<1>. QED
  BY <1>2, <1>3 DEF KnowledgeInv, Mentions, Knows

\* The Run of a loop has been sent.
LEMMA LoopReached ==
  ASSUME SessionAssumption, SessionInv, KnowledgeInv, NEW t \in Tasks, task[t].pc \in Loops
  PROVE  task[t].run \in Runs /\ Reached(task[t].run)
<1>1. task[t].run \in Runs
  BY InLoop
<1>2. CASE t = <<"send", task[t].run>>
  BY <1>1, <1>2 DEF Reached, Loops
<1>3. CASE t # <<"send", task[t].run>>
  BY <1>1, <1>3 DEF KnowledgeInv, Mentions
<1>. QED
  BY <1>1, <1>2, <1>3

LEMMA LoopKnowledge ==
  ASSUME SessionAssumption, SessionInv, KnowledgeInv, NEW t \in Tasks,
         task[t].pc \in Loops, LoopLeft(t), UNCHANGED server
  PROVE  KnowledgeInv'
<1>1. task[t].run \in Runs /\ Reached(task[t].run)
  BY LoopReached
<1>2. \A r \in Runs : Mentions(t, task'[t], r) \/ r = pollRetry' => Reached(r)
  BY <1>1 DEF LoopLeft, Mentions, KnowledgeInv, ServerReached, SessionInv, LoopsFit,
     SessionAssumption
<1>3. \A r \in Runs : ~Knows(task'[t], r)
  BY DEF LoopLeft, Knows, SessionAssumption
<1>. QED
  BY <1>2, <1>3, KnowledgeStays DEF LoopLeft, server

\* A step after which the task speaks of no Run but one that it spoke of before.
LEMMA QuietKnowledge ==
  ASSUME SessionAssumption, SessionInv, KnowledgeInv, NEW t \in Tasks, NEW x, Move(t, x),
         x.body = None, x.run \in {None, task[t].run},
         x.pc \in {"finishing", "relisting"} => x.run = None,
         t \in Sends /\ x.pc \in {"idle", "sending"} => task[t].pc = "idle",
         UNCHANGED server, pollRetry' \in {None, pollRetry}
  PROVE  KnowledgeInv'
<1>1. task'[t] = x /\ \A u \in Tasks : u # t => task'[u] = task[u]
  BY DEF SessionInv, TasksFit, Move
<1>2. \A r \in Runs : Mentions(t, x, r) \/ r = pollRetry' => Reached(r)
  BY DEF Mentions, KnowledgeInv, ServerReached, SessionAssumption
<1>3. \A r \in Runs : ~Knows(x, r)
  BY DEF Knows, SessionAssumption
<1>. QED
  BY <1>1, <1>2, <1>3, KnowledgeStays DEF server

\* A loop starts, for a Run that was sent.
LEMMA StartPollKnowledge ==
  ASSUME SessionAssumption, SessionInv, KnowledgeInv, NEW t \in Tasks, NEW a,
         NEW r \in Runs, Reached(r), StartPoll(t, a, r),
         UNCHANGED server, pollRetry' \in {None, pollRetry}
  PROVE  KnowledgeInv'
<1>. DEFINE x == IF Starts(a, r) THEN Task("waiting", a, r, epoch, 0, None) ELSE Over(t)
<1>1. Move(t, x)
  BY DEF StartPoll, Move
<1>2. task'[t] = x /\ \A u \in Tasks : u # t => task'[u] = task[u]
  BY <1>1 DEF SessionInv, TasksFit, Move
<1>3. /\ x.body = None /\ x.run \in {None, r}
      /\ x.pc \notin {"sending", "finishing", "relisting"}
      /\ x.pc = "idle" => t \notin Sends
  BY DEF Task, Over, Idle, Done
<1>. HIDE DEF x
<1>4. \A s \in Runs : Mentions(t, x, s) \/ s = pollRetry' => Reached(s)
  BY <1>3 DEF Mentions, KnowledgeInv, ServerReached, SessionAssumption
<1>5. \A s \in Runs : ~Knows(x, s)
  BY <1>3 DEF Knows, SessionAssumption
<1>. QED
  BY <1>2, <1>3, <1>4, <1>5, KnowledgeStays DEF server

LEMMA PageKnowledge ==
  ASSUME SessionAssumption, SessionInv, KnowledgeInv, NEW a, EffectOn(a), UNCHANGED server
  PROVE  KnowledgeInv'
<1>1. PICK t \in Loads :
        task' = [task EXCEPT ![t] = Task("loading", a, None, epoch, 0, None)]
  BY DEF EffectOn
<1>2. t \in Tasks /\ t \notin Sends
  BY Kinds DEF Tasks
<1>. DEFINE x == Task("loading", a, None, epoch, 0, None)
<1>3. Move(t, x) /\ x.body = None /\ x.run = None /\ x.pc = "loading"
  BY <1>1 DEF Move, Task
<1>4. pollRetry' = None
  BY DEF EffectOn
<1>. HIDE DEF x
<1>. QED
  BY <1>2, <1>3, <1>4, QuietKnowledge

\* Nothing is said.
LEMMA SilentKnowledge ==
  ASSUME KnowledgeInv, UNCHANGED <<latest, pollRetry, task>>, live' \subseteq live
  PROVE  KnowledgeInv'
BY DEF KnowledgeInv, ServerReached, Reached, Mentions, Knows

LEMMA UserKnowledge ==
  ASSUME SessionAssumption, SessionInv, KnowledgeInv,
         \/ \E a \in Agents : Select(a)
         \/ \E p \in Principals : SwitchSession(p)
         \/ \E t \in Tasks : Send(t) \/ Retry(t)
         \/ Render \/ Effect
  PROVE  KnowledgeInv'
<1>1. ASSUME NEW a \in Agents, Select(a) PROVE KnowledgeInv'
  <2>1. UNCHANGED server
    BY <1>1 DEF Select
  <2>2. CASE a = effectFor
    BY <1>1, <2>1, <2>2, SilentKnowledge DEF Select, server
  <2>3. CASE a # effectFor
    BY <1>1, <2>1, <2>3, PageKnowledge DEF Select
  <2>. QED
    BY <2>2, <2>3
<1>2. ASSUME NEW p \in Principals, SwitchSession(p) PROVE KnowledgeInv'
  <2>. DEFINE t == <<"list", epoch + 1>>
              x == Task("listing", None, None, epoch + 1, 0, None)
  <2>1. t \in Tasks /\ t \notin Sends
    BY <1>2 DEF SwitchSession, SessionInv, Page, SessionAssumption, Tasks, Lists, Sends
  <2>2. Move(t, x) /\ UNCHANGED server /\ pollRetry' = None
    BY <1>2 DEF SwitchSession, Move
  <2>3. x.body = None /\ x.run = None /\ x.pc = "listing"
    BY DEF Task
  <2>. HIDE DEF t, x
  <2>. QED
    BY <2>1, <2>2, <2>3, QuietKnowledge
<1>3. ASSUME NEW t \in Tasks, Send(t) PROVE KnowledgeInv'
  <2>. DEFINE r == t[2]
              x == Task("sending", AgentOf[r], r, epoch, 0, None)
  <2>1. t = <<"send", r>> /\ task[t] = Idle /\ r \in Runs
    BY <1>3 DEF Send, Sends
  <2>2. Move(t, x) /\ UNCHANGED server /\ pollRetry' = None
    BY <1>3 DEF Send, Move
  <2>3. x.body = None /\ x.run = r /\ x.pc = "sending"
    BY DEF Task
  <2>4. task[t].pc = "idle"
    BY <2>1 DEF Idle, Task
  <2>. HIDE DEF x
  <2>5. task'[t] = x /\ \A u \in Tasks : u # t => task'[u] = task[u]
    BY <2>2 DEF SessionInv, TasksFit, Move
  <2>6. \A s \in Runs : ~Mentions(t, x, s) /\ ~Knows(x, s) /\ s # pollRetry'
    BY <2>1, <2>2, <2>3 DEF Mentions, Knows, SessionAssumption
  <2>. QED
    BY <2>2, <2>4, <2>5, <2>6, KnowledgeStays DEF server
<1>4. ASSUME NEW t \in Tasks, Retry(t) PROVE KnowledgeInv'
  <2>1. /\ pollRetry \in Runs /\ Reached(pollRetry) /\ StartPoll(t, ref, pollRetry)
        /\ UNCHANGED server /\ pollRetry' = None
    BY <1>4 DEF Retry, SessionInv, LoopsFit, KnowledgeInv, ServerReached
  <2>. QED
    BY <2>1, StartPollKnowledge
<1>5. CASE Render
  BY <1>5, SilentKnowledge DEF Render, server, run
<1>6. CASE Effect
  BY <1>6, PageKnowledge DEF Effect
<1>. QED
  BY <1>1, <1>2, <1>3, <1>4, <1>5, <1>6

\* What a served task is.
LEMMA ServedTask ==
  ASSUME SessionInv, NEW t \in Tasks, NEW b, Served(t, b)
  PROVE  /\ \A u \in Tasks : u # t => task'[u] = task[u]
         /\ task'[t].pc = task[t].pc /\ task'[t].run = task[t].run /\ task'[t].body = b
         /\ task'[t].agent = task[t].agent /\ task'[t].epoch = task[t].epoch
<1>. DEFINE y == task[t]
            x == Task(y.pc, y.agent, y.run, y.epoch, y.errors, b)
<1>1. y \in TaskRecs
  BY DEF SessionInv, TasksFit
<1>2. [y EXCEPT !.body = b] = x
  BY <1>1, Fields
<1>3. task' = [task EXCEPT ![t] = x]
  BY <1>2, Zenon DEF Served
<1>4. /\ x.pc = y.pc /\ x.run = y.run /\ x.body = b
      /\ x.agent = y.agent /\ x.epoch = y.epoch
  BY DEF Task
<1>. HIDE DEF x
<1>. QED
  BY <1>3, <1>4 DEF SessionInv, TasksFit

LEMMA ServeKnowledge ==
  ASSUME SessionAssumption, SessionInv, KnowledgeInv, NEW t \in Tasks, Serve(t)
  PROVE  KnowledgeInv'
<1>. DEFINE r == IF task[t].pc = "loading" THEN latest[task[t].agent] ELSE task[t].run
            alive == IF task[t].pc \in Listing THEN live ELSE live \cap {r}
            b == Answer(r, alive)
<1>1. /\ Served(t, b) /\ task[t].pc \in Asking \ {"sending"} /\ task[t].body = None
      /\ UNCHANGED <<latest, live, pollRetry>>
  BY DEF Serve, run, server
<1>2. b.run = r /\ b.live = alive
  BY DEF Answer
<1>. HIDE DEF b
<1>3. /\ \A u \in Tasks : u # t => task'[u] = task[u]
      /\ task'[t].pc = task[t].pc /\ task'[t].run = task[t].run /\ task'[t].body = b
  BY <1>1, ServedTask
<1>4. \A s \in Runs : s = r => Reached(s)
  <2>1. CASE task[t].pc = "loading"
    BY <2>1, InTask DEF Fits, KnowledgeInv, ServerReached, SessionAssumption
  <2>2. CASE task[t].pc # "loading"
    <3>1. CASE t = <<"send", task[t].run>>
      BY <1>1, <2>2, <3>1 DEF Reached, Asking
    <3>2. CASE t # <<"send", task[t].run>>
      BY <2>2, <3>2 DEF KnowledgeInv, Mentions
    <3>. QED
      BY <3>1, <3>2
  <2>. QED
    BY <2>1, <2>2
<1>5. \A s \in Runs : Mentions(t, task'[t], s) \/ s = pollRetry' => Reached(s)
  BY <1>1, <1>2, <1>3, <1>4 DEF Mentions, KnowledgeInv, ServerReached
<1>6. \A s \in Runs : Knows(task'[t], s) => s \notin live
  BY <1>2, <1>3 DEF Knows, KnowledgeInv
<1>. QED
  BY <1>1, <1>3, <1>5, <1>6, KnowledgeStays DEF Asking

\* The one step that makes a Run live: nobody else has heard of it yet.
LEMMA ServeSendKnowledge ==
  ASSUME SessionAssumption, SessionInv, KnowledgeInv, NEW t \in Tasks, ServeSend(t)
  PROVE  KnowledgeInv'
<1>. DEFINE r == task[t].run
            a == task[t].agent
<1>1. task[t].pc = "sending" /\ task[t].body = None /\ UNCHANGED pollRetry
  BY DEF ServeSend, run
<1>2. r \in Runs /\ t = <<"send", r>> /\ a \in Agents
  BY <1>1, InTask DEF Fits, TaskRecs, SessionAssumption
<1>3. r \notin Earlier
  BY <1>2 DEF Tasks, Sends, Loads, Lists, Retries
<1>4. ~Reached(r)
  BY <1>1, <1>2, <1>3 DEF Reached
<1>5. CASE /\ latest' = [latest EXCEPT ![a] = r]
           /\ live' \in {live, live \cup {r}}
           /\ Served(t, Answer(r, live' \cap {r}))
  <2>. DEFINE b == Answer(r, live' \cap {r})
  <2>1. b.run = r /\ b.live = live' \cap {r} /\ b \in Answers
    BY <1>2 DEF Answer, Answers
  <2>2. /\ \A u \in Tasks : u # t => task'[u] = task[u]
        /\ task'[t].pc = "sending" /\ task'[t].run = r /\ task'[t].body = b
    BY <1>1, <1>5, ServedTask
  <2>. HIDE DEF b
  <2>3. b # None
    BY <2>1 DEF Answers, SessionAssumption
  <2>4. ASSUME NEW s \in Runs, s = r PROVE Reached(s)'
    BY <1>2, <2>2, <2>3, <2>4 DEF Reached
  <2>5. ASSUME NEW s \in Runs, Reached(s) PROVE Reached(s)'
    <3>1. CASE s \in Earlier
      BY <3>1 DEF Reached
    <3>2. CASE s \notin Earlier
      <4>1. <<"send", s>> \in Tasks
        BY <3>2 DEF Tasks, Sends
      <4>2. CASE s = r
        BY <2>4, <4>2
      <4>3. CASE s # r
        <5>1. task'[<<"send", s>>] = task[<<"send", s>>]
          BY <1>2, <2>2, <4>1, <4>3
        <5>. QED
          BY <2>5, <3>2, <5>1 DEF Reached
      <4>. QED
        BY <4>2, <4>3
    <3>. QED
      BY <3>1, <3>2
  <2>6. ServerReached'
    <3>1. \A s \in Runs : s \in live' \/ s = pollRetry' => s = r \/ Reached(s)
      BY <1>1, <1>5 DEF KnowledgeInv, ServerReached
    <3>2. \A c \in Agents :
            latest'[c] # None => latest'[c] \in Runs /\ (latest'[c] = r \/ Reached(latest'[c]))
      BY <1>2, <1>5 DEF KnowledgeInv, ServerReached, SessionInv, ServerFits
    <3>. QED
      BY <1>2, <2>4, <2>5, <3>1, <3>2 DEF ServerReached
  <2>7. ASSUME NEW u \in Tasks, NEW s \in Runs
        PROVE  /\ Mentions(u, task'[u], s) => Reached(s)'
               /\ Knows(task'[u], s) => s \notin live'
    <3>1. CASE u = t
      <4>1. /\ Mentions(t, task'[t], s) => s = r
            /\ Knows(task'[t], s) => s = r /\ s \notin live'
        BY <1>2, <2>1, <2>2 DEF Mentions, Knows
      <4>. QED
        BY <2>4, <3>1, <4>1
    <3>2. CASE u # t
      <4>1. task'[u] = task[u]
        BY <2>2, <3>2
      <4>2. /\ Mentions(u, task[u], s) => Reached(s)
            /\ Knows(task[u], s) => s \notin live
        BY DEF KnowledgeInv
      <4>3. Knows(task[u], s) => s # r
        <5>1. Knows(task[u], s) => task[u].run = s \/ Mentions(u, task[u], s)
          BY DEF Knows, Mentions
        <5>2. task[u].run = r => Mentions(u, task[u], r)
          BY <1>2, <3>2 DEF Mentions
        <5>. QED
          BY <1>2, <1>4, <4>2, <5>1, <5>2
      <4>4. Knows(task[u], s) => s \notin live'
        BY <1>5, <4>2, <4>3
      <4>. QED
        BY <2>5, <4>1, <4>2, <4>4
    <3>. QED
      BY <3>1, <3>2
  <2>. QED
    BY <2>6, <2>7 DEF KnowledgeInv, Mentions, Knows
<1>6. CASE Served(t, Answer(None, {})) /\ UNCHANGED server
  <2>. DEFINE b == Answer(None, {})
  <2>1. b.run = None /\ b.live = {} /\ b \in Answers /\ b # None
    BY DEF Answer, Answers, SessionAssumption
  <2>2. /\ \A u \in Tasks : u # t => task'[u] = task[u]
        /\ task'[t].pc = "sending" /\ task'[t].run = r /\ task'[t].body = b
    BY <1>1, <1>6, ServedTask
  <2>. HIDE DEF b
  <2>3. \A s \in Runs : Mentions(t, task'[t], s) \/ s = pollRetry' => Reached(s)
    BY <1>1, <1>2, <2>1, <2>2 DEF Mentions, KnowledgeInv, ServerReached, SessionAssumption
  <2>4. \A s \in Runs : Knows(task'[t], s) => s \notin live
    BY <2>1, <2>2 DEF Knows, SessionAssumption
  <2>. QED
    BY <1>6, <2>1, <2>2, <2>3, <2>4, KnowledgeStays DEF server
<1>. QED
  BY <1>5, <1>6 DEF ServeSend

LEMMA OverKnowledge ==
  ASSUME SessionAssumption, SessionInv, KnowledgeInv, NEW t \in Tasks,
         NEW x \in {Over(t), Done}, Move(t, x), UNCHANGED server,
         pollRetry' \in {None, pollRetry}
  PROVE  KnowledgeInv'
<1>1. /\ x.body = None /\ x.run = None /\ x.pc \in {"idle", "done"}
      /\ x.pc = "idle" => t \notin Sends
  BY DEF Over, Idle, Done, Task
<1>. QED
  BY <1>1, QuietKnowledge

LEMMA WakeKnowledge ==
  ASSUME SessionAssumption, SessionInv, KnowledgeInv, NEW t \in Tasks, Wake(t)
  PROVE  KnowledgeInv'
<1>. DEFINE y == task[t]
            x == Task("fetching", y.agent, y.run, y.epoch, y.errors, y.body)
<1>1. y.pc \in Loops /\ y.body = None /\ UNCHANGED server
  BY InTask DEF Wake, At, Loops, Fits
<1>2. CASE Quiet(t)
  BY <1>1, <1>2, QuietLeaves, LoopKnowledge
<1>3. CASE /\ task' = [task EXCEPT ![t] = [@ EXCEPT !.pc = "fetching"]]
           /\ UNCHANGED <<polling, pollRetry>>
  <2>1. [y EXCEPT !.pc = "fetching"] = x
    BY InTask, Fields
  <2>2. Move(t, x)
    BY <1>3, <2>1, Zenon DEF Move
  <2>3. x.body = None /\ x.run = y.run /\ x.pc = "fetching"
    BY <1>1 DEF Task
  <2>. HIDE DEF x
  <2>. QED
    BY <1>1, <1>3, <2>2, <2>3, QuietKnowledge
<1>. QED
  BY <1>2, <1>3 DEF Wake

LEMMA LoadArrivesKnowledge ==
  ASSUME SessionAssumption, SessionInv, KnowledgeInv, NEW t \in Tasks, LoadArrives(t)
  PROVE  KnowledgeInv'
<1>. DEFINE b == task[t].body
<1>1. b # None /\ b \in Answers /\ UNCHANGED server /\ UNCHANGED pollRetry
  BY InTask DEF LoadArrives, Arrived
<1>2. CASE b.run # None /\ StartPoll(t, task[t].agent, b.run)
  <2>1. b.run \in Runs /\ Reached(b.run)
    BY <1>1, <1>2 DEF Answers, KnowledgeInv, Mentions
  <2>. QED
    BY <1>1, <1>2, <2>1, StartPollKnowledge
<1>3. CASE task' = [task EXCEPT ![t] = Idle]
  <2>1. Over(t) = Idle
    BY InTask, Kinds DEF LoadArrives, Arrived, At, Fits, Over
  <2>. QED
    BY <1>1, <1>3, <2>1, OverKnowledge DEF Move
<1>. QED
  BY <1>2, <1>3 DEF LoadArrives

LEMMA FetchArrivesKnowledge ==
  ASSUME SessionAssumption, SessionInv, KnowledgeInv, NEW t \in Tasks, FetchArrives(t)
  PROVE  KnowledgeInv'
<1>. DEFINE y == task[t]
            next == IF y.run \in y.body.live THEN "refreshing" ELSE "finishing"
            x == Task(next, y.agent, y.run, y.epoch, y.errors, None)
<1>1. /\ y.pc = "fetching" /\ y.pc \in Loops /\ y.body # None /\ y.body.run = y.run
      /\ UNCHANGED server
  BY InTask DEF FetchArrives, Arrived, At, Loops, Fits
<1>2. CASE Quiet(t) \/ LoopError(t)
  BY <1>1, <1>2, QuietLeaves, LoopErrorLeaves, LoopKnowledge
<1>3. CASE /\ task' = [task EXCEPT ![t] = [@ EXCEPT !.pc = next, !.body = None]]
           /\ UNCHANGED <<polling, pollRetry>>
  <2>1. [y EXCEPT !.pc = next, !.body = None] = x
    BY InTask, Fields
  <2>2. Move(t, x)
    BY <1>3, <2>1, Zenon DEF Move
  <2>3. x.body = None /\ x.run = y.run /\ x.pc = next
    BY DEF Task
  <2>. HIDE DEF x
  <2>4. task'[t] = x /\ \A u \in Tasks : u # t => task'[u] = task[u]
    BY <2>2 DEF SessionInv, TasksFit, Move
  <2>5. y.run \in Runs /\ Reached(y.run)
    BY <1>1, LoopReached
  <2>6. \A s \in Runs : Mentions(t, x, s) \/ s = pollRetry' => Reached(s)
    BY <1>3, <2>3, <2>5 DEF Mentions, KnowledgeInv, ServerReached
  <2>7. \A s \in Runs : Knows(x, s) => s \notin live
    <3>1. \A s \in Runs : Knows(x, s) => s = y.run /\ s \notin y.body.live
      BY <2>3 DEF Knows
    <3>. QED
      BY <1>1, <3>1 DEF Knows, KnowledgeInv
  <2>. QED
    BY <1>1, <2>3, <2>4, <2>6, <2>7, KnowledgeStays DEF server
<1>. QED
  BY <1>2, <1>3 DEF FetchArrives

LEMMA NotAcceptedKnowledge ==
  ASSUME SessionAssumption, SessionInv, KnowledgeInv, NEW t \in Tasks, NEW r,
         NotAccepted(t, r), UNCHANGED server,
         \/ r = None
         \/ task[t].body # None /\ task[t].body.run = r /\ r \notin task[t].body.live
  PROVE  KnowledgeInv'
<1>. DEFINE x == Task("relisting", task[t].agent, r, epoch, 0, None)
<1>1. Move(t, x) /\ UNCHANGED pollRetry
  BY DEF NotAccepted, Move
<1>2. x.body = None /\ x.run = r /\ x.pc = "relisting"
  BY DEF Task
<1>. HIDE DEF x
<1>3. task'[t] = x /\ \A u \in Tasks : u # t => task'[u] = task[u]
  BY <1>1 DEF SessionInv, TasksFit, Move
<1>4. \A s \in Runs : s = r => Mentions(t, task[t], s) /\ Knows(task[t], s)
  BY DEF Mentions, Knows, SessionAssumption
<1>5. \A s \in Runs : Mentions(t, x, s) \/ s = pollRetry' => Reached(s)
  BY <1>1, <1>2, <1>4 DEF Mentions, KnowledgeInv, ServerReached
<1>6. \A s \in Runs : Knows(x, s) => s \notin live
  BY <1>2, <1>4 DEF Knows, KnowledgeInv
<1>. QED
  BY <1>2, <1>3, <1>5, <1>6, KnowledgeStays DEF server

LEMMA SendArrivesKnowledge ==
  ASSUME SessionAssumption, SessionInv, KnowledgeInv, NEW t \in Tasks, SendArrives(t)
  PROVE  KnowledgeInv'
<1>. DEFINE y == task[t]
<1>1. y.body # None /\ UNCHANGED server
  BY DEF SendArrives, Arrived
<1>2. CASE Accepted(t)
  <2>1. y.run \in Runs /\ Reached(y.run)
    BY <1>1, <1>2, InTask DEF Accepted, KnowledgeInv, Mentions, Fits, SendArrives, Arrived,
       At, TaskRecs
  <2>2. StartPoll(t, y.agent, y.run) /\ pollRetry' \in {None, pollRetry}
    BY <1>2 DEF Accepted
  <2>. QED
    BY <1>1, <2>1, <2>2, StartPollKnowledge
<1>3. CASE y.body.run \notin y.body.live /\ NotAccepted(t, y.body.run)
  BY <1>1, <1>3, NotAcceptedKnowledge
<1>4. CASE task' = [task EXCEPT ![t] = Done] /\ UNCHANGED <<lists, run>>
  BY <1>1, <1>4, OverKnowledge DEF Move, run
<1>. QED
  BY <1>2, <1>3, <1>4 DEF SendArrives

LEMMA ArrivesKnowledge ==
  ASSUME SessionAssumption, SessionInv, KnowledgeInv, NEW t \in Tasks, Arrives(t)
  PROVE  KnowledgeInv'
<1>1. CASE RefreshArrives(t)
  BY <1>1, LoopLeaves, LoopKnowledge DEF RefreshArrives, Arrived, At, Loops
<1>2. CASE FinishArrives(t)
  BY <1>2, QuietLeaves, LoopErrorLeaves, LoopKnowledge DEF FinishArrives, Arrived, At, Loops
<1>3. CASE ListArrives(t)
  BY <1>3, OverKnowledge DEF ListArrives, Move
<1>. QED
  BY <1>1, <1>2, <1>3, LoadArrivesKnowledge, FetchArrivesKnowledge, SendArrivesKnowledge
     DEF Arrives

LEMMA LoseKnowledge ==
  ASSUME SessionAssumption, SessionInv, KnowledgeInv, NEW t \in Tasks, Lose(t)
  PROVE  KnowledgeInv'
<1>1. UNCHANGED server
  BY DEF Lose
<1>2. CASE LoseInLoop(t)
  <2>1. task[t].pc \in Loops /\ LoopError(t)
    BY <1>2 DEF LoseInLoop, At, Loops
  <2>. QED
    BY <1>1, <2>1, LoopErrorLeaves, LoopKnowledge
<1>3. CASE task' = [task EXCEPT ![t] = Over(t)] /\ UNCHANGED <<lists, run>>
  BY <1>1, <1>3, OverKnowledge DEF Move, run
<1>4. CASE NotAccepted(t, None)
  BY <1>1, <1>4, NotAcceptedKnowledge
<1>. QED
  BY <1>2, <1>3, <1>4 DEF Lose, LoseOther

LEMMA InitKnowledge == ASSUME SessionAssumption, Init PROVE KnowledgeInv
<1>1. ServerReached
  <2>1. ASSUME NEW a \in Agents, latest[a] # None PROVE latest[a] \in Earlier
    <3>1. latest[a] = IF \E r \in Earlier : AgentOf[r] = a
                      THEN CHOOSE r \in Earlier : AgentOf[r] = a ELSE None
      BY DEF Init
    <3>. QED
      BY <2>1, <3>1
  <2>. QED
    BY <2>1 DEF Init, ServerReached, Reached, SessionAssumption
<1>2. \A t \in Tasks, r \in Runs : ~Mentions(t, task[t], r) /\ ~Knows(task[t], r)
  BY DEF Init, Mentions, Knows, Idle, Task, SessionAssumption
<1>. QED
  BY <1>1, <1>2 DEF KnowledgeInv

LEMMA KnowledgeInductive ==
  ASSUME SessionAssumption, SessionInv, KnowledgeInv, [Next]_vars
  PROVE  KnowledgeInv'
<1>1. CASE UNCHANGED vars
  BY <1>1, SilentKnowledge DEF vars, server, run
<1>2. CASE \/ \E a \in Agents : Select(a)
           \/ \E p \in Principals : SwitchSession(p)
           \/ \E t \in Tasks : Send(t) \/ Retry(t)
           \/ Render \/ Effect
  BY <1>2, UserKnowledge
<1>3. ASSUME NEW t \in Tasks, Serve(t) \/ ServeSend(t) \/ Wake(t) PROVE KnowledgeInv'
  BY <1>3, ServeKnowledge, ServeSendKnowledge, WakeKnowledge
<1>4. ASSUME NEW t \in Tasks, Arrives(t) \/ Lose(t) PROVE KnowledgeInv'
  BY <1>4, ArrivesKnowledge, LoseKnowledge
<1>5. CASE \E r \in Runs : RunEnds(r)
  BY <1>5, SilentKnowledge DEF RunEnds, run
<1>6. CASE Rest
  BY <1>1, <1>6 DEF Rest
<1>. QED
  BY <1>1, <1>2, <1>3, <1>4, <1>5, <1>6 DEF Next

\* The page knows only of Runs the server has seen, and what it has been told to be over
\* is over.
THEOREM KnowledgeInvCorrect == Spec => [](SessionInv /\ KnowledgeInv)
BY InitSession, InitKnowledge, SessionInductive, KnowledgeInductive, SessionAssumption,
   PTL DEF Spec

\* Which steps a loop takes.
LoopStep(t) ==
  \/ Serve(t) \/ Wake(t) \/ FetchArrives(t) \/ RefreshArrives(t) \/ FinishArrives(t)
  \/ LoseInLoop(t)

LEMMA WrittenElsewhere ==
  ASSUME SessionInv, NEW t \in Tasks, NEW u, u # t, NEW x, task' = [task EXCEPT ![u] = x]
  PROVE  task'[t] = task[t]
BY DEF SessionInv, TasksFit

LEMMA UserLeavesLoops ==
  ASSUME SessionAssumption, SessionInv, NEW t \in Tasks, task[t].pc \in Loops,
         \/ \E a \in Agents : Select(a)
         \/ \E p \in Principals : SwitchSession(p)
         \/ \E u \in Tasks : Send(u) \/ Retry(u)
         \/ Render \/ Effect
  PROVE  task'[t] = task[t]
<1>1. ASSUME NEW a, EffectOn(a) PROVE task'[t] = task[t]
  <2>1. PICK u \in Loads :
          /\ task[u].pc = "idle"
          /\ task' = [task EXCEPT ![u] = Task("loading", a, None, epoch, 0, None)]
    BY <1>1 DEF EffectOn
  <2>2. u # t
    BY <2>1 DEF Loops
  <2>. QED
    BY <2>1, <2>2, WrittenElsewhere
<1>2. ASSUME NEW a \in Agents, Select(a) PROVE task'[t] = task[t]
  BY <1>1, <1>2 DEF Select
<1>3. ASSUME NEW p \in Principals, SwitchSession(p) PROVE task'[t] = task[t]
  <2>1. /\ <<"list", epoch + 1>> \in Lists
        /\ task' = [task EXCEPT ![<<"list", epoch + 1>>] =
                      Task("listing", None, None, epoch + 1, 0, None)]
    BY <1>3 DEF SwitchSession, SessionInv, Page, SessionAssumption, Lists
  <2>2. <<"list", epoch + 1>> # t
    BY <2>1, InLoop
  <2>. QED
    BY <2>1, <2>2, WrittenElsewhere
<1>4. ASSUME NEW u \in Tasks, Send(u) \/ Retry(u) PROVE task'[t] = task[t]
  <2>1. u # t
    BY <1>4 DEF Send, Retry, Idle, Task, Loops
  <2>2. \E x : task' = [task EXCEPT ![u] = x]
    BY <1>4 DEF Send, Retry, StartPoll
  <2>. QED
    BY <2>1, <2>2, WrittenElsewhere
<1>5. CASE Render
  BY <1>5 DEF Render
<1>6. CASE Effect
  BY <1>1, <1>6 DEF Effect
<1>. QED
  BY <1>2, <1>3, <1>4, <1>5, <1>6

\* A step of one task leaves the others alone.
LEMMA OthersLeft ==
  ASSUME SessionInv, NEW t \in Tasks, NEW u \in Tasks, u # t,
         Serve(u) \/ ServeSend(u) \/ Wake(u) \/ Arrives(u) \/ Lose(u)
  PROVE  task'[t] = task[t]
<1>1. CASE Serve(u) \/ ServeSend(u)
  <2>1. \E b : Served(u, b)
    BY <1>1 DEF Serve, ServeSend
  <2>. QED
    BY <2>1, ServedTask
<1>2. \E x : Quiet(u) \/ GiveUp(u) => task' = [task EXCEPT ![u] = x]
  BY DEF Quiet, GiveUp
<1>3. ASSUME NEW n, Loop(u, n) PROVE \E x : task' = [task EXCEPT ![u] = x]
  BY <1>2, <1>3 DEF Loop, Quiet
<1>4. LoopError(u) => \E x : task' = [task EXCEPT ![u] = x]
  BY <1>3 DEF LoopError, GiveUp
<1>5. CASE Wake(u)
  <2>1. \E x : task' = [task EXCEPT ![u] = x]
    BY <1>5, Zenon DEF Wake, Quiet
  <2>. QED
    BY <2>1, WrittenElsewhere
<1>6. CASE FetchArrives(u)
  <2>1. \E x : task' = [task EXCEPT ![u] = x]
    BY <1>4, <1>6, Zenon DEF FetchArrives, Quiet
  <2>. QED
    BY <2>1, WrittenElsewhere
<1>7. CASE RefreshArrives(u) \/ FinishArrives(u)
  <2>1. \E x : task' = [task EXCEPT ![u] = x]
    BY <1>3, <1>4, <1>7 DEF RefreshArrives, FinishArrives, Quiet
  <2>. QED
    BY <2>1, WrittenElsewhere
<1>8. CASE LoadArrives(u) \/ SendArrives(u) \/ ListArrives(u)
  <2>1. \E x : task' = [task EXCEPT ![u] = x]
    BY <1>8, Zenon DEF LoadArrives, SendArrives, Accepted, NotAccepted, StartPoll, ListArrives
  <2>. QED
    BY <2>1, WrittenElsewhere
<1>9. CASE Lose(u)
  <2>1. \E x : task' = [task EXCEPT ![u] = x]
    BY <1>4, <1>9, Zenon DEF Lose, LoseInLoop, LoseOther, NotAccepted
  <2>. QED
    BY <2>1, WrittenElsewhere
<1>. QED
  BY <1>1, <1>5, <1>6, <1>7, <1>8, <1>9 DEF Arrives

LEMMA LoopTouched ==
  ASSUME SessionAssumption, SessionInv, NEW t \in Tasks, task[t].pc \in Loops, Next
  PROVE  task'[t] = task[t] \/ LoopStep(t)
<1>1. CASE \/ \E a \in Agents : Select(a)
           \/ \E p \in Principals : SwitchSession(p)
           \/ \E u \in Tasks : Send(u) \/ Retry(u)
           \/ Render \/ Effect
  BY <1>1, UserLeavesLoops
<1>2. ASSUME NEW u \in Tasks, u # t,
             Serve(u) \/ ServeSend(u) \/ Wake(u) \/ Arrives(u) \/ Lose(u)
      PROVE  task'[t] = task[t]
  BY <1>2, OthersLeft
<1>3. CASE Serve(t) \/ ServeSend(t) \/ Wake(t) \/ Arrives(t) \/ Lose(t)
  <2>1. ~ServeSend(t) /\ ~LoadArrives(t) /\ ~SendArrives(t) /\ ~ListArrives(t)
    BY DEF ServeSend, LoadArrives, SendArrives, ListArrives, Arrived, At, Loops
  <2>2. ~LoseOther(t)
    BY DEF LoseOther, At, Loops
  <2>. QED
    BY <1>3, <2>1, <2>2 DEF Arrives, Lose, LoopStep
<1>4. CASE \/ \E r \in Runs : RunEnds(r)
           \/ Rest
  BY <1>4 DEF RunEnds, Rest, vars
<1>. QED
  BY <1>1, <1>2, <1>3, <1>4 DEF Next

\* A loop that is still wanted goes on, unless its Run is over or a retry is offered.
LEMMA WantedLoopGoesOn ==
  ASSUME SessionAssumption, SessionInv, KnowledgeInv, NEW t \in Tasks, NEW r \in Runs,
         Polls(t, r), Continues(t), LoopStep(t)
  PROVE  Polls(t, r)' \/ r \notin live \/ pollRetry' = r
<1>. DEFINE y == task[t]
<1>1. y.pc \in Loops /\ y.run = r /\ Fresh(t) /\ ref = y.agent
  BY DEF Polls, Continues, Fresh
<1>2. ASSUME NEW n, Loop(t, n) PROVE Polls(t, r)'
  <2>1. task' = [task EXCEPT ![t] = Task("waiting", y.agent, y.run, y.epoch, n, None)]
    BY <1>2 DEF Loop
  <2>2. task'[t] = Task("waiting", y.agent, y.run, y.epoch, n, None)
    BY <2>1 DEF SessionInv, TasksFit
  <2>. QED
    BY <1>1, <2>2 DEF Polls, Task, Loops
<1>3. CASE Serve(t)
  <2>1. \E b : Served(t, b)
    BY <1>3 DEF Serve
  <2>2. task'[t].pc = y.pc /\ task'[t].run = y.run
    BY <2>1, ServedTask
  <2>. QED
    BY <1>1, <2>2 DEF Polls
<1>4. CASE Wake(t)
  <2>. DEFINE x == Task("fetching", y.agent, y.run, y.epoch, y.errors, y.body)
  <2>1. [y EXCEPT !.pc = "fetching"] = x
    BY InTask, Fields
  <2>2. task' = [task EXCEPT ![t] = x]
    BY <1>4, <2>1, Zenon DEF Wake
  <2>3. x.pc \in Loops /\ x.run = r
    BY <1>1 DEF Task, Loops
  <2>. HIDE DEF x
  <2>4. task'[t] = x
    BY <2>2 DEF SessionInv, TasksFit
  <2>. QED
    BY <2>3, <2>4 DEF Polls
<1>5. CASE FetchArrives(t)
  <2>. DEFINE next == IF y.run \in y.body.live THEN "refreshing" ELSE "finishing"
              x == Task(next, y.agent, y.run, y.epoch, y.errors, None)
  <2>1. [y EXCEPT !.pc = next, !.body = None] = x
    BY InTask, Fields
  <2>2. task' = [task EXCEPT ![t] = x]
    BY <1>1, <1>5, <2>1, Zenon DEF FetchArrives
  <2>3. x.pc \in Loops /\ x.run = r
    BY <1>1 DEF Task, Loops
  <2>. HIDE DEF x
  <2>4. task'[t] = x
    BY <2>2 DEF SessionInv, TasksFit
  <2>. QED
    BY <2>3, <2>4 DEF Polls
<1>6. CASE RefreshArrives(t)
  BY <1>2, <1>6 DEF RefreshArrives
<1>7. CASE FinishArrives(t)
  <2>1. Knows(y, r)
    BY <1>1, <1>7 DEF FinishArrives, Arrived, At, Knows
  <2>. QED
    BY <2>1 DEF KnowledgeInv
<1>8. CASE LoseInLoop(t)
  <2>1. GiveUp(t) \/ Loop(t, y.errors + 1)
    BY <1>8 DEF LoseInLoop, LoopError
  <2>2. GiveUp(t) => pollRetry' = r
    BY <1>1 DEF GiveUp, Fresh
  <2>. QED
    BY <1>2, <2>1, <2>2
<1>. QED
  BY <1>3, <1>4, <1>5, <1>6, <1>7, <1>8 DEF LoopStep

\* A loop does not go silent, and does not go on after MaxErrors errors in a row.
THEOREM LoopsEndWithAReason == Spec => LoopsEndForAReason
<1>. DEFINE Reasons ==
       \A t \in Tasks, r \in Runs :
         /\ Polls(t, r) /\ Continues(t) /\ epoch' = epoch /\ ref' = ref /\ ~Polls(t, r)' =>
              r \notin live \/ pollRetry' = r
         /\ task'[t].errors < MaxErrors
<1>1. ASSUME SessionInv, SessionInv', KnowledgeInv, [Next]_vars PROVE [Reasons]_vars
  <2>. SUFFICES ASSUME Next PROVE Reasons
    BY <1>1
  <2>. SUFFICES ASSUME NEW t \in Tasks, NEW r \in Runs
                PROVE  /\ Polls(t, r) /\ Continues(t) /\ ~Polls(t, r)' =>
                            r \notin live \/ pollRetry' = r
                       /\ task'[t].errors < MaxErrors
    OBVIOUS
  <2>1. task'[t].errors < MaxErrors
    BY <1>1, SessionAssumption DEF SessionInv, TasksFit, TaskRecs, SessionAssumption
  <2>2. ASSUME Polls(t, r), Continues(t), ~Polls(t, r)' PROVE r \notin live \/ pollRetry' = r
    <3>1. task[t].pc \in Loops /\ task'[t] # task[t]
      BY <2>2 DEF Polls
    <3>2. LoopStep(t)
      BY <1>1, <3>1, LoopTouched, SessionAssumption
    <3>. QED
      BY <1>1, <2>2, <3>2, WantedLoopGoesOn, SessionAssumption
  <2>. QED
    BY <2>1, <2>2
<1>2. SessionInv /\ SessionInv' /\ KnowledgeInv /\ [Next]_vars => [Reasons]_vars
  BY <1>1
<1>. QED
  BY <1>2, KnowledgeInvCorrect, PTL DEF Spec, LoopsEndForAReason

-----------------------------------------------------------------------------
(***************************************************************************)
(* The evidence.  A page takes an answer only from who has asked last; so  *)
(* nothing that it shows is of another page (EvidencePage), no answer that *)
(* it still waits for is older than what it shows (Ordered), and whoever   *)
(* has asked last for a Run that is over either is still on the way to its *)
(* final Receipt or has brought it (AwaitedIsFinal, UnawaitedIsFinal).     *)
(***************************************************************************)

Versions == 0..2
Tickets == [run : Runs, task : Tasks, awaited : BOOLEAN]
Receipts == [run : Runs, version : Versions]

EvidenceTypeOK ==
  /\ version \in [Runs -> Versions] /\ receipt \in Receipts \cup {None}
  /\ denied \in Runs \cup {None} /\ context \in Runs \cup {None}
  /\ seen \in [Tasks -> Versions]
  /\ proof \in [Proofs -> [pc : {"idle", "out", "served"}, epoch : 0..MaxSwitches,
                           version : Versions]]
  /\ asked \in Tickets \cup {None}

EvidencePage ==
  /\ receipt # None => AgentOf[receipt.run] \in {ref, effectFor}
  /\ \A r \in {denied, context} \ {None} : AgentOf[r] \in {ref, effectFor}
  /\ asked # None => AgentOf[asked.run] \in {ref, effectFor}

\* A loop has been told the Receipt that it asked for.
Told(t) == task[t].pc \in {"refreshing", "finishing"} /\ task[t].body # None

\* What is shown, or may still be taken, is no later than what the server has, and what
\* may still be taken is no older than what is shown.
Ordered ==
  /\ receipt # None => receipt.version <= version[receipt.run]
  /\ \A t \in Tasks : Told(t) =>
       /\ seen[t] <= version[task[t].run]
       /\ asked = OfLoop(t) /\ receipt # None /\ receipt.run = task[t].run =>
            receipt.version <= seen[t]
  /\ \A p \in Proofs : proof[p].pc = "served" =>
       /\ proof[p].version <= version[p[1]]
       /\ asked = Ticket(p[1], p[2], FALSE) /\ receipt # None /\ receipt.run = p[1] =>
            receipt.version <= proof[p].version

EvidenceInv == EvidenceTypeOK /\ EvidencePage /\ Ordered

\* Nothing becomes live again.
IsOver(r) == r \notin live /\ Reached(r)
ShowsFinal(r) == IsOver(r) /\ receipt = ReceiptOf(r, version[r])

\* A task whose record is x has met n errors at most, lists for no Run but a send of its
\* own.
Plain(t, x, n) ==
  /\ x.errors <= n
  /\ x.pc = "listing" => x.run = None
  /\ x.pc = "relisting" /\ x.run # None => t = <<"send", x.run>>

PlainTasks == \A t \in Tasks : Plain(t, task[t], lost)

ShownIsOver == activeRun # None /\ ~activeRun.live => IsOver(activeRun.id)

\* The loop of t goes on, and what it has been told of a Run that is over is final.
Follows(t, r) ==
  /\ Polls(t, r) /\ Continues(t)
  /\ task[t].pc = "finishing" /\ Told(t) => seen[t] = version[r]

AwaitedIsFinal ==
  \A t \in Tasks, r \in Runs :
    asked = Ticket(r, t, TRUE) /\ ref = effectFor /\ lost < MaxErrors =>
      Follows(t, r) \/ ShowsFinal(r)

\* A send has asked for the Receipt of its denial, any other for that of a Run it has
\* been told is over.
AskedForOver(t, r) ==
  \/ t \notin Sends
  \/ activeRun # None /\ activeRun.id = r /\ ~activeRun.live
  \/ task[t].pc = "relisting" /\ task[t].run = r

OnItsWay(p) ==
  /\ IsOver(p[1]) /\ proof[p].pc # "idle" /\ proof[p].epoch = epoch
  /\ proof[p].pc = "served" => proof[p].version = version[p[1]]

UnawaitedIsFinal ==
  \A t \in Tasks, r \in Runs :
    asked = Ticket(r, t, FALSE) =>
      /\ <<r, t>> \in Proofs
      /\ t \in Sends => task[t].pc \notin {"idle", "sending"}
      /\ ref = effectFor /\ lost = 0 /\ AskedForOver(t, r) =>
           ShowsFinal(r) \/ OnItsWay(<<r, t>>)

FinalInv == PlainTasks /\ ShownIsOver /\ AwaitedIsFinal /\ UnawaitedIsFinal

-----------------------------------------------------------------------------
(* A step of the evidence is a step of the page, or the failure of a request that *)
(* nobody awaits.                                                                 *)

LostUnheard ==
  lost' = lost + 1 /\ UNCHANGED <<server, identity, lists, view, run, task, selects>>

LEMMA EvidenceSteps ==
  ASSUME [EvidenceNext]_evars
  PROVE  [Next]_vars \/ LostUnheard
<1>1. CASE UNCHANGED evars
  BY <1>1 DEF evars
<1>2. CASE NewPage \/ SamePage
  BY <1>2 DEF NewPage, SamePage, Judge, Next, Arrives, Tasks
<1>3. ASSUME NEW t \in Tasks, PageStep(t) PROVE Next
  BY <1>3 DEF PageStep, ServeRead, Load, Fetch, Refresh, Sent, LoseRequest, Next, Arrives
<1>4. ASSUME NEW p \in Proofs, ProofStep(p) PROVE UNCHANGED vars \/ LostUnheard
  BY <1>4 DEF ProofStep, ServeProof, ProofArrives, ProofFails, LostUnheard
<1>5. ASSUME NEW r \in Runs, ReceiptChanges(r) PROVE UNCHANGED vars
  BY <1>5 DEF ReceiptChanges
<1>. QED
  BY <1>1, <1>2, <1>3, <1>4, <1>5 DEF EvidenceNext

LEMMA SessionOfEvidence ==
  ASSUME SessionAssumption, SessionInv, KnowledgeInv, [EvidenceNext]_evars
  PROVE  SessionInv' /\ KnowledgeInv'
<1>1. CASE [Next]_vars
  BY <1>1, SessionInductive, KnowledgeInductive
<1>2. CASE LostUnheard
  <2>1. SessionInv'
    BY <1>2 DEF LostUnheard, server, identity, lists, view, run, SessionInv, TasksFit,
       ServerFits, Page, LoopsFit, OneLoopPerRun, Polls, Owned
  <2>2. KnowledgeInv'
    BY <1>2, SilentKnowledge DEF LostUnheard, server, run
  <2>. QED
    BY <2>1, <2>2
<1>. QED
  BY <1>1, <1>2, EvidenceSteps

\* A task that has no loop gets one at its timer only.
LEMMA LoopsStartWaiting ==
  ASSUME SessionAssumption, SessionInv, NEW t \in Tasks, task[t].pc \notin Loops, Next
  PROVE  task'[t].pc \notin Loops \ {"waiting"}
<1>1. ASSUME NEW u, NEW x, task' = [task EXCEPT ![u] = x], x.pc \notin Loops \ {"waiting"}
      PROVE  task'[t].pc \notin Loops \ {"waiting"}
  <2>1. CASE u = t
    BY <1>1, <2>1 DEF SessionInv, TasksFit
  <2>2. CASE u # t
    BY <1>1, <2>2, WrittenElsewhere DEF Loops
  <2>. QED
    BY <2>1, <2>2
<1>2. \A u \in Tasks : Over(u).pc \notin Loops
  BY DEF Over, Idle, Done, Task, Loops
<1>3. Idle.pc \notin Loops /\ Done.pc \notin Loops
  BY DEF Idle, Done, Task, Loops
<1>4. \A p, a, r, e, n, b : Task(p, a, r, e, n, b).pc = p
  BY DEF Task
<1>5. /\ "loading" \notin Loops /\ "listing" \notin Loops /\ "sending" \notin Loops
      /\ "relisting" \notin Loops
  BY DEF Loops
<1>6. ASSUME NEW u \in Tasks, NEW a, NEW r, StartPoll(u, a, r)
      PROVE  task'[t].pc \notin Loops \ {"waiting"}
  BY <1>1, <1>2, <1>4, <1>6 DEF StartPoll
<1>7. ASSUME NEW a, EffectOn(a) PROVE task'[t].pc \notin Loops \ {"waiting"}
  BY <1>1, <1>4, <1>5, <1>7 DEF EffectOn
<1>8. CASE \E a \in Agents : Select(a)
  BY <1>7, <1>8 DEF Select
<1>9. CASE \E p \in Principals : SwitchSession(p)
  BY <1>1, <1>4, <1>5, <1>9 DEF SwitchSession
<1>10. CASE \E u \in Tasks : Send(u) \/ Retry(u)
  BY <1>1, <1>4, <1>5, <1>6, <1>10 DEF Send, Retry
<1>11. CASE Render \/ Effect
  BY <1>7, <1>11 DEF Render, Effect
<1>12. ASSUME NEW u \in Tasks, Serve(u) \/ ServeSend(u)
       PROVE  task'[t].pc \notin Loops \ {"waiting"}
  <2>1. \E b : Served(u, b)
    BY <1>12 DEF Serve, ServeSend
  <2>2. task'[t].pc = task[t].pc
    BY <2>1, ServedTask
  <2>. QED
    BY <2>2
<1>13. ASSUME NEW u \in Tasks, LoopStep(u), task[u].pc \in Loops
       PROVE  task'[t].pc \notin Loops \ {"waiting"}
  <2>1. t # u
    BY <1>13
  <2>2. task'[t] = task[t] \/ Serve(t)
    <3>1. CASE Serve(u)
      BY <1>12, <3>1, <2>1, ServedTask DEF Serve
    <3>2. CASE Wake(u)
      <4>1. CASE Quiet(u)
        BY <2>1, <4>1, WrittenElsewhere DEF Quiet
      <4>2. CASE ~Quiet(u)
        BY <2>1, <3>2, <4>2, WrittenElsewhere DEF Wake
      <4>. QED
        BY <4>1, <4>2
    <3>3. CASE FetchArrives(u)
      <4>1. CASE Quiet(u) \/ LoopError(u)
        BY <1>13, <2>1, <4>1, QuietLeaves, LoopErrorLeaves DEF LoopLeft
      <4>2. CASE ~(Quiet(u) \/ LoopError(u))
        BY <2>1, <3>3, <4>2, WrittenElsewhere DEF FetchArrives
      <4>. QED
        BY <4>1, <4>2
    <3>4. CASE RefreshArrives(u) \/ FinishArrives(u) \/ LoseInLoop(u)
      <4>1. LoopLeft(u)
        BY <1>13, <3>4, QuietLeaves, LoopLeaves, LoopErrorLeaves
           DEF RefreshArrives, FinishArrives, LoseInLoop
      <4>. QED
        BY <2>1, <4>1 DEF LoopLeft
    <3>. QED
      BY <1>13, <3>1, <3>2, <3>3, <3>4 DEF LoopStep
  <2>. QED
    BY <1>12, <2>2
<1>14. ASSUME NEW u \in Tasks, Wake(u) \/ FetchArrives(u) \/ RefreshArrives(u) \/ FinishArrives(u)
       PROVE  task'[t].pc \notin Loops \ {"waiting"}
  BY <1>13, <1>14 DEF LoopStep, Wake, FetchArrives, RefreshArrives, FinishArrives, Arrived, At,
     Loops
<1>15. ASSUME NEW u \in Tasks, LoadArrives(u) \/ SendArrives(u) \/ ListArrives(u)
       PROVE  task'[t].pc \notin Loops \ {"waiting"}
  <2>1. CASE LoadArrives(u)
    BY <1>1, <1>3, <1>6, <2>1 DEF LoadArrives
  <2>2. CASE SendArrives(u)
    <3>1. CASE Accepted(u)
      BY <1>6, <3>1 DEF Accepted
    <3>2. CASE NotAccepted(u, task[u].body.run)
      BY <1>1, <1>4, <1>5, <3>2 DEF NotAccepted
    <3>3. CASE task' = [task EXCEPT ![u] = Done]
      BY <1>1, <1>3, <3>3
    <3>. QED
      BY <2>2, <3>1, <3>2, <3>3 DEF SendArrives
  <2>3. CASE ListArrives(u)
    BY <1>1, <1>2, <2>3 DEF ListArrives
  <2>. QED
    BY <1>15, <2>1, <2>2, <2>3
<1>16. ASSUME NEW u \in Tasks, Lose(u) PROVE task'[t].pc \notin Loops \ {"waiting"}
  <2>1. CASE LoseInLoop(u)
    BY <1>13, <2>1 DEF LoopStep, LoseInLoop, At, Loops
  <2>2. CASE LoseOther(u)
    BY <1>1, <1>2, <1>4, <1>5, <2>2 DEF LoseOther, NotAccepted
  <2>. QED
    BY <1>16, <2>1, <2>2 DEF Lose
<1>17. CASE \/ \E r \in Runs : RunEnds(r)
            \/ Rest
  BY <1>17 DEF RunEnds, Rest, vars
<1>. QED
  BY <1>8, <1>9, <1>10, <1>11, <1>12, <1>14, <1>15, <1>16, <1>17 DEF Next, Arrives

\* Only the server tells a loop a Receipt.
LEMMA OwnNotTold ==
  ASSUME SessionAssumption, SessionInv, NEW t \in Tasks,
         ServeSend(t) \/ Wake(t) \/ Arrives(t) \/ Lose(t)
  PROVE  ~Told(t)'
<1>1. CASE task[t].pc \notin Loops
  <2>1. Next
    BY DEF Next
  <2>2. task'[t].pc \notin Loops \ {"waiting"}
    BY <1>1, <2>1, LoopsStartWaiting
  <2>. QED
    BY <2>2 DEF Told, Loops
<1>2. CASE task[t].pc \in Loops
  <2>1. LoopLeft(t) => ~Told(t)'
    BY DEF LoopLeft, Told
  <2>2. CASE Wake(t)
    <3>. DEFINE y == task[t]
                x == Task("fetching", y.agent, y.run, y.epoch, y.errors, y.body)
    <3>1. CASE Quiet(t)
      BY <1>2, <2>1, <3>1, QuietLeaves
    <3>2. CASE task' = [task EXCEPT ![t] = [@ EXCEPT !.pc = "fetching"]]
      <4>1. [y EXCEPT !.pc = "fetching"] = x
        BY InTask, Fields
      <4>2. task' = [task EXCEPT ![t] = x]
        BY <3>2, <4>1, Zenon
      <4>3. x.pc = "fetching"
        BY DEF Task
      <4>. HIDE DEF x
      <4>. QED
        BY <4>2, <4>3 DEF SessionInv, TasksFit, Told
    <3>. QED
      BY <2>2, <3>1, <3>2 DEF Wake
  <2>3. CASE FetchArrives(t)
    <3>. DEFINE y == task[t]
                next == IF y.run \in y.body.live THEN "refreshing" ELSE "finishing"
                x == Task(next, y.agent, y.run, y.epoch, y.errors, None)
    <3>1. CASE Quiet(t) \/ LoopError(t)
      BY <1>2, <2>1, <3>1, QuietLeaves, LoopErrorLeaves
    <3>2. CASE task' = [task EXCEPT ![t] = [@ EXCEPT !.pc = next, !.body = None]]
      <4>1. [y EXCEPT !.pc = next, !.body = None] = x
        BY InTask, Fields
      <4>2. task' = [task EXCEPT ![t] = x]
        BY <3>2, <4>1, Zenon
      <4>3. x.body = None
        BY DEF Task
      <4>. HIDE DEF x
      <4>. QED
        BY <4>2, <4>3 DEF SessionInv, TasksFit, Told
    <3>. QED
      BY <2>3, <3>1, <3>2 DEF FetchArrives
  <2>4. CASE RefreshArrives(t) \/ FinishArrives(t) \/ LoseInLoop(t)
    BY <1>2, <2>1, <2>4, QuietLeaves, LoopLeaves, LoopErrorLeaves
       DEF RefreshArrives, FinishArrives, LoseInLoop
  <2>5. ~ServeSend(t) /\ ~LoadArrives(t) /\ ~SendArrives(t) /\ ~ListArrives(t) /\ ~LoseOther(t)
    BY <1>2 DEF ServeSend, LoadArrives, SendArrives, ListArrives, LoseOther, Arrived, At, Loops
  <2>. QED
    BY <2>2, <2>3, <2>4, <2>5 DEF Arrives, Lose
<1>. QED
  BY <1>1, <1>2

\* A task is told nothing but by a step in which the server serves it.
LEMMA ToldByServer ==
  ASSUME SessionAssumption, SessionInv, NEW t \in Tasks, Told(t)',
         \/ \E a \in Agents : Select(a)
         \/ \E p \in Principals : SwitchSession(p)
         \/ \E u \in Tasks : Send(u) \/ Retry(u)
         \/ \E u \in Tasks : ServeSend(u) \/ Wake(u) \/ Arrives(u) \/ Lose(u)
         \/ \E u \in Tasks : u # t /\ Serve(u)
         \/ \E r \in Runs : RunEnds(r)
         \/ Render \/ Effect \/ Rest
         \/ UNCHANGED task
  PROVE  task'[t] = task[t]
<1>1. CASE \/ \E a \in Agents : Select(a)
           \/ \E p \in Principals : SwitchSession(p)
           \/ \E u \in Tasks : Send(u) \/ Retry(u)
           \/ Render \/ Effect
  <2>1. task[t].pc \in Loops
    <3>1. Next
      BY <1>1 DEF Next
    <3>. QED
      BY <3>1, LoopsStartWaiting DEF Told, Loops
  <2>. QED
    BY <1>1, <2>1, UserLeavesLoops
<1>2. CASE \E u \in Tasks : ServeSend(u) \/ Wake(u) \/ Arrives(u) \/ Lose(u)
  BY <1>2, OwnNotTold, OthersLeft
<1>3. CASE \E u \in Tasks : u # t /\ Serve(u)
  BY <1>3, OthersLeft
<1>4. CASE (\E r \in Runs : RunEnds(r)) \/ Rest \/ UNCHANGED task
  BY <1>4 DEF RunEnds, Rest, vars
<1>. QED
  BY <1>1, <1>2, <1>3, <1>4

-----------------------------------------------------------------------------
(* What is shown is of this page, and never goes back *)

\* What a page may still take, in any step that leaves the Receipts of the server alone.
LEMMA OrderedStays ==
  ASSUME EvidenceTypeOK, Ordered, version' = version,
         \/ receipt' \in {receipt, None}
         \/ \E r \in Runs, v \in Versions :
              /\ receipt' = ReceiptOf(r, v) /\ v <= version[r] /\ asked' = asked
              /\ \A t \in Tasks : Told(t)' => asked # OfLoop(t)'
              /\ \A p \in Proofs : proof'[p].pc = "served" => asked # Ticket(p[1], p[2], FALSE),
         \A t \in Tasks : Told(t)' =>
           /\ task'[t].run = task[t].run /\ task[t].run \in Runs
           /\ \/ Told(t) /\ seen'[t] = seen[t] /\ (asked' = OfLoop(t) => asked' = asked)
              \/ seen'[t] = version[task[t].run],
         \A p \in Proofs : proof'[p].pc = "served" =>
           \/ /\ proof'[p] = proof[p]
              /\ asked' = Ticket(p[1], p[2], FALSE) => asked' = asked
           \/ proof'[p].version = version[p[1]]
  PROVE  Ordered'
<1>1. /\ version \in [Runs -> Nat]
      /\ receipt # None => receipt \in [run : Runs, version : Nat]
      /\ \A r \in Runs : version[r] \in Nat
      /\ \A t \in Tasks : seen[t] \in Nat
      /\ \A p \in Proofs : proof[p].version \in Nat /\ p[1] \in Runs
  BY DEF EvidenceTypeOK, Versions, Receipts, Proofs
<1>2. receipt' # None => receipt'.run \in Runs /\ receipt'.version \in Nat
                         /\ receipt'.version <= version[receipt'.run]
  <2>1. CASE receipt' \in {receipt, None}
    BY <1>1, <2>1 DEF Ordered
  <2>2. ASSUME NEW r \in Runs, NEW v \in Versions, receipt' = ReceiptOf(r, v), v <= version[r]
        PROVE  receipt' # None => receipt'.run \in Runs /\ receipt'.version \in Nat
                                  /\ receipt'.version <= version[receipt'.run]
    <3>1. receipt' # None => receipt' = [run |-> r, version |-> v]
      BY <2>2 DEF ReceiptOf
    <3>. QED
      BY <2>2, <3>1 DEF Versions
  <2>. QED
    BY <2>1, <2>2
<1>3. ASSUME NEW t \in Tasks, Told(t)'
      PROVE  /\ seen'[t] <= version[task'[t].run]
             /\ asked' = OfLoop(t)' /\ receipt' # None /\ receipt'.run = task'[t].run =>
                  receipt'.version <= seen'[t]
  <2>1. OfLoop(t)' = OfLoop(t) /\ task'[t].run = task[t].run
    BY <1>3 DEF OfLoop
  <2>2. CASE seen'[t] = version[task[t].run]
    BY <1>1, <1>2, <1>3, <2>1, <2>2
  <2>3. CASE Told(t) /\ seen'[t] = seen[t] /\ (asked' = OfLoop(t) => asked' = asked)
    <3>1. seen'[t] <= version[task'[t].run]
      BY <2>1, <2>3 DEF Ordered
    <3>2. asked' = OfLoop(t)' => receipt' \in {receipt, None}
      BY <1>3, <2>1, <2>3
    <3>3. asked = OfLoop(t) /\ receipt # None /\ receipt.run = task[t].run =>
            receipt.version <= seen[t]
      BY <2>3 DEF Ordered
    <3>. QED
      BY <2>1, <2>3, <3>1, <3>2, <3>3
  <2>. QED
    BY <1>3, <2>2, <2>3
<1>4. ASSUME NEW p \in Proofs, proof'[p].pc = "served"
      PROVE  /\ proof'[p].version <= version[p[1]]
             /\ asked' = Ticket(p[1], p[2], FALSE) /\ receipt' # None /\ receipt'.run = p[1] =>
                  receipt'.version <= proof'[p].version
  <2>1. CASE proof'[p].version = version[p[1]]
    <3>1. p[1] \in Runs /\ version[p[1]] \in Nat
      BY <1>1
    <3>2. version[p[1]] <= version[p[1]]
      BY <3>1
    <3>3. receipt' # None /\ receipt'.run = p[1] => receipt'.version <= version[p[1]]
      BY <1>2
    <3>. QED
      BY <2>1, <3>2, <3>3
  <2>2. CASE /\ proof'[p] = proof[p]
             /\ asked' = Ticket(p[1], p[2], FALSE) => asked' = asked
    <3>1. proof'[p].version <= version[p[1]]
      BY <1>4, <2>2 DEF Ordered
    <3>2. asked' = Ticket(p[1], p[2], FALSE) => receipt' \in {receipt, None}
      BY <1>4, <2>2
    <3>3. asked = Ticket(p[1], p[2], FALSE) /\ receipt # None /\ receipt.run = p[1] =>
            receipt.version <= proof[p].version
      BY <1>4, <2>2 DEF Ordered
    <3>. QED
      BY <2>2, <3>1, <3>2, <3>3
  <2>. QED
    BY <1>4, <2>1, <2>2
<1>. QED
  BY <1>2, <1>3, <1>4 DEF Ordered, Told, OfLoop

\* Of one Run the Receipt that is shown is not replaced by an older one.
Forward ==
  receipt # None /\ receipt' # None /\ receipt.run = receipt'.run =>
    receipt'.version >= receipt.version

LEMMA SameForward ==
  ASSUME EvidenceTypeOK, receipt' \in {receipt, None} PROVE Forward
BY DEF EvidenceTypeOK, Receipts, Versions, Forward

\* A loop that has been told is a loop.
LEMMA ToldLoop ==
  ASSUME SessionAssumption, SessionInv, NEW t \in Tasks, Told(t)
  PROVE  task[t].pc \in Loops /\ task[t].run \in Runs
BY InLoop DEF Told, Loops

\* Who asks is somebody.
LEMMA TicketsAreSome ==
  ASSUME EvidenceAssumption, NEW r \in Runs, NEW t \in Tasks, NEW b \in BOOLEAN
  PROVE  Ticket(r, t, b) # None /\ Ticket(r, t, b) \in Tickets
BY DEF Ticket, Tickets, EvidenceAssumption

LEMMA ProofParts ==
  ASSUME NEW p \in Proofs
  PROVE  p[1] \in Runs /\ p[2] \in Tasks
BY DEF Proofs

\* Steps that bring no evidence.
LEMMA NoNewEvidence ==
  ASSUME SessionAssumption, EvidenceAssumption, SessionInv, EvidenceInv,
         UNCHANGED <<version, seen, proof>>,
         receipt' \in {receipt, None}, asked' \in {asked, None},
         \A t \in Tasks : Told(t)' => task'[t] = task[t]
  PROVE  Ordered' /\ Forward
<1>1. Forward
  BY SameForward DEF EvidenceInv
<1>2. ASSUME NEW t \in Tasks, Told(t)'
      PROVE  /\ task'[t].run = task[t].run /\ task[t].run \in Runs /\ Told(t)
             /\ seen'[t] = seen[t] /\ (asked' = OfLoop(t) => asked' = asked)
  <2>1. task'[t] = task[t] /\ Told(t)
    BY <1>2 DEF Told
  <2>2. OfLoop(t) # None
    BY <2>1, ToldLoop, TicketsAreSome DEF OfLoop
  <2>. QED
    BY <2>1, <2>2, ToldLoop
<1>3. ASSUME NEW p \in Proofs
      PROVE  proof'[p] = proof[p] /\ (asked' = Ticket(p[1], p[2], FALSE) => asked' = asked)
  BY ProofParts, TicketsAreSome
<1>. QED
  BY <1>1, <1>2, <1>3, OrderedStays DEF EvidenceInv

LEMMA NewPageKeeps ==
  ASSUME SessionAssumption, EvidenceAssumption, SessionInv, EvidenceInv, NewPage
  PROVE  EvidenceInv' /\ Forward
<1>1. /\ receipt' = None /\ denied' = None /\ context' = None /\ asked' = None
      /\ version' = version /\ seen' = seen /\ proof' = proof
  BY DEF NewPage, Clear
<1>2. \A t \in Tasks : Told(t)' => task'[t] = task[t]
  <2>1. Sends \subseteq Tasks
    BY DEF Tasks
  <2>2. \/ \E a \in Agents : Select(a)
        \/ \E p \in Principals : SwitchSession(p)
        \/ \E t \in Tasks : Send(t)
        \/ Effect
    BY <2>1 DEF NewPage
  <2>. QED
    BY <2>2, ToldByServer
<1>3. Ordered' /\ Forward
  BY <1>1, <1>2, NoNewEvidence
<1>4. EvidenceTypeOK' /\ EvidencePage'
  BY <1>1 DEF EvidenceInv, EvidenceTypeOK, EvidencePage
<1>. QED
  BY <1>3, <1>4 DEF EvidenceInv

LEMMA SamePageKeeps ==
  ASSUME SessionAssumption, EvidenceAssumption, SessionInv, EvidenceInv, SamePage
  PROVE  EvidenceInv' /\ Forward
<1>1. /\ receipt' = receipt /\ denied' = denied /\ context' = context /\ asked' = asked
      /\ version' = version /\ seen' = seen /\ proof' = proof
  BY DEF SamePage, KeepEvidence, evidence, shown, requests
<1>2. \A t \in Tasks : Told(t)' => task'[t] = task[t]
  <2>1. \/ \E a \in Agents : Select(a)
        \/ \E u \in Tasks : Retry(u)
        \/ \E u \in Tasks : ServeSend(u) \/ Wake(u) \/ Arrives(u)
        \/ \E r \in Runs : RunEnds(r)
        \/ Render \/ Rest
    BY DEF SamePage, Judge, Arrives
  <2>. QED
    BY <2>1, ToldByServer
<1>3. Ordered' /\ Forward
  BY <1>1, <1>2, NoNewEvidence
<1>4. {ref, effectFor} \subseteq {ref', effectFor'}
  <2>1. ASSUME NEW a \in Agents, Select(a), effectFor = effectFor'
        PROVE  {ref, effectFor} \subseteq {ref', effectFor'}
    BY <2>1 DEF Select, EffectOn, Ready
  <2>2. CASE Render
    BY <2>2 DEF Render
  <2>3. CASE ~(\E a \in Agents : Select(a) /\ effectFor = effectFor') /\ ~Render
    BY <2>3 DEF SamePage, Retry, Judge, ServeSend, Wake, ListArrives, RunEnds, Rest, vars, view
  <2>. QED
    BY <2>1, <2>2, <2>3
<1>5. EvidenceTypeOK' /\ EvidencePage'
  BY <1>1, <1>4 DEF EvidenceInv, EvidenceTypeOK, EvidencePage
<1>. QED
  BY <1>3, <1>5 DEF EvidenceInv

\* A step of one task that is not served is told nothing, nor is any other.
LEMMA PageStepTells ==
  ASSUME SessionAssumption, SessionInv, NEW t \in Tasks, Arrives(t) \/ Lose(t)
  PROVE  ~Told(t)' /\ \A u \in Tasks : Told(u)' => task'[u] = task[u]
BY OwnNotTold, ToldByServer

LEMMA ServeReadKeeps ==
  ASSUME SessionAssumption, EvidenceAssumption, SessionInv, EvidenceInv, NEW t \in Tasks,
         ServeRead(t)
  PROVE  EvidenceInv' /\ Forward
<1>1. /\ receipt' = receipt /\ denied' = denied /\ context' = context /\ asked' = asked
      /\ version' = version /\ proof' = proof
      /\ seen' = IF task[t].run = None THEN seen ELSE [seen EXCEPT ![t] = version[task[t].run]]
      /\ ref' = ref /\ effectFor' = effectFor /\ Serve(t)
  BY DEF ServeRead, Serve, shown, view
<1>2. task[t].run \in Runs \cup {None}
  BY InTask DEF TaskRecs
<1>3. seen' \in [Tasks -> Versions] /\ \A u \in Tasks : u # t => seen'[u] = seen[u]
  BY <1>1, <1>2 DEF EvidenceInv, EvidenceTypeOK
<1>4. ASSUME NEW u \in Tasks, Told(u)'
      PROVE  /\ task'[u].run = task[u].run /\ task[u].run \in Runs
             /\ \/ Told(u) /\ seen'[u] = seen[u] /\ (asked' = OfLoop(u) => asked' = asked)
                \/ seen'[u] = version[task[u].run]
  <2>1. CASE u # t
    <3>1. task'[u] = task[u]
      BY <1>1, <1>4, <2>1, ToldByServer
    <3>2. Told(u)
      BY <1>4, <3>1 DEF Told
    <3>. QED
      BY <1>1, <1>3, <2>1, <3>1, <3>2, ToldLoop
  <2>2. CASE u = t
    <3>1. \E b : Served(t, b)
      BY <1>1 DEF Serve
    <3>2. task'[t].pc = task[t].pc /\ task'[t].run = task[t].run
      BY <3>1, ServedTask
    <3>3. task[t].pc \in Loops
      BY <1>4, <2>2, <3>2 DEF Told, Loops
    <3>4. task[t].run \in Runs
      BY <3>3, InLoop
    <3>5. seen'[t] = version[task[t].run]
      BY <1>1, <3>4 DEF SessionAssumption, EvidenceInv, EvidenceTypeOK
    <3>. QED
      BY <2>2, <3>2, <3>4, <3>5
  <2>. QED
    BY <2>1, <2>2
<1>5. Ordered'
  BY <1>1, <1>4, OrderedStays DEF EvidenceInv
<1>6. EvidenceTypeOK' /\ EvidencePage' /\ Forward
  BY <1>1, <1>3, SameForward DEF EvidenceInv, EvidenceTypeOK, EvidencePage
<1>. QED
  BY <1>5, <1>6 DEF EvidenceInv

\* A request that nobody awaits is made, for a Run of the Agent that is rendered.
LEMMA AskKeeps ==
  ASSUME SessionAssumption, EvidenceAssumption, SessionInv, EvidenceInv, NEW t \in Tasks,
         NEW r \in Runs, AgentOf[r] = ref, Ask(<<r, t>>),
         UNCHANGED <<version, receipt>>, denied' \in Runs \cup {None}, context' \in Runs \cup {None},
         \A s \in {denied', context'} \ {None} : s \in {denied, context} \/ AgentOf[s] = ref,
         UNCHANGED view,
         \A u \in Tasks : Told(u)' => task'[u] = task[u]
  PROVE  EvidenceInv' /\ Forward
<1>. DEFINE p == <<r, t>>
            new == [pc |-> "out", epoch |-> epoch, version |-> 0]
<1>1. /\ proof' = [proof EXCEPT ![p] = new] /\ asked' = Ticket(r, t, FALSE) /\ seen' = seen
      /\ version' = version /\ receipt' = receipt /\ ref' = ref /\ effectFor' = effectFor
  BY DEF Ask, view
<1>2. new \in [pc : {"idle", "out", "served"}, epoch : 0..MaxSwitches, version : Versions]
  BY DEF SessionInv, Page, Versions
<1>. HIDE DEF new
<1>3. /\ proof' \in [Proofs -> [pc : {"idle", "out", "served"}, epoch : 0..MaxSwitches,
                                version : Versions]]
      /\ \A q \in Proofs : q # p => proof'[q] = proof[q]
      /\ p \in Proofs => proof'[p] = new
  BY <1>1, <1>2 DEF EvidenceInv, EvidenceTypeOK
<1>4. new.pc = "out"
  BY DEF new
<1>5. ASSUME NEW q \in Proofs, proof'[q].pc = "served"
      PROVE  proof'[q] = proof[q] /\ (asked' = Ticket(q[1], q[2], FALSE) => asked' = asked)
  <2>1. q # p
    BY <1>3, <1>4, <1>5
  <2>2. Ticket(q[1], q[2], FALSE) # Ticket(r, t, FALSE)
    BY <2>1 DEF Ticket, Proofs
  <2>. QED
    BY <1>1, <1>3, <2>1, <2>2
<1>6. ASSUME NEW u \in Tasks, Told(u)'
      PROVE  /\ task'[u].run = task[u].run /\ task[u].run \in Runs /\ Told(u)
             /\ seen'[u] = seen[u] /\ (asked' = OfLoop(u) => asked' = asked)
  <2>1. task'[u] = task[u] /\ Told(u)
    BY <1>6 DEF Told
  <2>2. OfLoop(u) # Ticket(r, t, FALSE)
    BY DEF OfLoop, Ticket
  <2>. QED
    BY <1>1, <2>1, <2>2, ToldLoop
<1>7. Ordered'
  BY <1>1, <1>5, <1>6, OrderedStays DEF EvidenceInv
<1>8. EvidenceTypeOK' /\ EvidencePage' /\ Forward
  <2>1. asked' \in Tickets /\ asked'.run = r
    BY <1>1, TicketsAreSome DEF Ticket
  <2>. QED
    BY <1>1, <1>3, <2>1, SameForward DEF EvidenceInv, EvidenceTypeOK, EvidencePage
<1>. QED
  BY <1>7, <1>8 DEF EvidenceInv

\* An answer is taken, or is too late to be.
LEMMA AnsweredKeeps ==
  ASSUME SessionAssumption, EvidenceAssumption, SessionInv, EvidenceInv, NEW t \in Tasks,
         NEW r \in Runs, NEW b \in BOOLEAN, NEW e, NEW v \in Versions,
         Answered(Ticket(r, t, b), e, v), v <= version[r],
         asked = Ticket(r, t, b) /\ receipt # None /\ receipt.run = r => receipt.version <= v,
         UNCHANGED <<version, seen, asked, view>>,
         proof' \in [Proofs -> [pc : {"idle", "out", "served"}, epoch : 0..MaxSwitches,
                                version : Versions]],
         \A q \in Proofs : proof'[q].pc = "served" =>
           proof'[q] = proof[q] /\ Ticket(r, t, b) # Ticket(q[1], q[2], FALSE),
         \A u \in Tasks : Told(u)' =>
           task'[u] = task[u] /\ Ticket(r, t, b) # Ticket(task[u].run, u, TRUE)
  PROVE  EvidenceInv' /\ Forward
<1>1. Ticket(r, t, b).run = r
  BY DEF Ticket
<1>2. ASSUME NEW u \in Tasks, Told(u)'
      PROVE  /\ task'[u].run = task[u].run /\ task[u].run \in Runs /\ Told(u)
             /\ seen'[u] = seen[u] /\ asked' = asked
             /\ OfLoop(u)' = Ticket(task[u].run, u, TRUE)
  BY <1>2, ToldLoop DEF Told, OfLoop
<1>3. CASE Wanted(Ticket(r, t, b), e)
  <2>1. /\ asked = Ticket(r, t, b) /\ ref = AgentOf[r] /\ receipt' = ReceiptOf(r, v)
        /\ context' \in {context, r} /\ denied' = denied
    BY <1>1, <1>3 DEF Answered, Wanted, Take
  <2>2. /\ \A u \in Tasks : Told(u)' => asked # OfLoop(u)'
        /\ \A p \in Proofs : proof'[p].pc = "served" => asked # Ticket(p[1], p[2], FALSE)
    <3>1. ASSUME NEW u \in Tasks, Told(u)' PROVE asked # OfLoop(u)'
      <4>1. OfLoop(u)' = Ticket(task[u].run, u, TRUE)
        BY <1>2, <3>1
      <4>2. Ticket(r, t, b) # Ticket(task[u].run, u, TRUE)
        BY <3>1
      <4>. QED
        BY <2>1, <4>1, <4>2
    <3>2. ASSUME NEW p \in Proofs, proof'[p].pc = "served"
          PROVE  asked # Ticket(p[1], p[2], FALSE)
      <4>1. Ticket(r, t, b) # Ticket(p[1], p[2], FALSE)
        BY <3>2
      <4>. QED
        BY <2>1, <4>1
    <3>. QED
      BY <3>1, <3>2
  <2>3. Ordered'
    BY <1>2, <2>1, <2>2, OrderedStays DEF EvidenceInv
  <2>4. receipt' # None => receipt' = [run |-> r, version |-> v]
    BY <2>1 DEF ReceiptOf
  <2>5. /\ receipt' \in Receipts \cup {None} /\ (receipt' # None => receipt'.run = r)
        /\ receipt' # None => receipt'.version = v
    BY <2>4 DEF Receipts
  <2>6. Forward
    <3>1. receipt # None => receipt.version \in Nat
      BY DEF EvidenceInv, EvidenceTypeOK, Receipts, Versions
    <3>. QED
      BY <2>1, <2>5, <3>1 DEF Forward, Versions
  <2>7. EvidenceTypeOK' /\ EvidencePage'
    <3>1. denied' \in Runs \cup {None} /\ context' \in Runs \cup {None}
      BY <2>1 DEF EvidenceInv, EvidenceTypeOK
    <3>2. /\ ref' = ref /\ effectFor' = effectFor /\ asked' = asked
          /\ version' = version /\ seen' = seen
      BY DEF view
    <3>3. \A s \in {denied', context'} \ {None} : AgentOf[s] \in {ref', effectFor'}
      BY <2>1, <3>2 DEF EvidenceInv, EvidencePage
    <3>4. EvidencePage'
      BY <2>1, <2>5, <3>2, <3>3 DEF EvidenceInv, EvidencePage
    <3>5. EvidenceTypeOK'
      BY <2>5, <3>1, <3>2 DEF EvidenceInv, EvidenceTypeOK
    <3>. QED
      BY <3>4, <3>5
  <2>. QED
    BY <2>3, <2>6, <2>7 DEF EvidenceInv
<1>4. CASE ~Wanted(Ticket(r, t, b), e)
  <2>1. receipt' = receipt /\ denied' = denied /\ context' = context
    BY <1>4 DEF Answered, shown
  <2>2. Ordered'
    BY <1>2, <2>1, OrderedStays DEF EvidenceInv
  <2>3. EvidenceTypeOK' /\ EvidencePage' /\ Forward
    BY <2>1, SameForward DEF EvidenceInv, EvidenceTypeOK, EvidencePage, view
  <2>. QED
    BY <2>2, <2>3 DEF EvidenceInv
<1>. QED
  BY <1>3, <1>4

\* A step of the page that asks for nothing.
LEMMA QuietPageKeeps ==
  ASSUME SessionAssumption, EvidenceAssumption, SessionInv, EvidenceInv, NEW t \in Tasks,
         Arrives(t) \/ Lose(t), UNCHANGED <<version, receipt, seen, proof, asked>>,
         denied' \in Runs \cup {None}, context' \in Runs \cup {None},
         \A s \in {denied', context'} \ {None} : s \in {denied, context} \/ AgentOf[s] = ref,
         UNCHANGED view
  PROVE  EvidenceInv' /\ Forward
<1>1. Ordered' /\ Forward
  BY PageStepTells, NoNewEvidence
<1>2. EvidenceTypeOK' /\ EvidencePage'
  BY DEF EvidenceInv, EvidenceTypeOK, EvidencePage, view
<1>. QED
  BY <1>1, <1>2 DEF EvidenceInv

LEMMA LoadKeeps ==
  ASSUME SessionAssumption, EvidenceAssumption, SessionInv, EvidenceInv, NEW t \in Tasks,
         Load(t)
  PROVE  EvidenceInv' /\ Forward
<1>. DEFINE r == task[t].body.run
<1>1. /\ Arrives(t) /\ UNCHANGED view /\ version' = version /\ receipt' = receipt
      /\ denied' = denied /\ context' = context
  BY DEF Load, LoadArrives, Arrives, shown
<1>2. denied' \in Runs \cup {None} /\ context' \in Runs \cup {None}
  BY <1>1 DEF EvidenceInv, EvidenceTypeOK
<1>3. CASE UNCHANGED requests
  BY <1>1, <1>2, <1>3, QuietPageKeeps DEF requests
<1>4. CASE LoadIsWanted(t) /\ r # None /\ Ask(<<r, t>>)
  <2>1. r \in Runs /\ AgentOf[r] = ref
    BY <1>4, InTask DEF Load, LoadArrives, Arrived, At, Fits, LoadIsWanted, Answers
  <2>2. \A s \in {denied', context'} \ {None} : s \in {denied, context}
    BY <1>1
  <2>3. \A u \in Tasks : Told(u)' => task'[u] = task[u]
    BY <1>1, PageStepTells
  <2>. HIDE DEF r
  <2>. QED
    BY <1>1, <1>2, <1>4, <2>1, <2>2, <2>3, AskKeeps
<1>. QED
  BY <1>3, <1>4 DEF Load

\* A loop whose timer is set again, or that has ended, has no Receipt on its way.
LEMMA PlacesLeft ==
  ASSUME SessionInv, NEW t \in Tasks
  PROVE  /\ Quiet(t) => task'[t] = Over(t)
         /\ \A n : Loop(t, n) /\ ~Quiet(t) =>
              task'[t] = Task("waiting", task[t].agent, task[t].run, task[t].epoch, n, None)
         /\ Quiet(t) \/ LoopError(t) => task'[t].pc \notin {"refreshing", "finishing"}
<1>1. Quiet(t) => task'[t] = Over(t)
  BY DEF Quiet, SessionInv, TasksFit
<1>2. ASSUME NEW n, Loop(t, n), ~Quiet(t)
      PROVE  task'[t] = Task("waiting", task[t].agent, task[t].run, task[t].epoch, n, None)
  <2>1. task' = [task EXCEPT ![t] = Task("waiting", @.agent, @.run, @.epoch, n, None)]
    BY <1>2 DEF Loop
  <2>. QED
    BY <2>1 DEF SessionInv, TasksFit
<1>3. GiveUp(t) => task'[t] \in {Task("relisting", None, None, epoch, 0, None), Over(t)}
  BY DEF GiveUp, SessionInv, TasksFit
<1>4. Over(t).pc \in {"idle", "done"}
  BY DEF Over, Idle, Done, Task
<1>5. \A p, a, r, e, n, b : Task(p, a, r, e, n, b).pc = p
  BY DEF Task
<1>6. Quiet(t) \/ LoopError(t) => task'[t].pc \notin {"refreshing", "finishing"}
  <2>1. CASE Quiet(t)
    BY <1>1, <1>4, <2>1
  <2>2. CASE GiveUp(t)
    BY <1>3, <1>4, <1>5, <2>2
  <2>3. CASE LoopError(t) /\ ~GiveUp(t) /\ ~Quiet(t)
    <3>1. Loop(t, task[t].errors + 1)
      BY <2>3 DEF LoopError
    <3>2. task'[t].pc = "waiting"
      BY <1>2, <1>5, <2>3, <3>1
    <3>. QED
      BY <3>2
  <2>. QED
    BY <2>1, <2>2, <2>3
<1>. QED
  BY <1>1, <1>2, <1>6

\* A loop that has read its Run goes on to the Receipt and shows the Run, or it does not.
LEMMA FetchBranches ==
  ASSUME SessionAssumption, SessionInv, NEW t \in Tasks, FetchArrives(t)
  PROVE  LET y == task[t]
             next == IF y.run \in y.body.live THEN "refreshing" ELSE "finishing" IN
         \/ /\ Continues(t) /\ activeRun' = Shown(y.run, y.run \in y.body.live)
            /\ task'[t] = Task(next, y.agent, y.run, y.epoch, y.errors, None)
         \/ activeRun' = activeRun /\ task'[t].pc \notin {"refreshing", "finishing"}
<1>. DEFINE y == task[t]
            next == IF y.run \in y.body.live THEN "refreshing" ELSE "finishing"
            x == Task(next, y.agent, y.run, y.epoch, y.errors, None)
<1>1. CASE (Quiet(t) \/ LoopError(t)) /\ UNCHANGED activeRun
  BY <1>1, PlacesLeft
<1>2. CASE /\ Continues(t) /\ activeRun' = Shown(y.run, y.run \in y.body.live)
           /\ task' = [task EXCEPT ![t] = [@ EXCEPT !.pc = next, !.body = None]]
  <2>1. [y EXCEPT !.pc = next, !.body = None] = x
    BY InTask, Fields
  <2>2. task' = [task EXCEPT ![t] = x]
    BY <1>2, <2>1, Zenon
  <2>. HIDE DEF x
  <2>3. task'[t] = x
    BY <2>2 DEF SessionInv, TasksFit
  <2>4. task'[t] = Task(next, y.agent, y.run, y.epoch, y.errors, None)
    BY <2>3 DEF x
  <2>. QED
    BY <1>2, <2>4
<1>. QED
  BY <1>1, <1>2 DEF FetchArrives

LEMMA FetchKeeps ==
  ASSUME SessionAssumption, EvidenceAssumption, SessionInv, EvidenceInv, NEW t \in Tasks,
         Fetch(t)
  PROVE  EvidenceInv' /\ Forward
<1>1. /\ Arrives(t) /\ FetchArrives(t) /\ ref' = ref /\ effectFor' = effectFor
      /\ version' = version /\ receipt' = receipt /\ denied' = denied /\ context' = context
      /\ seen' = seen /\ proof' = proof
      /\ asked' = IF task'[t].pc \in {"refreshing", "finishing"} THEN OfLoop(t) ELSE asked
  BY DEF Fetch, FetchArrives, Arrives, shown, view
<1>2. task[t].pc \in Loops /\ task[t].run \in Runs /\ task[t].agent = AgentOf[task[t].run]
  BY <1>1, InLoop DEF FetchArrives, Arrived, At, Loops
<1>3. ~Told(t)' /\ \A u \in Tasks : Told(u)' => task'[u] = task[u]
  BY <1>1, PageStepTells
<1>4. OfLoop(t) \in Tickets /\ OfLoop(t).run = task[t].run
  BY <1>2, TicketsAreSome DEF OfLoop, Ticket
<1>5. asked' # asked => asked' = OfLoop(t) /\ AgentOf[task[t].run] = ref
  BY <1>1, <1>2, FetchBranches DEF Continues
<1>6. Ordered'
  <2>1. ASSUME NEW u \in Tasks, Told(u)'
        PROVE  /\ task'[u].run = task[u].run /\ task[u].run \in Runs /\ Told(u)
               /\ seen'[u] = seen[u] /\ (asked' = OfLoop(u) => asked' = asked)
    <3>1. u # t /\ task'[u] = task[u] /\ Told(u)
      BY <1>3, <2>1 DEF Told
    <3>2. OfLoop(u) # OfLoop(t)
      BY <3>1 DEF OfLoop, Ticket
    <3>. QED
      BY <1>1, <1>5, <3>1, <3>2, ToldLoop
  <2>2. ASSUME NEW p \in Proofs
        PROVE  proof'[p] = proof[p] /\ (asked' = Ticket(p[1], p[2], FALSE) => asked' = asked)
    <3>1. OfLoop(t) # Ticket(p[1], p[2], FALSE)
      BY DEF OfLoop, Ticket
    <3>. QED
      BY <1>1, <1>5, <3>1
  <2>. QED
    BY <1>1, <2>1, <2>2, OrderedStays DEF EvidenceInv
<1>7. EvidenceTypeOK' /\ EvidencePage' /\ Forward
  BY <1>1, <1>4, <1>5, SameForward DEF EvidenceInv, EvidenceTypeOK, EvidencePage
<1>. QED
  BY <1>6, <1>7 DEF EvidenceInv

LEMMA RefreshKeeps ==
  ASSUME SessionAssumption, EvidenceAssumption, SessionInv, EvidenceInv, NEW t \in Tasks,
         RefreshArrives(t) \/ FinishArrives(t) \/ (Lose(t) /\ Arrived(t, "finishing")),
         Answered(OfLoop(t), task[t].epoch, seen[t]), UNCHANGED <<version, requests>>
  PROVE  EvidenceInv' /\ Forward
<1>1. /\ version' = version /\ seen' = seen /\ proof' = proof /\ asked' = asked
      /\ Arrives(t) \/ Lose(t)
      /\ UNCHANGED view
  BY DEF requests, Arrives, RefreshArrives, FinishArrives, Lose
<1>2. Told(t) /\ task[t].run \in Runs
  BY ToldLoop DEF Told, RefreshArrives, FinishArrives, Arrived, At
<1>3. seen[t] \in Versions /\ seen[t] <= version[task[t].run]
  BY <1>2 DEF EvidenceInv, EvidenceTypeOK, Ordered
<1>4. asked = OfLoop(t) /\ receipt # None /\ receipt.run = task[t].run =>
        receipt.version <= seen[t]
  BY <1>2 DEF EvidenceInv, Ordered
<1>5. \A q \in Proofs : OfLoop(t) # Ticket(q[1], q[2], FALSE)
  BY DEF OfLoop, Ticket
<1>6. \A u \in Tasks : Told(u)' => task'[u] = task[u] /\ OfLoop(t) # Ticket(task[u].run, u, TRUE)
  <2>1. ~Told(t)' /\ \A u \in Tasks : Told(u)' => task'[u] = task[u]
    BY <1>1, PageStepTells
  <2>2. ASSUME NEW u \in Tasks, u # t PROVE OfLoop(t) # Ticket(task[u].run, u, TRUE)
    BY <2>2 DEF OfLoop, Ticket
  <2>. QED
    BY <2>1, <2>2
<1>7. proof' \in [Proofs -> [pc : {"idle", "out", "served"}, epoch : 0..MaxSwitches,
                             version : Versions]]
  BY <1>1 DEF EvidenceInv, EvidenceTypeOK
<1>. DEFINE r == task[t].run
            v == seen[t]
            e == task[t].epoch
<1>8. OfLoop(t) = Ticket(r, t, TRUE)
  BY DEF OfLoop
<1>9. /\ r \in Runs /\ v \in Versions /\ v <= version[r] /\ TRUE \in BOOLEAN
      /\ Answered(Ticket(r, t, TRUE), e, v)
      /\ asked = Ticket(r, t, TRUE) /\ receipt # None /\ receipt.run = r =>
           receipt.version <= v
      /\ \A q \in Proofs : proof'[q].pc = "served" =>
           proof'[q] = proof[q] /\ Ticket(r, t, TRUE) # Ticket(q[1], q[2], FALSE)
      /\ \A u \in Tasks : Told(u)' =>
           task'[u] = task[u] /\ Ticket(r, t, TRUE) # Ticket(task[u].run, u, TRUE)
  BY <1>1, <1>2, <1>3, <1>4, <1>5, <1>6, <1>8
<1>10. UNCHANGED <<version, seen, asked, view>>
  BY <1>1
<1>. HIDE DEF r, v, e
<1>. QED
  BY <1>7, <1>9, <1>10, AnsweredKeeps

LEMMA SentKeeps ==
  ASSUME SessionAssumption, EvidenceAssumption, SessionInv, EvidenceInv, NEW t \in Tasks,
         Sent(t)
  PROVE  EvidenceInv' /\ Forward
<1>. DEFINE r == task[t].run
<1>1. /\ Arrives(t) /\ UNCHANGED view /\ version' = version /\ receipt' = receipt
      /\ At(t, "sending")
  BY DEF Sent, SendArrives, Arrives, Arrived
<1>2. r \in Runs /\ task[t].agent = AgentOf[r]
  BY <1>1, InTask DEF At, Fits, TaskRecs
<1>3. /\ denied' \in Runs \cup {None} /\ context' \in Runs \cup {None}
      /\ \A s \in {denied', context'} \ {None} : s \in {denied, context} \/ AgentOf[s] = ref
  BY <1>2 DEF Sent, ContextOf, EvidenceInv, EvidenceTypeOK
<1>4. \A u \in Tasks : Told(u)' => task'[u] = task[u]
  BY <1>1, PageStepTells
<1>5. CASE UNCHANGED requests
  BY <1>1, <1>3, <1>5, QuietPageKeeps DEF requests
<1>6. CASE ref = task[t].agent /\ Ask(<<r, t>>)
  <2>1. AgentOf[r] = ref
    BY <1>2, <1>6
  <2>. HIDE DEF r
  <2>. QED
    BY <1>1, <1>2, <1>3, <1>4, <1>6, <2>1, AskKeeps
<1>. QED
  BY <1>5, <1>6 DEF Sent

LEMMA LoseRequestKeeps ==
  ASSUME SessionAssumption, EvidenceAssumption, SessionInv, EvidenceInv, NEW t \in Tasks,
         LoseRequest(t)
  PROVE  EvidenceInv' /\ Forward
<1>1. Lose(t) /\ UNCHANGED <<version, requests>> /\ UNCHANGED view
  BY DEF LoseRequest, Lose
<1>2. CASE Arrived(t, "finishing") /\ Answered(OfLoop(t), task[t].epoch, seen[t])
  BY <1>1, <1>2, RefreshKeeps
<1>3. CASE receipt' = receipt /\ denied' = denied /\ context' \in {context, None}
  <2>1. /\ denied' \in Runs \cup {None} /\ context' \in Runs \cup {None}
        /\ \A s \in {denied', context'} \ {None} : s \in {denied, context}
    BY <1>3 DEF EvidenceInv, EvidenceTypeOK
  <2>. QED
    BY <1>1, <1>3, <2>1, QuietPageKeeps DEF requests
<1>. QED
  BY <1>2, <1>3 DEF LoseRequest, shown

\* The server serves a request that nobody awaits, or it fails.
LEMMA ProofTouched ==
  ASSUME EvidenceAssumption, EvidenceInv, NEW p \in Proofs, NEW new,
         proof' = [proof EXCEPT ![p] = new], UNCHANGED <<version, shown, seen, asked, view, task>>,
         new \in [pc : {"idle", "out", "served"}, epoch : 0..MaxSwitches, version : Versions],
         new.pc = "served" => new.version = version[p[1]],
         SessionAssumption, SessionInv
  PROVE  EvidenceInv' /\ Forward
<1>1. /\ proof' \in [Proofs -> [pc : {"idle", "out", "served"}, epoch : 0..MaxSwitches,
                                version : Versions]]
      /\ \A q \in Proofs : q # p => proof'[q] = proof[q]
      /\ proof'[p] = new
  BY DEF EvidenceInv, EvidenceTypeOK
<1>2. /\ version' = version /\ receipt' = receipt /\ seen' = seen /\ asked' = asked
      /\ task' = task /\ denied' = denied /\ context' = context
      /\ ref' = ref /\ effectFor' = effectFor
  BY DEF shown, view
<1>3. \A u \in Tasks : Told(u)' => task[u].run \in Runs /\ Told(u)
  BY <1>2, ToldLoop DEF Told
<1>4. \A q \in Proofs : proof'[q].pc = "served" =>
        proof'[q] = proof[q] \/ proof'[q].version = version[q[1]]
  BY <1>1
<1>5. Ordered'
  BY <1>2, <1>3, <1>4, OrderedStays DEF EvidenceInv
<1>6. EvidenceTypeOK' /\ EvidencePage' /\ Forward
  BY <1>1, <1>2, SameForward DEF EvidenceInv, EvidenceTypeOK, EvidencePage
<1>. QED
  BY <1>5, <1>6 DEF EvidenceInv

LEMMA ProofStepKeeps ==
  ASSUME SessionAssumption, EvidenceAssumption, SessionInv, EvidenceInv, NEW p \in Proofs,
         ProofStep(p)
  PROVE  EvidenceInv' /\ Forward
<1>1. p[1] \in Runs /\ p[2] \in Tasks /\ p = <<p[1], p[2]>>
  BY DEF Proofs
<1>2. /\ proof[p] \in [pc : {"idle", "out", "served"}, epoch : 0..MaxSwitches, version : Versions]
      /\ proof \in [Proofs -> [pc : {"idle", "out", "served"}, epoch : 0..MaxSwitches,
                               version : Versions]]
      /\ version[p[1]] \in Versions
  BY <1>1 DEF EvidenceInv, EvidenceTypeOK
<1>3. /\ NoProof \in [pc : {"idle", "out", "served"}, epoch : 0..MaxSwitches, version : Versions]
      /\ NoProof.pc = "idle"
  BY DEF NoProof, Versions, SessionAssumption
<1>4. CASE ServeProof(p)
  <2>. DEFINE new == [pc |-> "served", epoch |-> proof[p].epoch, version |-> version[p[1]]]
  <2>1. proof' = [proof EXCEPT ![p] = new]
    <3>. DEFINE mid == [pc |-> "served", epoch |-> proof[p].epoch, version |-> proof[p].version]
    <3>1. [proof[p] EXCEPT !.pc = "served"] = mid
      BY <1>2
    <3>2. [proof EXCEPT ![p].pc = "served"] = [proof EXCEPT ![p] = mid]
      BY <3>1, Zenon
    <3>3. [mid EXCEPT !.version = version[p[1]]] = new
      OBVIOUS
    <3>4. proof' = [[proof EXCEPT ![p].pc = "served"] EXCEPT ![p].version = version[p[1]]]
      BY <1>4 DEF ServeProof
    <3>. HIDE DEF mid, new
    <3>5. [proof EXCEPT ![p] = mid][p] = mid
      BY <1>2
    <3>6. [[proof EXCEPT ![p] = mid] EXCEPT ![p].version = version[p[1]]] =
            [[proof EXCEPT ![p] = mid] EXCEPT ![p] = new]
      BY <3>3, <3>5, Zenon
    <3>7. [[proof EXCEPT ![p] = mid] EXCEPT ![p] = new] = [proof EXCEPT ![p] = new]
      BY <1>2
    <3>. QED
      BY <3>2, <3>4, <3>6, <3>7, Zenon
  <2>2. /\ new \in [pc : {"idle", "out", "served"}, epoch : 0..MaxSwitches, version : Versions]
        /\ new.version = version[p[1]]
    BY <1>2
  <2>3. UNCHANGED <<version, shown, seen, asked, view, task>>
    BY <1>4 DEF ServeProof, vars
  <2>. HIDE DEF new
  <2>. QED
    BY <2>1, <2>2, <2>3, ProofTouched
<1>5. CASE ProofFails(p)
  BY <1>3, <1>5, ProofTouched DEF ProofFails
<1>6. CASE ProofArrives(p)
  <2>1. /\ proof' = [proof EXCEPT ![p] = NoProof] /\ proof[p].pc = "served"
        /\ Answered(Ticket(p[1], p[2], FALSE), proof[p].epoch, proof[p].version)
        /\ UNCHANGED <<version, seen, asked, view>> /\ task' = task
    BY <1>6 DEF ProofArrives, vars
  <2>2. proof[p].version \in Versions /\ proof[p].version <= version[p[1]]
    BY <1>2, <2>1 DEF EvidenceInv, Ordered
  <2>3. asked = Ticket(p[1], p[2], FALSE) /\ receipt # None /\ receipt.run = p[1] =>
          receipt.version <= proof[p].version
    BY <2>1 DEF EvidenceInv, Ordered
  <2>4. proof' \in [Proofs -> [pc : {"idle", "out", "served"}, epoch : 0..MaxSwitches,
                               version : Versions]]
    BY <1>2, <1>3, <2>1
  <2>5. ASSUME NEW q \in Proofs, proof'[q].pc = "served"
        PROVE  proof'[q] = proof[q] /\ Ticket(p[1], p[2], FALSE) # Ticket(q[1], q[2], FALSE)
    <3>1. q # p /\ proof'[q] = proof[q]
      BY <1>2, <1>3, <2>1, <2>5
    <3>2. q[1] # p[1] \/ q[2] # p[2]
      BY <3>1 DEF Proofs
    <3>. QED
      BY <3>1, <3>2 DEF Ticket
  <2>6. \A u \in Tasks : task'[u] = task[u] /\ Ticket(p[1], p[2], FALSE) # Ticket(task[u].run, u, TRUE)
    BY <2>1 DEF Ticket
  <2>. DEFINE r == p[1]
              t == p[2]
              v == proof[p].version
              e == proof[p].epoch
  <2>7. /\ r \in Runs /\ t \in Tasks /\ v \in Versions /\ v <= version[r] /\ FALSE \in BOOLEAN
        /\ Answered(Ticket(r, t, FALSE), e, v)
        /\ asked = Ticket(r, t, FALSE) /\ receipt # None /\ receipt.run = r =>
             receipt.version <= v
        /\ \A q \in Proofs : proof'[q].pc = "served" =>
             proof'[q] = proof[q] /\ Ticket(r, t, FALSE) # Ticket(q[1], q[2], FALSE)
        /\ \A u \in Tasks : Told(u)' =>
             task'[u] = task[u] /\ Ticket(r, t, FALSE) # Ticket(task[u].run, u, TRUE)
    BY <1>1, <2>1, <2>2, <2>3, <2>5, <2>6
  <2>8. UNCHANGED <<version, seen, asked, view>>
    BY <2>1
  <2>. HIDE DEF r, t, v, e
  <2>. QED
    BY <2>4, <2>7, <2>8, AnsweredKeeps
<1>. QED
  BY <1>4, <1>5, <1>6 DEF ProofStep

LEMMA ReceiptChangesKeeps ==
  ASSUME SessionAssumption, EvidenceAssumption, SessionInv, EvidenceInv, NEW r \in Runs,
         ReceiptChanges(r)
  PROVE  EvidenceInv' /\ Forward
<1>1. /\ UNCHANGED vars /\ receipt' = receipt /\ denied' = denied /\ context' = context
      /\ seen' = seen /\ proof' = proof /\ asked' = asked
      /\ version' = [version EXCEPT ![r] = @ + 1] /\ version[r] < 2
  BY DEF ReceiptChanges, shown, requests
<1>2. /\ version' \in [Runs -> Versions] /\ version \in [Runs -> Versions]
      /\ \A s \in Runs : version[s] <= version'[s]
  BY <1>1 DEF EvidenceInv, EvidenceTypeOK, Versions
<1>3. task' = task /\ ref' = ref /\ effectFor' = effectFor
  BY <1>1 DEF vars, view
<1>4. EvidenceTypeOK' /\ EvidencePage' /\ Forward
  BY <1>1, <1>2, <1>3, SameForward DEF EvidenceInv, EvidenceTypeOK, EvidencePage
<1>5. receipt' # None => receipt'.version <= version'[receipt'.run]
  <2>1. receipt # None => /\ receipt.run \in Runs /\ receipt.version \in Nat
                          /\ receipt.version <= version[receipt.run]
    BY DEF EvidenceInv, EvidenceTypeOK, Ordered, Receipts, Versions
  <2>. QED
    BY <1>1, <1>2, <2>1 DEF Versions
<1>6. ASSUME NEW u \in Tasks, Told(u)'
      PROVE  /\ seen'[u] <= version'[task'[u].run]
             /\ asked' = OfLoop(u)' /\ receipt' # None /\ receipt'.run = task'[u].run =>
                  receipt'.version <= seen'[u]
  <2>1. Told(u) /\ OfLoop(u)' = OfLoop(u) /\ task[u].run \in Runs
    BY <1>3, <1>6, ToldLoop DEF Told, OfLoop
  <2>2. seen[u] \in Nat /\ seen[u] <= version[task[u].run]
    BY <2>1 DEF EvidenceInv, EvidenceTypeOK, Ordered, Versions
  <2>3. seen[u] <= version'[task[u].run]
    BY <1>2, <2>1, <2>2 DEF Versions
  <2>. QED
    BY <1>1, <1>3, <2>1, <2>3 DEF EvidenceInv, Ordered
<1>7. ASSUME NEW q \in Proofs, proof'[q].pc = "served"
      PROVE  /\ proof'[q].version <= version'[q[1]]
             /\ asked' = Ticket(q[1], q[2], FALSE) /\ receipt' # None /\ receipt'.run = q[1] =>
                  receipt'.version <= proof'[q].version
  <2>1. q[1] \in Runs /\ proof[q].version \in Nat
    BY ProofParts DEF EvidenceInv, EvidenceTypeOK, Versions
  <2>2. proof[q].version <= version[q[1]]
    BY <1>1, <1>7 DEF EvidenceInv, Ordered
  <2>3. proof[q].version <= version'[q[1]]
    BY <1>2, <2>1, <2>2 DEF Versions
  <2>. QED
    BY <1>1, <1>7, <2>3 DEF EvidenceInv, Ordered
<1>. QED
  BY <1>4, <1>5, <1>6, <1>7 DEF EvidenceInv, Ordered

LEMMA EvidenceInitial ==
  ASSUME SessionAssumption, EvidenceAssumption, Init, EvidenceInit
  PROVE  EvidenceInv
<1>1. /\ \A t \in Tasks : ~Told(t)
      /\ \A p \in Proofs : proof[p].pc # "served"
  BY DEF Init, EvidenceInit, Told, Idle, Task, NoProof
<1>. QED
  BY <1>1 DEF SessionAssumption, EvidenceInit, EvidenceInv, EvidenceTypeOK, EvidencePage, Ordered,
     NoProof, Versions

LEMMA EvidenceInductive ==
  ASSUME SessionAssumption, EvidenceAssumption, SessionInv, EvidenceInv, [EvidenceNext]_evars
  PROVE  EvidenceInv' /\ Forward
<1>1. CASE NewPage \/ SamePage
  BY <1>1, NewPageKeeps, SamePageKeeps
<1>2. ASSUME NEW t \in Tasks, PageStep(t) PROVE EvidenceInv' /\ Forward
  <2>1. CASE Refresh(t)
    BY <2>1, RefreshKeeps DEF Refresh
  <2>2. CASE ~Refresh(t)
    BY <1>2, <2>2, ServeReadKeeps, LoadKeeps, FetchKeeps, SentKeeps, LoseRequestKeeps DEF PageStep
  <2>. QED
    BY <2>1, <2>2
<1>3. ASSUME NEW p \in Proofs, ProofStep(p) PROVE EvidenceInv' /\ Forward
  BY <1>3, ProofStepKeeps
<1>4. ASSUME NEW r \in Runs, ReceiptChanges(r) PROVE EvidenceInv' /\ Forward
  BY <1>4, ReceiptChangesKeeps
<1>5. CASE UNCHANGED evars
  <2>1. /\ version' = version /\ receipt' = receipt /\ denied' = denied /\ context' = context
        /\ seen' = seen /\ proof' = proof /\ asked' = asked /\ task' = task
        /\ ref' = ref /\ effectFor' = effectFor
    BY <1>5 DEF evars, evidence, shown, requests, vars, view
  <2>2. \A t \in Tasks : Told(t)' => task'[t] = task[t]
    BY <2>1
  <2>3. Ordered' /\ Forward
    BY <2>1, <2>2, NoNewEvidence
  <2>. QED
    BY <2>1, <2>3 DEF EvidenceInv, EvidenceTypeOK, EvidencePage
<1>. QED
  BY <1>1, <1>2, <1>3, <1>4, <1>5 DEF EvidenceNext

\* The invariant of the session and of the evidence.
THEOREM EvidenceInvCorrect == EvidenceSpec => [](SessionInv /\ KnowledgeInv /\ EvidenceInv)
<1>1. Init /\ EvidenceInit => SessionInv /\ KnowledgeInv /\ EvidenceInv
  BY SessionAssumption, EvidenceAssumption, InitSession, InitKnowledge, EvidenceInitial
<1>2. (SessionInv /\ KnowledgeInv /\ EvidenceInv) /\ [EvidenceNext]_evars
        => (SessionInv /\ KnowledgeInv /\ EvidenceInv)'
  BY SessionAssumption, EvidenceAssumption, SessionOfEvidence, EvidenceInductive
<1>. QED
  BY <1>1, <1>2, PTL DEF EvidenceSpec

\* Whatever is still on its way, the Receipt, the denial and the delegated context that a
\* rendered page shows are those of Runs of the Agent that is selected.
THEOREM EvidenceBelongsToThePage == EvidenceSpec => []EvidenceIsOfThePage
<1>1. EvidenceInv => EvidenceIsOfThePage
  BY DEF EvidenceInv, EvidencePage, EvidenceIsOfThePage
<1>. QED
  BY <1>1, EvidenceInvCorrect, PTL

\* Of one Run the page never replaces a Receipt by an older one, however the answers of the
\* server overtake one another.
THEOREM ReceiptsGoForward == EvidenceSpec => EvidenceNeverGoesBack
<1>1. SessionInv /\ EvidenceInv /\ [EvidenceNext]_evars =>
        [receipt # None /\ receipt' # None /\ receipt.run = receipt'.run =>
           receipt'.version >= receipt.version]_evars
  BY SessionAssumption, EvidenceAssumption, EvidenceInductive DEF Forward
<1>. QED
  BY <1>1, EvidenceInvCorrect, PTL DEF EvidenceSpec, EvidenceNeverGoesBack

-----------------------------------------------------------------------------
(***************************************************************************)
(* The final Receipt.  A send goes one way, and what is over stays over:   *)
(* so who asks for the Receipt of a Run that is over gets the last one.    *)
(***************************************************************************)

\* A send that has begun is not idle again, one that has been served is not unserved, and
\* it lists for its Run only once it is answered.
Onward(t, y, x) ==
  t \in Sends =>
    /\ y.pc # "idle" => x.pc # "idle"
    /\ y.pc \notin {"idle", "sending"} => x.pc # "sending"
    /\ y.pc = "sending" /\ y.body # None /\ x.pc = "sending" => x.body # None
    /\ x.pc = "relisting" /\ x.run # None =>
         y.pc = "sending" \/ (y.pc = "relisting" /\ y.run = x.run)

Advance == \A t \in Tasks : Plain(t, task'[t], lost') /\ Onward(t, task[t], task'[t])

LEMMA NothingAdvances ==
  ASSUME SessionAssumption, SessionInv, PlainTasks, task' = task, lost' \in Nat, lost' >= lost
  PROVE  Advance
<1>1. \A t \in Tasks : task[t].errors \in Nat /\ lost \in Nat
  BY InTask DEF TaskRecs, SessionInv, Page, SessionAssumption
<1>. QED
  BY <1>1 DEF PlainTasks, Advance, Plain, Onward

LEMMA WriteAdvances ==
  ASSUME SessionAssumption, SessionInv, PlainTasks, lost' \in Nat, lost' >= lost,
         NEW u \in Tasks, NEW x, Move(u, x), Plain(u, x, lost'), Onward(u, task[u], x)
  PROVE  Advance
<1>1. task'[u] = x /\ \A t \in Tasks : t # u => task'[t] = task[t]
  BY DEF SessionInv, TasksFit, Move
<1>2. \A t \in Tasks : task[t].errors \in Nat /\ lost \in Nat
  BY InTask DEF TaskRecs, SessionInv, Page, SessionAssumption
<1>3. ASSUME NEW t \in Tasks, t # u
      PROVE  Plain(t, task'[t], lost') /\ Onward(t, task[t], task'[t])
  <2>1. task'[t] = task[t] /\ Plain(t, task[t], lost)
    BY <1>1, <1>3 DEF PlainTasks
  <2>. QED
    BY <1>2, <2>1 DEF Plain, Onward
<1>. QED
  BY <1>1, <1>3 DEF Advance

\* A task that goes on is at a place that says no more of it.
LEMMA NewAdvances ==
  ASSUME SessionAssumption, SessionInv, PlainTasks, lost' \in Nat, lost' >= lost,
         NEW u \in Tasks, NEW p, NEW a, NEW r, NEW e, NEW n \in Nat, n <= lost', NEW b,
         Move(u, Task(p, a, r, e, n, b)),
         p = "listing" => r = None,
         p = "relisting" => r = None \/ (u = <<"send", r>> /\ task[u].pc = "sending"),
         u \in Sends => p # "idle" /\ (p = "sending" => task[u].pc = "idle")
  PROVE  Advance
<1>. DEFINE x == Task(p, a, r, e, n, b)
<1>1. x.pc = p /\ x.run = r /\ x.errors = n
  BY DEF Task
<1>. HIDE DEF x
<1>2. Plain(u, x, lost') /\ Onward(u, task[u], x)
  BY <1>1 DEF Plain, Onward
<1>. QED
  BY <1>2, WriteAdvances DEF x

LEMMA OverAdvances ==
  ASSUME SessionAssumption, SessionInv, PlainTasks, lost' \in Nat, lost' >= lost,
         NEW u \in Tasks, Move(u, Over(u))
  PROVE  Advance
<1>1. CASE u \in Sends
  <2>1. Move(u, Task("done", None, None, 0, 0, None))
    BY <1>1 DEF Over, Done
  <2>. QED
    BY <2>1, NewAdvances DEF SessionInv, Page
<1>2. CASE u \notin Sends
  <2>1. Move(u, Task("idle", None, None, 0, 0, None))
    BY <1>2 DEF Over, Idle
  <2>. QED
    BY <1>2, <2>1, NewAdvances DEF SessionInv, Page
<1>. QED
  BY <1>1, <1>2

LEMMA ServedAdvances ==
  ASSUME SessionAssumption, SessionInv, PlainTasks, lost' = lost,
         NEW u \in Tasks, NEW b, Served(u, b), b # None
  PROVE  Advance
<1>. DEFINE y == task[u]
            x == Task(y.pc, y.agent, y.run, y.epoch, y.errors, b)
<1>1. [y EXCEPT !.body = b] = x
  BY InTask, Fields
<1>2. Move(u, x)
  BY <1>1, Zenon DEF Served, Move
<1>3. x.pc = y.pc /\ x.run = y.run /\ x.errors = y.errors /\ x.body = b
  BY DEF Task
<1>. HIDE DEF x
<1>4. Plain(u, x, lost') /\ Onward(u, task[u], x)
  BY <1>3 DEF PlainTasks, Plain, Onward
<1>. QED
  BY <1>2, <1>4, WriteAdvances DEF SessionInv, Page

LEMMA QuietAdvances ==
  ASSUME SessionAssumption, SessionInv, PlainTasks, lost' \in Nat, lost' >= lost,
         NEW t \in Tasks, Quiet(t)
  PROVE  Advance
BY OverAdvances DEF Quiet, Move

LEMMA LoopAdvances ==
  ASSUME SessionAssumption, SessionInv, PlainTasks, lost' \in Nat, lost' >= lost,
         NEW t \in Tasks, NEW n \in Nat, n <= lost', Loop(t, n)
  PROVE  Advance
<1>1. CASE Quiet(t)
  BY <1>1, QuietAdvances
<1>2. CASE ~Quiet(t)
  <2>1. Move(t, Task("waiting", task[t].agent, task[t].run, task[t].epoch, n, None))
    BY <1>2 DEF Loop, Move
  <2>. QED
    BY <2>1, NewAdvances
<1>. QED
  BY <1>1, <1>2

\* An error that is counted is one of a request that is lost: a loop of another page leaves.
LEMMA LoopErrorAdvances ==
  ASSUME SessionAssumption, SessionInv, PlainTasks, lost' \in Nat, lost' >= lost,
         NEW t \in Tasks, LoopError(t), lost' = lost + 1 \/ ~Fresh(t)
  PROVE  Advance
<1>1. CASE GiveUp(t)
  <2>1. CASE t \in Sends
    <3>1. Move(t, Task("relisting", None, None, epoch, 0, None))
      BY <1>1, <2>1 DEF GiveUp, Move
    <3>. QED
      BY <3>1, NewAdvances DEF SessionInv, Page
  <2>2. CASE t \notin Sends
    <3>1. Move(t, Over(t))
      BY <1>1, <2>2 DEF GiveUp, Move
    <3>. QED
      BY <3>1, OverAdvances
  <2>. QED
    BY <2>1, <2>2
<1>2. CASE ~GiveUp(t)
  <2>1. Loop(t, task[t].errors + 1)
    BY <1>2 DEF LoopError
  <2>2. task[t].errors \in Nat /\ task[t].errors <= lost /\ lost \in Nat
    BY InTask DEF TaskRecs, SessionAssumption, PlainTasks, Plain, SessionInv, Page
  <2>3. CASE ~Fresh(t)
    <3>1. Quiet(t)
      BY <2>1, <2>3 DEF Loop, Continues, Fresh
    <3>. QED
      BY <3>1, QuietAdvances
  <2>4. CASE Fresh(t)
    BY <2>1, <2>2, <2>4, LoopAdvances
  <2>. QED
    BY <2>3, <2>4
<1>. QED
  BY <1>1, <1>2

LEMMA StartPollAdvances ==
  ASSUME SessionAssumption, SessionInv, PlainTasks, lost' = lost,
         NEW t \in Tasks, NEW a, NEW r, StartPoll(t, a, r)
  PROVE  Advance
<1>0. lost \in Nat
  BY DEF SessionInv, Page
<1>1. CASE Starts(a, r)
  <2>1. Move(t, Task("waiting", a, r, epoch, 0, None))
    BY <1>1 DEF StartPoll, Move
  <2>. QED
    BY <1>0, <2>1, NewAdvances
<1>2. CASE ~Starts(a, r)
  BY <1>0, <1>2, OverAdvances DEF StartPoll, Move
<1>. QED
  BY <1>1, <1>2

LEMMA EffectAdvances ==
  ASSUME SessionAssumption, SessionInv, PlainTasks, lost' = lost, NEW a, EffectOn(a)
  PROVE  Advance
<1>1. PICK t \in Loads :
        task' = [task EXCEPT ![t] = Task("loading", a, None, epoch, 0, None)]
  BY DEF EffectOn
<1>2. t \in Tasks /\ t \notin Sends
  BY Kinds DEF Tasks
<1>3. Move(t, Task("loading", a, None, epoch, 0, None)) /\ lost \in Nat
  BY <1>1 DEF Move, SessionInv, Page
<1>. QED
  BY <1>2, <1>3, NewAdvances

LEMMA UserAdvances ==
  ASSUME SessionAssumption, SessionInv, PlainTasks,
         \/ \E a \in Agents : Select(a)
         \/ \E p \in Principals : SwitchSession(p)
         \/ \E t \in Tasks : Send(t) \/ Retry(t)
         \/ Render \/ Effect
  PROVE  Advance
<1>0. lost \in Nat /\ lost >= lost
  BY DEF SessionInv, Page
<1>1. ASSUME NEW a \in Agents, Select(a) PROVE Advance
  BY <1>0, <1>1, EffectAdvances, NothingAdvances DEF Select
<1>2. ASSUME NEW p \in Principals, SwitchSession(p) PROVE Advance
  <2>. DEFINE t == <<"list", epoch + 1>>
  <2>1. t \in Tasks /\ t \notin Sends
    BY <1>2 DEF SwitchSession, SessionInv, Page, SessionAssumption, Lists, Tasks, Sends
  <2>2. Move(t, Task("listing", None, None, epoch + 1, 0, None)) /\ lost' = lost
    BY <1>2 DEF SwitchSession, Move, bounds
  <2>. QED
    BY <1>0, <2>1, <2>2, NewAdvances
<1>3. ASSUME NEW t \in Tasks, Send(t) PROVE Advance
  <2>1. /\ Move(t, Task("sending", AgentOf[t[2]], t[2], epoch, 0, None)) /\ lost' = lost
        /\ task[t].pc = "idle"
    BY <1>3 DEF Send, Move, bounds, Idle, Task
  <2>. QED
    BY <1>0, <2>1, NewAdvances
<1>4. ASSUME NEW t \in Tasks, Retry(t) PROVE Advance
  BY <1>4, StartPollAdvances DEF Retry, bounds
<1>5. CASE Render
  BY <1>0, <1>5, NothingAdvances DEF Render, bounds
<1>6. CASE Effect
  BY <1>6, EffectAdvances DEF Effect, bounds
<1>. QED
  BY <1>1, <1>2, <1>3, <1>4, <1>5, <1>6

LEMMA NotAcceptedAdvances ==
  ASSUME SessionAssumption, SessionInv, PlainTasks, lost' \in Nat, lost' >= lost,
         NEW t \in Tasks, At(t, "sending"), NEW r \in {None, task[t].run}, NotAccepted(t, r)
  PROVE  Advance
<1>1. Move(t, Task("relisting", task[t].agent, r, epoch, 0, None))
  BY DEF NotAccepted, Move
<1>2. t = <<"send", task[t].run>> /\ task[t].pc = "sending"
  BY InTask DEF At, Fits
<1>. QED
  BY <1>1, <1>2, NewAdvances DEF SessionInv, Page

LEMMA ArrivesAdvances ==
  ASSUME SessionAssumption, SessionInv, PlainTasks, NEW t \in Tasks, Arrives(t)
  PROVE  Advance
<1>1. lost' = lost /\ lost \in Nat /\ lost >= lost
  <2>1. UNCHANGED bounds
    BY DEF Arrives, LoadArrives, FetchArrives, RefreshArrives, FinishArrives, SendArrives,
       ListArrives
  <2>. QED
    BY <2>1 DEF bounds, SessionInv, Page
<1>2. CASE LoadArrives(t)
  <2>1. CASE task' = [task EXCEPT ![t] = Idle]
    <3>1. Over(t) = Idle
      BY <1>2, InTask, Kinds DEF LoadArrives, Arrived, At, Fits, Over
    <3>. QED
      BY <1>1, <2>1, <3>1, OverAdvances DEF Move
  <2>2. CASE StartPoll(t, task[t].agent, task[t].body.run)
    BY <1>1, <2>2, StartPollAdvances
  <2>. QED
    BY <1>2, <2>1, <2>2 DEF LoadArrives
<1>3. CASE FetchArrives(t)
  <2>. DEFINE y == task[t]
              next == IF y.run \in y.body.live THEN "refreshing" ELSE "finishing"
              x == Task(next, y.agent, y.run, y.epoch, y.errors, None)
  <2>1. CASE task' = [task EXCEPT ![t] = [@ EXCEPT !.pc = next, !.body = None]]
    <3>1. [y EXCEPT !.pc = next, !.body = None] = x
      BY InTask, Fields
    <3>2. Move(t, x)
      BY <2>1, <3>1, Zenon DEF Move
    <3>3. y.errors \in Nat /\ y.errors <= lost
      BY InTask DEF TaskRecs, SessionAssumption, PlainTasks, Plain
    <3>. QED
      BY <1>1, <3>2, <3>3, NewAdvances
  <2>2. CASE Quiet(t)
    BY <1>1, <2>2, QuietAdvances
  <2>3. CASE ~Fresh(t) /\ LoopError(t)
    BY <1>1, <2>3, LoopErrorAdvances
  <2>. QED
    BY <1>3, <2>1, <2>2, <2>3 DEF FetchArrives
<1>4. CASE RefreshArrives(t)
  BY <1>1, <1>4, LoopAdvances DEF RefreshArrives
<1>5. CASE FinishArrives(t)
  BY <1>1, <1>5, QuietAdvances, LoopErrorAdvances DEF FinishArrives
<1>6. CASE SendArrives(t)
  <2>1. At(t, "sending") /\ task[t].body.run \in {None, task[t].run}
    BY <1>6, InTask DEF SendArrives, Arrived, At, Fits
  <2>2. CASE Accepted(t)
    BY <1>1, <2>2, StartPollAdvances DEF Accepted
  <2>3. CASE NotAccepted(t, task[t].body.run)
    BY <1>1, <2>1, <2>3, NotAcceptedAdvances
  <2>4. CASE task' = [task EXCEPT ![t] = Done]
    <3>1. Move(t, Task("done", None, None, 0, 0, None))
      BY <2>4 DEF Move, Done
    <3>. QED
      BY <1>1, <3>1, NewAdvances
  <2>. QED
    BY <1>6, <2>2, <2>3, <2>4 DEF SendArrives
<1>7. CASE ListArrives(t)
  BY <1>1, <1>7, OverAdvances DEF ListArrives, Move
<1>. QED
  BY <1>2, <1>3, <1>4, <1>5, <1>6, <1>7 DEF Arrives

LEMMA TasksAdvance ==
  ASSUME SessionAssumption, SessionInv, PlainTasks, [Next]_vars \/ LostUnheard
  PROVE  Advance /\ lost' \in Nat /\ lost' >= lost
<1>0. lost \in Nat
  BY DEF SessionInv, Page
<1>1. lost' = lost \/ lost' = lost + 1
  BY DEF Next, LostUnheard, vars, bounds, Select, SwitchSession, Send, Retry, Serve, ServeSend,
     Wake, Arrives, LoadArrives, FetchArrives, RefreshArrives, FinishArrives, SendArrives,
     ListArrives, Lose, RunEnds, Render, Effect, Rest
<1>2. lost' \in Nat /\ lost' >= lost
  BY <1>0, <1>1
<1>3. CASE UNCHANGED task
  BY <1>2, <1>3, NothingAdvances
<1>4. ASSUME NEW t \in Tasks, Serve(t) \/ ServeSend(t) PROVE Advance
  <2>1. \E b : Served(t, b) /\ b # None
    <3>1. \A r \in Runs \cup {None}, l \in SUBSET Runs : Answer(r, l) # None
      BY DEF Answer, SessionAssumption
    <3>2. task[t] \in TaskRecs /\ live \subseteq Runs /\ Fits(t, task[t])
          /\ \A a \in Agents : latest[a] \in Runs \cup {None}
      BY InTask DEF SessionInv, ServerFits
    <3>3. CASE Serve(t)
      <4>. DEFINE r == IF task[t].pc = "loading" THEN latest[task[t].agent] ELSE task[t].run
                  l == IF task[t].pc \in Listing THEN live ELSE live \cap {r}
      <4>1. r \in Runs \cup {None} /\ l \subseteq Runs
        BY <3>2 DEF TaskRecs, Fits
      <4>2. Served(t, Answer(r, l))
        BY <3>3 DEF Serve
      <4>. QED
        BY <3>1, <4>1, <4>2
    <3>4. CASE ServeSend(t)
      <4>1. /\ task[t].run \in Runs
            /\ \/ Served(t, Answer(task[t].run, live' \cap {task[t].run}))
               \/ Served(t, Answer(None, {}))
        BY <3>2, <3>4 DEF ServeSend, TaskRecs, Fits
      <4>. QED
        BY <3>1, <4>1
    <3>. QED
      BY <1>4, <3>3, <3>4
  <2>2. lost' = lost
    BY <1>4 DEF Serve, ServeSend, bounds
  <2>. QED
    BY <2>1, <2>2, ServedAdvances
<1>5. ASSUME NEW t \in Tasks, Wake(t) PROVE Advance
  <2>. DEFINE y == task[t]
              x == Task("fetching", y.agent, y.run, y.epoch, y.errors, y.body)
  <2>1. CASE Quiet(t)
    BY <1>2, <2>1, QuietAdvances
  <2>2. CASE task' = [task EXCEPT ![t] = [@ EXCEPT !.pc = "fetching"]]
    <3>1. [y EXCEPT !.pc = "fetching"] = x
      BY InTask, Fields
    <3>2. Move(t, x)
      BY <2>2, <3>1, Zenon DEF Move
    <3>3. y.errors \in Nat /\ y.errors <= lost
      BY InTask DEF TaskRecs, SessionAssumption, PlainTasks, Plain
    <3>. QED
      BY <1>0, <1>2, <3>2, <3>3, NewAdvances
  <2>. QED
    BY <1>5, <2>1, <2>2 DEF Wake
<1>6. ASSUME NEW t \in Tasks, Lose(t) PROVE Advance
  <2>1. lost' = lost + 1
    BY <1>6 DEF Lose
  <2>2. CASE LoseInLoop(t)
    BY <1>2, <2>1, <2>2, LoopErrorAdvances DEF LoseInLoop
  <2>3. CASE task' = [task EXCEPT ![t] = Over(t)]
    BY <1>2, <2>3, OverAdvances DEF Move
  <2>4. CASE At(t, "sending") /\ NotAccepted(t, None)
    BY <1>2, <2>4, NotAcceptedAdvances
  <2>. QED
    BY <1>6, <2>2, <2>3, <2>4 DEF Lose, LoseOther
<1>7. CASE (\E r \in Runs : RunEnds(r)) \/ Rest \/ UNCHANGED vars \/ LostUnheard
  BY <1>3, <1>7 DEF RunEnds, Rest, vars, LostUnheard
<1>. QED
  BY <1>2, <1>4, <1>5, <1>6, <1>7, UserAdvances, ArrivesAdvances DEF Next

-----------------------------------------------------------------------------
(* What is over stays over. *)

LEMMA ReachedStays ==
  ASSUME Advance, NEW r \in Runs, Reached(r)
  PROVE  Reached(r)'
<1>1. CASE r \in Earlier
  BY <1>1 DEF Reached
<1>2. CASE r \notin Earlier
  <2>. DEFINE t == <<"send", r>>
  <2>1. t \in Tasks /\ t \in Sends
    BY <1>2 DEF Tasks, Sends
  <2>2. task[t].pc # "idle" /\ (task[t].pc = "sending" => task[t].body # None)
    BY <1>2 DEF Reached
  <2>3. Onward(t, task[t], task'[t])
    BY <2>1 DEF Advance
  <2>4. task'[t].pc # "idle" /\ (task'[t].pc = "sending" => task'[t].body # None)
    BY <2>1, <2>2, <2>3 DEF Onward
  <2>. QED
    BY <2>4 DEF Reached
<1>. QED
  BY <1>1, <1>2

\* The server sends no Run twice.
LEMMA LiveIsNew ==
  ASSUME SessionAssumption, SessionInv, [Next]_vars \/ LostUnheard, NEW r \in Runs, r \in live'
  PROVE  r \in live \/ ~Reached(r)
<1>1. ASSUME NEW t \in Tasks, ServeSend(t) PROVE r \in live \/ ~Reached(r)
  <2>1. task[t].pc = "sending" /\ task[t].body = None /\ live' \subseteq live \cup {task[t].run}
    BY <1>1 DEF ServeSend, server
  <2>2. task[t].run \in Runs /\ t = <<"send", task[t].run>>
    BY <2>1, InTask DEF Fits, TaskRecs
  <2>3. task[t].run \notin Earlier
    BY <2>2 DEF Tasks, Sends, Loads, Lists, Retries
  <2>4. ~Reached(task[t].run)
    BY <2>1, <2>2, <2>3 DEF Reached
  <2>. QED
    BY <2>1, <2>4
<1>2. ASSUME NEW t \in Tasks, Arrives(t) PROVE live' = live
  BY <1>2 DEF Arrives, LoadArrives, FetchArrives, RefreshArrives, FinishArrives, SendArrives,
     ListArrives, server
<1>3. ASSUME NEW t \in Tasks, Send(t) \/ Retry(t) \/ Serve(t) \/ Wake(t) \/ Lose(t)
      PROVE  live' = live
  BY <1>3 DEF Send, Retry, Serve, Wake, Lose, server
<1>4. CASE \/ \E a \in Agents : Select(a)
           \/ \E p \in Principals : SwitchSession(p)
           \/ Render \/ Effect \/ Rest \/ UNCHANGED vars \/ LostUnheard
  BY <1>4 DEF Select, SwitchSession, Render, Effect, Rest, vars, LostUnheard, server
<1>5. CASE \E s \in Runs : RunEnds(s)
  BY <1>5 DEF RunEnds
<1>. QED
  BY <1>1, <1>2, <1>3, <1>4, <1>5 DEF Next

LEMMA OverStays ==
  ASSUME SessionAssumption, SessionInv, EvidenceInv, PlainTasks, [EvidenceNext]_evars,
         NEW r \in Runs, IsOver(r)
  PROVE  IsOver(r)' /\ version'[r] = version[r]
<1>1. [Next]_vars \/ LostUnheard
  BY EvidenceSteps
<1>2. Reached(r)' /\ r \notin live'
  BY <1>1, TasksAdvance, ReachedStays, LiveIsNew DEF IsOver
<1>3. CASE \E s \in Runs : ReceiptChanges(s)
  <2>1. PICK s \in Runs : s \in live /\ version' = [version EXCEPT ![s] = @ + 1]
    BY <1>3 DEF ReceiptChanges
  <2>2. s # r
    BY <2>1 DEF IsOver
  <2>3. version'[r] = version[r]
    BY <2>1, <2>2 DEF EvidenceInv, EvidenceTypeOK
  <2>. QED
    BY <1>2, <2>3 DEF IsOver
<1>4. CASE ~(\E s \in Runs : ReceiptChanges(s))
  <2>1. ASSUME NEW t \in Tasks, PageStep(t) PROVE version' = version
    BY <2>1 DEF PageStep, ServeRead, Load, Fetch, Refresh, Sent, LoseRequest
  <2>2. ASSUME NEW p \in Proofs, ProofStep(p) PROVE version' = version
    BY <2>2 DEF ProofStep, ServeProof, ProofArrives, ProofFails
  <2>3. NewPage => version' = version
    BY DEF NewPage
  <2>4. SamePage \/ UNCHANGED evars => version' = version
    BY DEF SamePage, KeepEvidence, evidence, evars
  <2>5. version' = version
    BY <1>4, <2>1, <2>2, <2>3, <2>4 DEF EvidenceNext
  <2>. QED
    BY <1>2, <2>5 DEF IsOver
<1>. QED
  BY <1>2, <1>3, <1>4 DEF IsOver

\* Who has been told that a Run is over has been told the truth.
LEMMA ToldOver ==
  ASSUME KnowledgeInv, NEW t \in Tasks, NEW r \in Runs, task[t].body # None,
         task[t].body.run = r, r \notin task[t].body.live
  PROVE  IsOver(r)
BY DEF KnowledgeInv, Mentions, Knows, IsOver

LEMMA KnownOver ==
  ASSUME KnowledgeInv, NEW t \in Tasks, task[t].pc \in {"finishing", "relisting"},
         task[t].run \in Runs
  PROVE  IsOver(task[t].run)
<1>. DEFINE r == task[t].run
<1>1. Knows(task[t], r)
  BY DEF Knows
<1>2. CASE t = <<"send", r>>
  BY <1>1, <1>2 DEF KnowledgeInv, IsOver, Reached
<1>3. CASE t # <<"send", r>>
  BY <1>1, <1>3 DEF KnowledgeInv, IsOver, Mentions
<1>. QED
  BY <1>2, <1>3

\* The Run that a page shows as over.
OverShown == activeRun' # None /\ ~activeRun'.live

LEMMA LoadShows ==
  ASSUME SessionAssumption, SessionInv, KnowledgeInv, NEW t \in Tasks, LoadArrives(t),
         OverShown, activeRun' # activeRun
  PROVE  \E r \in Runs :
           /\ activeRun' = Shown(r, FALSE) /\ IsOver(r)
           /\ task[t].body.run = r /\ r \notin task[t].body.live /\ LoadIsWanted(t)
<1>. DEFINE b == task[t].body
<1>1. b # None /\ b \in Answers
  BY InTask DEF LoadArrives, Arrived
<1>2. /\ LoadIsWanted(t) /\ b.run # None /\ activeRun' = Shown(b.run, b.run \in b.live)
  BY DEF LoadArrives, OverShown
<1>3. b.run \notin b.live
  BY <1>2 DEF OverShown, Shown
<1>4. b.run \in Runs /\ activeRun' = Shown(b.run, FALSE)
  <2>1. (b.run \in b.live) = FALSE
    BY <1>3
  <2>. QED
    BY <1>1, <1>2, <2>1 DEF Answers
<1>. QED
  BY <1>1, <1>2, <1>3, <1>4, ToldOver

LEMMA FetchShows ==
  ASSUME SessionAssumption, SessionInv, KnowledgeInv, NEW t \in Tasks, FetchArrives(t),
         OverShown, activeRun' # activeRun
  PROVE  \E r \in Runs :
           activeRun' = Shown(r, FALSE) /\ IsOver(r) /\ task'[t].pc = "finishing"
<1>. DEFINE y == task[t]
<1>1. /\ activeRun' = Shown(y.run, y.run \in y.body.live)
      /\ task'[t] = Task(IF y.run \in y.body.live THEN "refreshing" ELSE "finishing",
                         y.agent, y.run, y.epoch, y.errors, None)
  BY FetchBranches
<1>2. y.run \notin y.body.live
  BY <1>1 DEF OverShown, Shown
<1>3. y.run \in Runs /\ y.body # None /\ y.body.run = y.run
  BY InTask, InLoop DEF FetchArrives, Arrived, At, Loops, Fits
<1>4. task'[t].pc = "finishing"
  BY <1>1, <1>2 DEF Task
<1>5. activeRun' = Shown(y.run, FALSE) /\ IsOver(y.run)
  <2>1. (y.run \in y.body.live) = FALSE
    BY <1>2
  <2>. QED
    BY <1>1, <1>2, <1>3, <2>1, ToldOver
<1>. QED
  BY <1>3, <1>4, <1>5

LEMMA SendShows ==
  ASSUME SessionAssumption, SessionInv, KnowledgeInv, NEW t \in Tasks, SendArrives(t),
         OverShown, activeRun' # activeRun
  PROVE  \E r \in Runs :
           activeRun' = Shown(r, FALSE) /\ IsOver(r) /\ task[t].pc = "sending" /\ t = <<"send", r>>
<1>. DEFINE b == task[t].body
<1>1. /\ b # None /\ b \in Answers /\ b.run \in {None, task[t].run} /\ task[t].run \in Runs
      /\ task[t].pc = "sending" /\ t = <<"send", task[t].run>>
  BY InTask DEF SendArrives, Arrived, At, Fits, TaskRecs
<1>2. ~Accepted(t)
  BY DEF Accepted, OverShown, Shown
<1>3. ~(UNCHANGED <<lists, run>>)
  BY DEF run
<1>4. b.run \notin b.live /\ NotAccepted(t, b.run)
  BY <1>2, <1>3 DEF SendArrives
<1>5. b.run # None /\ activeRun' = Shown(b.run, FALSE)
  BY <1>4 DEF NotAccepted, OverShown
<1>6. b.run = task[t].run /\ IsOver(b.run)
  BY <1>1, <1>4, <1>5, ToldOver
<1>. QED
  BY <1>1, <1>5, <1>6

LEMMA ListShows ==
  ASSUME SessionAssumption, SessionInv, KnowledgeInv, PlainTasks, NEW t \in Tasks,
         ListArrives(t), OverShown, activeRun' # activeRun
  PROVE  \E r \in Runs :
           /\ activeRun' = Shown(r, FALSE) /\ IsOver(r)
           /\ task[t].pc = "relisting" /\ t = <<"send", r>> /\ task[t].run = r
<1>1. task[t].run # None /\ activeRun' = Shown(task[t].run, FALSE)
  BY DEF ListArrives
<1>2. task[t].run \in Runs
  BY <1>1, InTask DEF TaskRecs
<1>3. task[t].pc = "relisting" /\ t = <<"send", task[t].run>>
  BY <1>1 DEF ListArrives, Arrived, At, PlainTasks, Plain
<1>. QED
  BY <1>1, <1>2, <1>3, KnownOver

\* No other step shows a Run as over.
LEMMA OthersShow ==
  ASSUME OverShown, activeRun' # activeRun
  PROVE  /\ \A t \in Tasks :
              /\ ~Send(t) /\ ~Retry(t) /\ ~Serve(t) /\ ~ServeSend(t) /\ ~Wake(t) /\ ~Lose(t)
              /\ ~RefreshArrives(t) /\ ~FinishArrives(t)
         /\ \A a \in Agents : ~Select(a)
         /\ \A p \in Principals : ~SwitchSession(p)
         /\ \A r \in Runs : ~RunEnds(r)
         /\ ~Render /\ ~Effect /\ ~Rest /\ ~UNCHANGED vars /\ ~LostUnheard
BY DEF Send, Retry, Serve, ServeSend, Wake, Lose, LoseInLoop, LoseOther, NotAccepted,
   RefreshArrives, FinishArrives, OverShown, run, Select, EffectOn, SwitchSession, Render,
   Effect, Rest, vars, LostUnheard, RunEnds

LEMMA ShownStaysOver ==
  ASSUME SessionAssumption, SessionInv, KnowledgeInv, EvidenceInv, PlainTasks, ShownIsOver,
         [EvidenceNext]_evars
  PROVE  ShownIsOver'
<1>. SUFFICES ASSUME OverShown PROVE IsOver(activeRun.id)'
  BY DEF ShownIsOver, OverShown, IsOver, Reached
<1>1. CASE activeRun' = activeRun
  <2>1. activeRun.id \in Runs /\ IsOver(activeRun.id)
    BY <1>1 DEF OverShown, ShownIsOver, SessionInv, Page
  <2>. QED
    BY <1>1, <2>1, OverStays DEF IsOver, Reached
<1>2. CASE activeRun' # activeRun
  <2>1. \E r \in Runs : activeRun' = Shown(r, FALSE) /\ IsOver(r)
    <3>1. [Next]_vars \/ LostUnheard
      BY EvidenceSteps
    <3>2. \E t \in Tasks :
            LoadArrives(t) \/ FetchArrives(t) \/ SendArrives(t) \/ ListArrives(t)
      BY <1>2, <3>1, OthersShow DEF Next, Arrives
    <3>. QED
      BY <1>2, <3>2, LoadShows, FetchShows, SendShows, ListShows
  <2>2. PICK r \in Runs : activeRun' = Shown(r, FALSE) /\ IsOver(r)
    BY <2>1
  <2>3. activeRun'.id = r
    BY <2>2 DEF Shown
  <2>. QED
    BY <2>2, <2>3, OverStays DEF IsOver, Reached
<1>. QED
  BY <1>1, <1>2

\* A page that has asked and is still rendered is the same page.
LEMMA PageStays ==
  ASSUME [EvidenceNext]_evars, asked' # None, ref' = effectFor'
  PROVE  ref' = ref /\ effectFor' = effectFor /\ epoch' = epoch /\ ~NewPage
<1>1. ~NewPage
  BY DEF NewPage, Clear
<1>2. CASE SamePage
  <2>1. ASSUME NEW a \in Agents, Select(a), effectFor = effectFor'
        PROVE  ref' = ref /\ epoch' = epoch
    BY <2>1 DEF Select, EffectOn, Ready, identity
  <2>2. ~Render
    BY DEF Render
  <2>3. ASSUME NEW t \in Tasks, Retry(t) \/ Judge(t) \/ Wake(t) \/ ListArrives(t)
        PROVE  UNCHANGED <<identity, view>>
    BY <2>3 DEF Retry, Judge, ServeSend, Wake, ListArrives
  <2>4. CASE Rest \/ \E r \in Runs : RunEnds(r)
    BY <1>1, <2>4 DEF Rest, RunEnds, vars, identity, view
  <2>. QED
    BY <1>1, <1>2, <2>1, <2>2, <2>3, <2>4 DEF SamePage, identity, view
<1>3. ASSUME NEW t \in Tasks, PageStep(t) PROVE UNCHANGED <<identity, view>>
  BY <1>3 DEF PageStep, ServeRead, Serve, Load, LoadArrives, Fetch, FetchArrives, Refresh,
     RefreshArrives, FinishArrives, Sent, SendArrives, LoseRequest, Lose
<1>4. ASSUME NEW p \in Proofs, ProofStep(p) PROVE UNCHANGED <<identity, view>>
  BY <1>4 DEF ProofStep, ServeProof, ProofArrives, ProofFails, vars
<1>5. CASE (\E r \in Runs : ReceiptChanges(r)) \/ UNCHANGED evars
  BY <1>1, <1>5 DEF ReceiptChanges, evars, vars, identity, view
<1>. QED
  BY <1>1, <1>2, <1>3, <1>4, <1>5 DEF EvidenceNext, identity, view

\* An answer that is taken: it is the last one if the last one is shown already.
LEMMA AnsweredFinal ==
  ASSUME EvidenceAssumption, EvidenceInv, NEW r \in Runs, ShowsFinal(r), NEW s \in Runs, NEW t, NEW b, NEW e,
         NEW v \in Versions, asked # None, asked.run = r, Answered(Ticket(s, t, b), e, v),
         v <= version[s],
         asked = Ticket(s, t, b) /\ receipt # None /\ receipt.run = s => receipt.version <= v
  PROVE  receipt' = receipt
<1>1. CASE ~Wanted(Ticket(s, t, b), e)
  BY <1>1 DEF Answered, shown
<1>2. CASE Wanted(Ticket(s, t, b), e)
  <2>1. asked = Ticket(s, t, b) /\ s = r /\ receipt' = ReceiptOf(r, v)
    BY <1>2 DEF Answered, Wanted, Take, Ticket
  <2>2. receipt = ReceiptOf(r, version[r]) /\ version[r] \in Versions
    BY DEF ShowsFinal, EvidenceInv, EvidenceTypeOK
  <2>3. CASE r \notin Capsules
    BY <2>1, <2>2, <2>3 DEF ReceiptOf
  <2>4. CASE r \in Capsules
    <3>1. receipt = [run |-> r, version |-> version[r]]
      BY <2>2, <2>4 DEF ReceiptOf
    <3>2. receipt # None /\ receipt.version = version[r] /\ receipt.run = r
      BY <2>2, <3>1 DEF EvidenceAssumption, Versions
    <3>3. version[r] = v
      BY <2>1, <2>2, <3>2 DEF Versions
    <3>. QED
      BY <2>1, <2>2, <3>3
  <2>. QED
    BY <2>3, <2>4
<1>. QED
  BY <1>1, <1>2

\* What the page shows stays final until it asks again.
LEMMA FinalStays ==
  ASSUME SessionAssumption, EvidenceAssumption, SessionInv, EvidenceInv, PlainTasks,
         [EvidenceNext]_evars, asked # None, asked' = asked, NEW r \in Runs, asked.run = r,
         ShowsFinal(r)
  PROVE  ShowsFinal(r)'
<1>1. IsOver(r)' /\ version'[r] = version[r] /\ r \in Runs
  BY OverStays DEF ShowsFinal
<1>2. ~NewPage
  BY DEF NewPage, Clear
<1>3. CASE SamePage \/ UNCHANGED evars \/ \E s \in Runs : ReceiptChanges(s)
  <2>1. receipt' = receipt
    BY <1>3 DEF SamePage, KeepEvidence, evidence, evars, shown, ReceiptChanges
  <2>. QED
    BY <1>1, <2>1 DEF ShowsFinal
<1>4. ASSUME NEW t \in Tasks, PageStep(t) PROVE receipt' = receipt
  <2>1. CASE ServeRead(t) \/ Load(t) \/ Fetch(t) \/ Sent(t)
    BY <2>1 DEF ServeRead, Load, Fetch, Sent, shown
  <2>2. ASSUME Told(t), Answered(OfLoop(t), task[t].epoch, seen[t]) PROVE receipt' = receipt
    <3>1. task[t].run \in Runs
      BY <2>2, ToldLoop
    <3>2. seen[t] \in Versions /\ seen[t] <= version[task[t].run]
      BY <2>2 DEF EvidenceInv, EvidenceTypeOK, Ordered
    <3>3. asked = OfLoop(t) /\ receipt # None /\ receipt.run = task[t].run =>
            receipt.version <= seen[t]
      BY <2>2 DEF EvidenceInv, Ordered
    <3>. DEFINE s == task[t].run
                v == seen[t]
                e == task[t].epoch
    <3>4. /\ s \in Runs /\ v \in Versions /\ v <= version[s]
          /\ Answered(Ticket(s, t, TRUE), e, v)
          /\ asked = Ticket(s, t, TRUE) /\ receipt # None /\ receipt.run = s =>
               receipt.version <= v
      BY <2>2, <3>1, <3>2, <3>3 DEF OfLoop
    <3>. HIDE DEF s, v, e
    <3>. QED
      BY <3>4, AnsweredFinal
  <2>3. CASE Refresh(t)
    <3>1. Told(t)
      BY <2>3 DEF Refresh, RefreshArrives, FinishArrives, Arrived, At, Told
    <3>. QED
      BY <2>2, <2>3, <3>1 DEF Refresh
  <2>4. CASE LoseRequest(t)
    <3>1. Arrived(t, "finishing") => Told(t)
      BY DEF Arrived, At, Told
    <3>. QED
      BY <2>2, <2>4, <3>1 DEF LoseRequest, shown
  <2>. QED
    BY <1>4, <2>1, <2>3, <2>4 DEF PageStep
<1>5. ASSUME NEW p \in Proofs, ProofStep(p) PROVE receipt' = receipt
  <2>1. CASE ServeProof(p) \/ ProofFails(p)
    BY <2>1 DEF ServeProof, ProofFails, shown
  <2>2. CASE ProofArrives(p)
    <3>. DEFINE s == p[1]
                t == p[2]
                v == proof[p].version
                e == proof[p].epoch
    <3>1. /\ s \in Runs /\ v \in Versions /\ v <= version[s]
          /\ Answered(Ticket(s, t, FALSE), e, v)
          /\ asked = Ticket(s, t, FALSE) /\ receipt # None /\ receipt.run = s =>
               receipt.version <= v
      BY <2>2, ProofParts DEF ProofArrives, EvidenceInv, EvidenceTypeOK, Ordered
    <3>. HIDE DEF s, t, v, e
    <3>. QED
      BY <3>1, AnsweredFinal
  <2>. QED
    BY <1>5, <2>1, <2>2 DEF ProofStep
<1>6. (\E t \in Tasks : PageStep(t)) \/ (\E p \in Proofs : ProofStep(p)) => ShowsFinal(r)'
  BY <1>1, <1>4, <1>5 DEF ShowsFinal
<1>. QED
  BY <1>2, <1>3, <1>6 DEF EvidenceNext

-----------------------------------------------------------------------------
(* A loop that has asked last follows its Run to the final Receipt. *)

LEMMA FollowsUntouched ==
  ASSUME SessionAssumption, SessionInv, KnowledgeInv, EvidenceInv, PlainTasks,
         [EvidenceNext]_evars, NEW t \in Tasks, NEW r \in Runs, Follows(t, r),
         task'[t] = task[t], seen'[t] = seen[t], ref' = ref, epoch' = epoch
  PROVE  Follows(t, r)'
<1>1. task[t].pc = "finishing" => version'[r] = version[r]
  <2>1. task[t].run = r
    BY DEF Follows, Polls
  <2>. QED
    BY <2>1, KnownOver, OverStays
<1>. QED
  BY <1>1 DEF Follows, Polls, Continues, Told

\* The loop is back at its timer, or has only just been told to go on.
LEMMA FollowsAt ==
  ASSUME SessionInv, NEW t \in Tasks, NEW r \in Runs, Follows(t, r), ref' = ref,
         epoch' = epoch, NEW p \in Loops, NEW n, NEW b,
         task'[t] = Task(p, task[t].agent, task[t].run, task[t].epoch, n, b),
         p # "finishing" \/ b = None
  PROVE  Follows(t, r)'
<1>1. /\ task'[t].pc = p /\ task'[t].agent = task[t].agent /\ task'[t].run = task[t].run
      /\ task'[t].epoch = task[t].epoch /\ task'[t].body = b
  BY DEF Task
<1>. QED
  BY <1>1 DEF Follows, Polls, Continues, Told

LEMMA FollowsLoop ==
  ASSUME SessionInv, NEW t \in Tasks, NEW r \in Runs, Follows(t, r), ref' = ref,
         epoch' = epoch, NEW n, Loop(t, n)
  PROVE  Follows(t, r)'
<1>1. ~(~Continues(t) /\ Quiet(t))
  BY DEF Follows
<1>2. task' = [task EXCEPT ![t] = Task("waiting", @.agent, @.run, @.epoch, n, None)]
  BY <1>1 DEF Loop
<1>3. task'[t] = Task("waiting", task[t].agent, task[t].run, task[t].epoch, n, None)
  BY <1>2 DEF SessionInv, TasksFit
<1>. QED
  BY <1>3, FollowsAt DEF Loops

\* A step of the loop itself.
LEMMA FollowsOwn ==
  ASSUME SessionAssumption, EvidenceAssumption, SessionInv, KnowledgeInv, EvidenceInv,
         PlainTasks, [EvidenceNext]_evars, NEW t \in Tasks, NEW r \in Runs, Follows(t, r),
         asked = Ticket(r, t, TRUE), ref' = ref, effectFor' = effectFor, epoch' = epoch,
         ref = effectFor, lost' < MaxErrors, Wake(t) \/ PageStep(t)
  PROVE  Follows(t, r)' \/ ShowsFinal(r)'
<1>. DEFINE y == task[t]
<1>1. /\ y.pc \in Loops /\ y.run = r /\ Continues(t) /\ asked = OfLoop(t)
      /\ y.agent = AgentOf[r] /\ ref = y.agent /\ y.epoch = epoch
  BY InLoop DEF Follows, Polls, Continues, OfLoop
<1>2. CASE Wake(t)
  <2>. DEFINE x == Task("fetching", y.agent, y.run, y.epoch, y.errors, y.body)
  <2>1. [y EXCEPT !.pc = "fetching"] = x
    BY InTask, Fields
  <2>2. task' = [task EXCEPT ![t] = x]
    BY <1>1, <1>2, <2>1, Zenon DEF Wake
  <2>. HIDE DEF x
  <2>3. task'[t] = x
    BY <2>2 DEF SessionInv, TasksFit
  <2>4. task'[t] = Task("fetching", y.agent, y.run, y.epoch, y.errors, y.body)
    BY <2>3 DEF x
  <2>. QED
    BY <2>4, FollowsAt DEF Loops
<1>3. CASE ServeRead(t)
  <2>1. PICK b : Served(t, b)
    BY <1>3 DEF ServeRead, Serve
  <2>2. /\ task'[t].pc = y.pc /\ task'[t].run = y.run
        /\ task'[t].agent = y.agent /\ task'[t].epoch = y.epoch
    BY <2>1, ServedTask
  <2>3. r # None
    BY DEF SessionAssumption
  <2>4. seen'[t] = version[r] /\ version' = version
    BY <1>1, <1>3, <2>3 DEF ServeRead, EvidenceInv, EvidenceTypeOK
  <2>. QED
    BY <1>1, <2>2, <2>4 DEF Follows, Polls, Continues
<1>4. CASE Fetch(t)
  <2>. DEFINE next == IF y.run \in y.body.live THEN "refreshing" ELSE "finishing"
  <2>1. CASE task'[t] = Task(next, y.agent, y.run, y.epoch, y.errors, None)
    <3>1. next \in Loops
      BY DEF Loops
    <3>. HIDE DEF next
    <3>. QED
      BY <2>1, <3>1, FollowsAt
  <2>2. CASE ~Continues(t)
    BY <1>1, <2>2
  <2>3. CASE task' = [task EXCEPT ![t] = [@ EXCEPT !.pc = next, !.body = None]]
    <3>. DEFINE x == Task(next, y.agent, y.run, y.epoch, y.errors, None)
    <3>1. [y EXCEPT !.pc = next, !.body = None] = x
      BY InTask, Fields
    <3>2. task' = [task EXCEPT ![t] = x]
      BY <2>3, <3>1, Zenon
    <3>. HIDE DEF x
    <3>3. task'[t] = x
      BY <3>2 DEF SessionInv, TasksFit
    <3>. QED
      BY <2>1, <3>3 DEF x
  <2>4. \/ task' = [task EXCEPT ![t] = [@ EXCEPT !.pc = next, !.body = None]]
        \/ ~Continues(t) \/ ~Fresh(t)
    BY <1>4 DEF Fetch, FetchArrives
  <2>. QED
    BY <1>1, <2>2, <2>3, <2>4 DEF Fresh
<1>5. CASE Refresh(t)
  <2>1. CASE RefreshArrives(t)
    BY <2>1, FollowsLoop DEF RefreshArrives
  <2>2. CASE FinishArrives(t)
    <3>1. y.pc = "finishing" /\ Told(t)
      BY <2>2 DEF FinishArrives, Arrived, At, Told
    <3>2. seen[t] = version[r] /\ IsOver(r)
      BY <1>1, <3>1, KnownOver DEF Follows
    <3>3. Wanted(OfLoop(t), y.epoch) /\ OfLoop(t).run = r
      BY <1>1 DEF Wanted, OfLoop, Ticket
    <3>4. receipt' = ReceiptOf(r, seen[t])
      BY <1>5, <3>3 DEF Refresh, Answered, Take
    <3>5. IsOver(r)' /\ version'[r] = version[r]
      BY <3>2, OverStays
    <3>. QED
      BY <3>2, <3>4, <3>5 DEF ShowsFinal
  <2>. QED
    BY <1>5, <2>1, <2>2 DEF Refresh
<1>6. CASE LoseRequest(t)
  <2>1. LoseInLoop(t) /\ lost' = lost + 1
    BY <1>1, <1>6 DEF LoseRequest, Lose, LoseOther, At, Loops
  <2>2. /\ y.errors <= lost /\ y.errors \in Nat /\ lost \in Nat /\ MaxErrors \in Nat
    BY InTask DEF TaskRecs, PlainTasks, Plain, SessionInv, Page, SessionAssumption
  <2>3. Loop(t, y.errors + 1)
    BY <2>1, <2>2 DEF LoseInLoop, LoopError
  <2>. QED
    BY <2>3, FollowsLoop
<1>7. ~Load(t) /\ ~Sent(t)
  BY <1>1 DEF Load, LoadArrives, Sent, SendArrives, Arrived, At, Loops
<1>. QED
  BY <1>2, <1>3, <1>4, <1>5, <1>6, <1>7 DEF PageStep

\* Any other step leaves the loop alone.
LEMMA OthersLeaveLoops ==
  ASSUME SessionAssumption, SessionInv, EvidenceInv, [EvidenceNext]_evars, NEW t \in Tasks,
         task[t].pc \in Loops, ~Wake(t), ~PageStep(t)
  PROVE  task'[t] = task[t] /\ (seen'[t] = seen[t])
<1>1. CASE NewPage
  <2>1. Sends \subseteq Tasks
    BY DEF Tasks
  <2>. QED
    BY <1>1, <2>1, UserLeavesLoops DEF NewPage
<1>2. CASE SamePage
  <2>1. seen' = seen
    BY <1>2 DEF SamePage, KeepEvidence, evidence, requests
  <2>2. ASSUME NEW u \in Tasks, Retry(u) PROVE task'[t] = task[t]
    BY <2>2, UserLeavesLoops
  <2>3. ASSUME NEW u \in Tasks, Judge(u) \/ Wake(u) \/ ListArrives(u) PROVE task'[t] = task[t]
    <3>1. u # t
      BY <2>3 DEF Judge, ServeSend, ListArrives, Arrived, At, Loops
    <3>. QED
      BY <2>3, <3>1, OthersLeft DEF Judge, Arrives
  <2>4. ASSUME NEW a \in Agents, Select(a) PROVE task'[t] = task[t]
    BY <2>4, UserLeavesLoops
  <2>5. Render => task'[t] = task[t]
    BY UserLeavesLoops
  <2>6. Rest \/ (\E r \in Runs : RunEnds(r)) => task'[t] = task[t]
    BY DEF Rest, RunEnds, vars
  <2>. QED
    BY <1>2, <2>1, <2>2, <2>3, <2>4, <2>5, <2>6 DEF SamePage
<1>3. ASSUME NEW u \in Tasks, PageStep(u), u # t PROVE task'[t] = task[t] /\ seen'[t] = seen[t]
  <2>1. Serve(u) \/ Arrives(u) \/ Lose(u)
    BY <1>3 DEF PageStep, ServeRead, Load, Fetch, Refresh, Sent, LoseRequest, Arrives
  <2>2. \/ seen' = seen
        \/ seen' = [seen EXCEPT ![u] = version[task[u].run]]
    BY <1>3 DEF PageStep, ServeRead, Load, Fetch, Refresh, Sent, LoseRequest, Ask, requests
  <2>. QED
    BY <1>3, <2>1, <2>2, OthersLeft DEF EvidenceInv, EvidenceTypeOK
<1>4. ASSUME NEW p \in Proofs, ProofStep(p) PROVE task' = task /\ seen' = seen
  BY <1>4 DEF ProofStep, ServeProof, ProofArrives, ProofFails, vars
<1>5. CASE (\E r \in Runs : ReceiptChanges(r)) \/ UNCHANGED evars
  BY <1>5 DEF ReceiptChanges, evars, evidence, vars, requests
<1>6. CASE \E u \in Tasks : PageStep(u)
  BY <1>3, <1>6
<1>. QED
  BY <1>1, <1>2, <1>4, <1>5, <1>6 DEF EvidenceNext

\* A request that nobody awaits is made: for a Run that was loaded and is over, or for the
\* Run of a send.
Asks(t, r) ==
  /\ Ask(<<r, t>>)
  /\ \/ Load(t) /\ LoadIsWanted(t) /\ task[t].body.run = r /\ r # None /\ r \notin task[t].body.live
     \/ Sent(t) /\ Fresh(t) /\ ref = task[t].agent /\ task[t].run = r /\ task[t].body.run = r

LEMMA WhoAsks ==
  ASSUME SessionAssumption, SessionInv, [EvidenceNext]_evars, asked' # None
  PROVE  \/ asked' = asked /\ (proof' = proof \/ \E p \in Proofs : ProofStep(p))
         \/ \E t \in Tasks : /\ Fetch(t) /\ asked' = OfLoop(t) /\ proof' = proof
                             /\ task'[t].pc \in {"refreshing", "finishing"}
         \/ \E t \in Tasks, r \in Runs : Asks(t, r)
<1>1. ~NewPage
  BY DEF NewPage, Clear
<1>2. SamePage \/ UNCHANGED evars => asked' = asked /\ proof' = proof
  BY DEF SamePage, KeepEvidence, evidence, evars, requests
<1>3. (\E r \in Runs : ReceiptChanges(r)) => asked' = asked /\ proof' = proof
  BY DEF ReceiptChanges, requests
<1>4. ASSUME NEW p \in Proofs, ProofStep(p) PROVE asked' = asked
  BY <1>4 DEF ProofStep, ServeProof, ProofArrives, ProofFails
<1>5. ASSUME NEW t \in Tasks, PageStep(t)
      PROVE  \/ asked' = asked /\ proof' = proof
             \/ /\ Fetch(t) /\ asked' = OfLoop(t) /\ proof' = proof
                /\ task'[t].pc \in {"refreshing", "finishing"}
             \/ \E r \in Runs : Asks(t, r)
  <2>1. CASE ServeRead(t) \/ Refresh(t) \/ LoseRequest(t)
    BY <2>1 DEF ServeRead, Refresh, LoseRequest, requests
  <2>2. CASE Fetch(t)
    BY <2>2 DEF Fetch
  <2>3. CASE Load(t)
    <3>1. CASE UNCHANGED requests
      BY <3>1 DEF requests
    <3>2. CASE ~UNCHANGED requests
      <4>. DEFINE r == task[t].body.run
      <4>1. LoadIsWanted(t) /\ r # None /\ r \notin task[t].body.live /\ Ask(<<r, t>>)
        BY <2>3, <3>2 DEF Load
      <4>2. r \in Runs
        BY <2>3, <4>1, InTask DEF Load, LoadArrives, Arrived, Answers
      <4>. QED
        BY <2>3, <4>1, <4>2 DEF Asks
    <3>. QED
      BY <3>1, <3>2
  <2>4. CASE Sent(t)
    <3>1. CASE UNCHANGED requests
      BY <3>1 DEF requests
    <3>2. CASE ~UNCHANGED requests
      <4>. DEFINE r == task[t].run
      <4>1. Fresh(t) /\ ref = task[t].agent /\ task[t].body.run = r /\ Ask(<<r, t>>)
        BY <2>4, <3>2 DEF Sent
      <4>2. r \in Runs
        BY <2>4, InTask DEF Sent, SendArrives, Arrived, At, Fits, TaskRecs
      <4>. QED
        BY <2>4, <4>1, <4>2 DEF Asks
    <3>. QED
      BY <3>1, <3>2
  <2>. QED
    BY <1>5, <2>1, <2>2, <2>3, <2>4 DEF PageStep
<1>6. (\E t \in Tasks : PageStep(t)) => 
        \/ asked' = asked /\ proof' = proof
        \/ \E t \in Tasks : /\ Fetch(t) /\ asked' = OfLoop(t) /\ proof' = proof
                            /\ task'[t].pc \in {"refreshing", "finishing"}
        \/ \E t \in Tasks, r \in Runs : Asks(t, r)
  BY <1>5
<1>. QED
  BY <1>1, <1>2, <1>3, <1>4, <1>6 DEF EvidenceNext

LEMMA AwaitedStays ==
  ASSUME SessionAssumption, EvidenceAssumption, SessionInv, KnowledgeInv, EvidenceInv,
         PlainTasks, AwaitedIsFinal, [EvidenceNext]_evars
  PROVE  AwaitedIsFinal'
<1>. SUFFICES ASSUME NEW t \in Tasks, NEW r \in Runs, asked' = Ticket(r, t, TRUE),
                     ref' = effectFor', lost' < MaxErrors
              PROVE  Follows(t, r)' \/ ShowsFinal(r)'
  BY DEF AwaitedIsFinal, Ticket
<1>1. asked' # None /\ asked'.run = r
  BY TicketsAreSome DEF Ticket
<1>2. ref' = ref /\ effectFor' = effectFor /\ epoch' = epoch /\ ref = effectFor
  BY <1>1, PageStays
<1>3. lost < MaxErrors
  <2>1. lost' >= lost /\ lost' \in Nat
    BY EvidenceSteps, TasksAdvance
  <2>2. lost \in Nat /\ MaxErrors \in Nat
    BY DEF SessionInv, Page, SessionAssumption
  <2>. QED
    BY <2>1, <2>2
<1>4. CASE asked' = asked
  <2>1. asked = Ticket(r, t, TRUE)
    BY <1>4
  <2>2. Follows(t, r) \/ ShowsFinal(r)
    BY <1>2, <1>3, <2>1 DEF AwaitedIsFinal
  <2>3. CASE ShowsFinal(r)
    BY <1>1, <1>4, <2>3, FinalStays
  <2>4. CASE Follows(t, r) /\ (Wake(t) \/ PageStep(t))
    BY <1>2, <2>1, <2>4, FollowsOwn
  <2>5. CASE Follows(t, r) /\ ~Wake(t) /\ ~PageStep(t)
    <3>1. task'[t] = task[t] /\ seen'[t] = seen[t]
      BY <2>5, OthersLeaveLoops DEF Follows, Polls
    <3>. QED
      BY <1>2, <2>5, <3>1, FollowsUntouched
  <2>. QED
    BY <2>2, <2>3, <2>4, <2>5
<1>5. ASSUME NEW u \in Tasks, Fetch(u), asked' = OfLoop(u),
             task'[u].pc \in {"refreshing", "finishing"}
      PROVE  Follows(t, r)'
  <2>. DEFINE y == task[u]
              next == IF y.run \in y.body.live THEN "refreshing" ELSE "finishing"
  <2>1. u = t /\ y.run = r
    BY <1>5 DEF OfLoop, Ticket
  <2>2. Continues(u) /\ task'[u] = Task(next, y.agent, y.run, y.epoch, y.errors, None)
    BY <1>5, FetchBranches DEF Fetch
  <2>3. next \in Loops
    BY DEF Loops
  <2>. HIDE DEF next
  <2>4. /\ task'[u].pc \in Loops /\ task'[u].run = r /\ task'[u].body = None
        /\ task'[u].epoch = y.epoch /\ task'[u].agent = y.agent
    BY <2>1, <2>2, <2>3 DEF Task
  <2>. QED
    BY <1>2, <2>1, <2>2, <2>4 DEF Follows, Polls, Continues, Told
<1>6. ASSUME NEW u \in Tasks, NEW s \in Runs, Asks(u, s) PROVE FALSE
  BY <1>6 DEF Asks, Ask, Ticket
<1>. QED
  BY <1>1, <1>4, <1>5, <1>6, WhoAsks

-----------------------------------------------------------------------------
(* A request that nobody awaits, for a Run that is over, brings the final Receipt. *)

\* A Run that a send has asked for is not shown as over before somebody asks again.
LEMMA AskedForStays ==
  ASSUME SessionAssumption, SessionInv, KnowledgeInv, PlainTasks, [EvidenceNext]_evars,
         NEW t \in Tasks, NEW r \in Runs, <<r, t>> \in Proofs,
         asked = Ticket(r, t, FALSE), asked' = asked, asked # None,
         t \in Sends => task[t].pc \notin {"idle", "sending"},
         AskedForOver(t, r)'
  PROVE  AskedForOver(t, r)
<1>. SUFFICES ASSUME t \in Sends PROVE AskedForOver(t, r)
  BY DEF AskedForOver
<1>1. t = <<"send", r>> /\ task[t].pc \notin {"idle", "sending"}
  BY DEF Proofs, Sends
<1>2. CASE task'[t].pc = "relisting" /\ task'[t].run = r
  <2>1. Onward(t, task[t], task'[t]) /\ r # None
    BY EvidenceSteps, TasksAdvance DEF Advance, SessionAssumption
  <2>. QED
    BY <1>1, <1>2, <2>1 DEF Onward, AskedForOver
<1>3. CASE activeRun' # None /\ activeRun'.id = r /\ ~activeRun'.live /\ activeRun' = activeRun
  BY <1>3 DEF AskedForOver
<1>4. CASE OverShown /\ activeRun'.id = r /\ activeRun' # activeRun
  <2>1. ASSUME NEW u \in Tasks, Load(u) PROVE FALSE
    <3>1. PICK s \in Runs :
            /\ activeRun' = Shown(s, FALSE)
            /\ task[u].body.run = s /\ s \notin task[u].body.live /\ LoadIsWanted(u)
      BY <1>4, <2>1, LoadShows DEF Load
    <3>2. Ask(<<s, u>>) /\ u \in Loads
      BY <2>1, <3>1, InTask DEF Load, LoadArrives, Arrived, At, Fits, SessionAssumption
    <3>3. u = t
      BY <3>2 DEF Ask, Ticket
    <3>. QED
      BY <3>2, <3>3, Kinds
  <2>2. ASSUME NEW u \in Tasks, Fetch(u) PROVE FALSE
    <3>1. task'[u].pc = "finishing"
      BY <1>4, <2>2, FetchShows DEF Fetch
    <3>2. asked' = OfLoop(u)
      BY <2>2, <3>1 DEF Fetch
    <3>. QED
      BY <3>2 DEF OfLoop, Ticket
  <2>3. ASSUME NEW u \in Tasks, Sent(u) PROVE FALSE
    <3>1. task[u].pc = "sending" /\ u = <<"send", r>>
      BY <1>4, <2>3, SendShows DEF Sent, Shown
    <3>. QED
      BY <1>1, <3>1
  <2>4. ASSUME NEW u \in Tasks, ListArrives(u) PROVE AskedForOver(t, r)
    <3>1. task[u].pc = "relisting" /\ u = <<"send", r>> /\ task[u].run = r
      BY <1>4, <2>4, ListShows DEF Shown
    <3>. QED
      BY <1>1, <3>1 DEF AskedForOver
  <2>5. ASSUME NEW u \in Tasks, ServeRead(u) \/ Refresh(u) \/ LoseRequest(u) PROVE FALSE
    BY <1>4, <2>5, OthersShow DEF ServeRead, Refresh, LoseRequest
  <2>6. ~NewPage
    BY DEF NewPage, Clear
  <2>7. SamePage => \E u \in Tasks : ListArrives(u)
    BY <1>4, OthersShow DEF SamePage, Judge
  <2>8. ASSUME NEW p \in Proofs, ProofStep(p) PROVE FALSE
    BY <1>4, <2>8 DEF ProofStep, ServeProof, ProofArrives, ProofFails, vars, run
  <2>9. ~(\E s \in Runs : ReceiptChanges(s)) /\ ~UNCHANGED evars
    BY <1>4 DEF ReceiptChanges, evars, vars, run
  <2>. QED
    BY <2>1, <2>2, <2>3, <2>4, <2>5, <2>6, <2>7, <2>8, <2>9 DEF EvidenceNext, PageStep
<1>. QED
  BY <1>2, <1>3, <1>4 DEF AskedForOver, OverShown

\* A request that is made.
LEMMA AskedAnew ==
  ASSUME SessionAssumption, EvidenceAssumption, SessionInv, KnowledgeInv, EvidenceInv,
         PlainTasks, [EvidenceNext]_evars, NEW t \in Tasks, NEW r \in Runs, Asks(t, r)
  PROVE  /\ <<r, t>> \in Proofs
         /\ t \in Sends => task'[t].pc \notin {"idle", "sending"}
         /\ AskedForOver(t, r)' => OnItsWay(<<r, t>>)'
<1>. DEFINE p == <<r, t>>
<1>1. /\ proof' = [proof EXCEPT ![p] = [pc |-> "out", epoch |-> epoch, version |-> 0]]
      /\ epoch' = epoch
  BY DEF Asks, Ask, Load, LoadArrives, Sent, SendArrives, identity
<1>2. ASSUME p \in Proofs, IsOver(r) PROVE OnItsWay(p)'
  <2>1. proof'[p] = [pc |-> "out", epoch |-> epoch, version |-> 0]
    BY <1>1, <1>2 DEF EvidenceInv, EvidenceTypeOK
  <2>2. IsOver(r)'
    BY <1>2, OverStays
  <2>. QED
    BY <1>1, <2>1, <2>2 DEF OnItsWay, IsOver, Reached
<1>3. CASE /\ Load(t) /\ LoadIsWanted(t) /\ task[t].body.run = r /\ r # None
           /\ r \notin task[t].body.live
  <2>1. t \in Loads /\ task[t].body # None
    BY <1>3, InTask DEF Load, LoadArrives, Arrived, At, Fits
  <2>2. t \notin Sends
    BY <2>1, Kinds
  <2>3. p \in Proofs
    BY <2>2 DEF Proofs
  <2>. QED
    BY <1>2, <1>3, <2>1, <2>2, <2>3, ToldOver
<1>4. CASE Sent(t) /\ Fresh(t) /\ ref = task[t].agent /\ task[t].run = r /\ task[t].body.run = r
  <2>1. t = <<"send", r>> /\ task[t].body # None
    BY <1>4, InTask DEF Sent, SendArrives, Arrived, At, Fits
  <2>2. p \in Proofs
    BY <2>1 DEF Proofs
  <2>3. t \in Sends
    BY <2>1 DEF Tasks, Sends, Loads, Lists, Retries
  <2>4. CASE Accepted(t)
    <3>1. activeRun' = Shown(r, TRUE) /\ StartPoll(t, task[t].agent, r)
      BY <1>4, <2>4 DEF Accepted
    <3>2. task'[t] \in {Task("waiting", task[t].agent, r, epoch, 0, None), Done}
      BY <2>3, <3>1 DEF StartPoll, Over, SessionInv, TasksFit
    <3>3. task'[t].pc \in {"waiting", "done"}
      BY <3>2 DEF Task, Done
    <3>4. ~AskedForOver(t, r)'
      BY <2>3, <3>1, <3>3 DEF AskedForOver, Shown
    <3>. QED
      BY <2>2, <3>3, <3>4
  <2>5. CASE r \notin task[t].body.live /\ NotAccepted(t, r)
    <3>1. task'[t] = Task("relisting", task[t].agent, r, epoch, 0, None)
      BY <2>5 DEF NotAccepted, SessionInv, TasksFit
    <3>2. task'[t].pc = "relisting"
      BY <3>1 DEF Task
    <3>. QED
      BY <1>2, <1>4, <2>1, <2>2, <2>5, <3>2, ToldOver
  <2>. QED
    BY <1>4, <2>4, <2>5 DEF Sent, SendArrives
<1>. QED
  BY <1>3, <1>4 DEF Asks

\* A request that is on its way stays so, or brings the final Receipt, unless it fails.
LEMMA OnItsWayStays ==
  ASSUME SessionAssumption, EvidenceAssumption, SessionInv, KnowledgeInv, EvidenceInv,
         PlainTasks, [EvidenceNext]_evars, NEW p \in Proofs, OnItsWay(p),
         asked = Ticket(p[1], p[2], FALSE), asked' = asked, ref = effectFor, epoch' = epoch,
         lost' = 0, proof' = proof \/ \E q \in Proofs : ProofStep(q)
  PROVE  OnItsWay(p)' \/ ShowsFinal(p[1])'
<1>1. /\ p[1] \in Runs /\ p[2] \in Tasks /\ IsOver(p[1])'
      /\ version'[p[1]] = version[p[1]]
  BY ProofParts, OverStays DEF OnItsWay
<1>2. CASE proof'[p] = proof[p]
  BY <1>1, <1>2 DEF OnItsWay, IsOver, Reached
<1>3. CASE ServeProof(p)
  <2>1. proof'[p].pc = "served" /\ proof'[p].epoch = proof[p].epoch
        /\ proof'[p].version = version[p[1]]
    BY <1>3 DEF ServeProof, EvidenceInv, EvidenceTypeOK
  <2>. QED
    BY <1>1, <2>1 DEF OnItsWay, IsOver, Reached
<1>4. CASE ProofArrives(p)
  <2>1. proof[p].pc = "served" /\ proof[p].epoch = epoch /\ proof[p].version = version[p[1]]
    BY <1>4 DEF ProofArrives, OnItsWay
  <2>2. asked.run = p[1] /\ asked # None
    BY <1>1, TicketsAreSome DEF Ticket
  <2>3. AgentOf[p[1]] = ref
    BY <2>2 DEF EvidenceInv, EvidencePage
  <2>4. receipt' = ReceiptOf(p[1], version[p[1]])
    BY <1>4, <2>1, <2>2, <2>3 DEF ProofArrives, Answered, Wanted, Take
  <2>. QED
    BY <1>1, <2>4 DEF ShowsFinal, IsOver, Reached
<1>5. CASE ProofFails(p)
  <2>1. lost' = lost + 1 /\ lost \in Nat
    BY <1>5 DEF ProofFails, SessionInv, Page
  <2>. QED
    BY <2>1
<1>6. ASSUME NEW q \in Proofs, ProofStep(q), q # p PROVE proof'[p] = proof[p]
  BY <1>6 DEF ProofStep, ServeProof, ProofArrives, ProofFails, EvidenceInv, EvidenceTypeOK
<1>. QED
  BY <1>2, <1>3, <1>4, <1>5, <1>6 DEF ProofStep

LEMMA UnawaitedStays ==
  ASSUME SessionAssumption, EvidenceAssumption, SessionInv, KnowledgeInv, EvidenceInv,
         PlainTasks, UnawaitedIsFinal, [EvidenceNext]_evars
  PROVE  UnawaitedIsFinal'
<1>. SUFFICES ASSUME NEW t \in Tasks, NEW r \in Runs, asked' = Ticket(r, t, FALSE)
              PROVE  /\ <<r, t>> \in Proofs
                     /\ t \in Sends => task'[t].pc \notin {"idle", "sending"}
                     /\ ref' = effectFor' /\ lost' = 0 /\ AskedForOver(t, r)' =>
                          ShowsFinal(r)' \/ OnItsWay(<<r, t>>)'
  BY DEF UnawaitedIsFinal, Ticket
<1>1. asked' # None /\ asked'.run = r
  BY TicketsAreSome DEF Ticket
<1>2. ASSUME NEW u \in Tasks, NEW s \in Runs, Asks(u, s) PROVE u = t /\ s = r
  BY <1>2 DEF Asks, Ask, Ticket
<1>3. CASE \E u \in Tasks, s \in Runs : Asks(u, s)
  BY <1>2, <1>3, AskedAnew
<1>4. ASSUME NEW u \in Tasks, asked' = OfLoop(u) PROVE FALSE
  BY <1>4 DEF OfLoop, Ticket
<1>5. CASE asked' = asked /\ (proof' = proof \/ \E p \in Proofs : ProofStep(p))
  <2>1. asked = Ticket(r, t, FALSE) /\ asked # None /\ asked.run = r
    BY <1>1, <1>5
  <2>2. <<r, t>> \in Proofs /\ (t \in Sends => task[t].pc \notin {"idle", "sending"})
    BY <2>1 DEF UnawaitedIsFinal
  <2>3. t \in Sends => task'[t].pc \notin {"idle", "sending"}
    <3>1. Onward(t, task[t], task'[t])
      BY EvidenceSteps, TasksAdvance DEF Advance
    <3>. QED
      BY <2>2, <3>1 DEF Onward
  <2>4. ASSUME ref' = effectFor', lost' = 0, AskedForOver(t, r)'
        PROVE  ShowsFinal(r)' \/ OnItsWay(<<r, t>>)'
    <3>1. ref = effectFor /\ epoch' = epoch
      BY <1>1, <2>4, PageStays
    <3>2. lost = 0
      <4>1. lost' >= lost /\ lost \in Nat
        BY EvidenceSteps, TasksAdvance DEF SessionInv, Page
      <4>. QED
        BY <2>4, <4>1
    <3>3. AskedForOver(t, r)
      BY <1>5, <2>1, <2>2, <2>4, AskedForStays
    <3>4. ShowsFinal(r) \/ OnItsWay(<<r, t>>)
      BY <2>1, <3>1, <3>2, <3>3 DEF UnawaitedIsFinal
    <3>5. CASE ShowsFinal(r)
      BY <1>5, <2>1, <3>5, FinalStays
    <3>6. CASE OnItsWay(<<r, t>>)
      <4>. DEFINE p == <<r, t>>
      <4>1. p \in Proofs /\ p[1] = r /\ p[2] = t /\ OnItsWay(p)
        BY <2>2, <3>6
      <4>2. asked = Ticket(p[1], p[2], FALSE)
        BY <2>1, <4>1
      <4>. HIDE DEF p
      <4>3. OnItsWay(p)' \/ ShowsFinal(p[1])'
        BY <1>5, <2>4, <3>1, <4>1, <4>2, OnItsWayStays
      <4>. QED
        BY <4>1, <4>3 DEF p
    <3>. QED
      BY <3>4, <3>5, <3>6
  <2>. QED
    BY <2>2, <2>3, <2>4
<1>. QED
  BY <1>1, <1>3, <1>4, <1>5, WhoAsks

LEMMA FinalInitial ==
  ASSUME SessionAssumption, Init, EvidenceInit
  PROVE  FinalInv
<1>1. PlainTasks
  BY DEF Init, PlainTasks, Plain, Idle, Task
<1>2. ShownIsOver /\ AwaitedIsFinal /\ UnawaitedIsFinal
  <2>1. activeRun = None /\ asked = None
    BY DEF Init, EvidenceInit
  <2>2. \A t \in Tasks, r \in Runs, b \in BOOLEAN : Ticket(r, t, b) # None
    BY TicketsAreSome, EvidenceAssumption
  <2>. QED
    BY <2>1, <2>2 DEF ShownIsOver, AwaitedIsFinal, UnawaitedIsFinal
<1>. QED
  BY <1>1, <1>2 DEF FinalInv

LEMMA FinalInductive ==
  ASSUME SessionAssumption, EvidenceAssumption, SessionInv, KnowledgeInv, EvidenceInv,
         FinalInv, [EvidenceNext]_evars
  PROVE  FinalInv'
<1>1. PlainTasks'
  BY EvidenceSteps, TasksAdvance DEF FinalInv, Advance, PlainTasks, Plain
<1>. QED
  BY <1>1, ShownStaysOver, AwaitedStays, UnawaitedStays DEF FinalInv

\* The invariants of the session, of the evidence, and of how the final Receipt of a Run
\* that is over gets to the page.
THEOREM FinalInvCorrect ==
  EvidenceSpec => [](SessionInv /\ KnowledgeInv /\ EvidenceInv /\ FinalInv)
<1>1. Init /\ EvidenceInit => FinalInv
  BY SessionAssumption, FinalInitial
<1>2. SessionInv /\ KnowledgeInv /\ EvidenceInv /\ FinalInv /\ [EvidenceNext]_evars => FinalInv'
  BY SessionAssumption, EvidenceAssumption, FinalInductive
<1>. QED
  BY <1>1, <1>2, EvidenceInvCorrect, PTL DEF EvidenceSpec

\* Once nothing is on its way, the Receipt that is shown beside a Run that is over is its
\* final one, if the page has last asked for the Receipt of that Run and no request has
\* failed that nobody would repeat.
THEOREM FinalReceiptIsShown == EvidenceSpec => []FinalEvidenceIsShown
<1>1. SessionInv /\ EvidenceInv /\ FinalInv => FinalEvidenceIsShown
  <2>. SUFFICES ASSUME SessionInv, EvidenceInv, FinalInv,
                       AtRest, activeRun # None, ~activeRun.live,
                       asked # None, asked.run = activeRun.id,
                       IF asked.awaited THEN lost < MaxErrors ELSE lost = 0
                PROVE  receipt = ReceiptOf(activeRun.id, version[activeRun.id])
    BY DEF FinalEvidenceIsShown
  <2>. DEFINE r == asked.run
              t == asked.task
  <2>1. /\ asked \in Tickets /\ r \in Runs /\ t \in Tasks /\ asked.awaited \in BOOLEAN
        /\ asked = Ticket(r, t, asked.awaited)
    BY DEF EvidenceInv, EvidenceTypeOK, Tickets, Ticket
  <2>2. ref = effectFor /\ task[t].pc \in {"idle", "done"}
    BY <2>1 DEF AtRest
  <2>3. CASE asked.awaited
    <3>1. asked = Ticket(r, t, TRUE) /\ lost < MaxErrors
      BY <2>1, <2>3
    <3>2. ~Follows(t, r)
      BY <2>2 DEF Follows, Polls, Loops
    <3>. HIDE DEF r, t
    <3>3. ShowsFinal(r)
      BY <2>1, <2>2, <3>1, <3>2 DEF FinalInv, AwaitedIsFinal
    <3>. QED
      BY <3>3 DEF ShowsFinal, r
  <2>4. CASE ~asked.awaited
    <3>1. asked = Ticket(r, t, FALSE) /\ lost = 0
      <4>1. asked.awaited = FALSE
        BY <2>1, <2>4
      <4>. HIDE DEF r, t
      <4>. QED
        BY <2>1, <2>4, <4>1
    <3>2. AskedForOver(t, r)
      BY DEF AskedForOver
    <3>. HIDE DEF r, t
    <3>3. <<r, t>> \in Proofs /\ (ShowsFinal(r) \/ OnItsWay(<<r, t>>))
      BY <2>1, <2>2, <3>1, <3>2 DEF FinalInv, UnawaitedIsFinal
    <3>4. ~OnItsWay(<<r, t>>)
      BY <3>3 DEF OnItsWay, AtRest
    <3>. QED
      BY <3>3, <3>4 DEF ShowsFinal, r
  <2>. QED
    BY <2>1, <2>3, <2>4
<1>. QED
  BY <1>1, FinalInvCorrect, PTL
=============================================================================
