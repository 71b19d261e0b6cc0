---------------------------- MODULE RunnerProofs ----------------------------
(***************************************************************************)
(* Proofs about RunnerProcess, for any numbers of Agents, calls, cancels,  *)
(* faults and deaths of the server.                                        *)
(*                                                                         *)
(* The argument: the registry holds exactly the calls in progress          *)
(* (Registered), so two of them never name one Agent.  A child outlives    *)
(* its call only when the server dies (ChildrenEnd), and a removal is only *)
(* ever that of a call that has had a child.  Who is awaited by a cancel   *)
(* has its flag set until its verdict is given (Awaited).  A container     *)
(* outlives its client only when the client was killed after a failed      *)
(* removal, or has lost its server (Traced).                               *)
(***************************************************************************)
EXTENDS RunnerProperties, TLAPS

Outcomes ==
  {"none", "refused", "unstarted", "cancelled", "timedOut", "exceeded", "good", "bad", "lost"}

RunnerTypeOK ==
  /\ isolated \in BOOLEAN
  /\ active \in [Agents -> Calls \cup {None}] /\ container \in [Agents -> Calls \cup {None}]
  /\ cancelled \subseteq Calls /\ timedOut \subseteq Calls /\ exceeded \subseteq Calls
  /\ timeout \subseteq Calls /\ forceKill \subseteq Calls
  /\ signalled \subseteq Calls /\ started \subseteq Calls
  /\ removal \in [Calls -> {"none", "running", "done", "failed"}]
  /\ outcome \in [Calls -> Outcomes]
  /\ child \in [Calls -> {"none", "alive", "gone", "closed", "unstarted"}]
  /\ exit \in [Calls -> {"none", "good", "bad"}]
  /\ pc \in [Cancels -> {"new", "removing", "settling", "true", "false", "lost"}]
  /\ target \in [Cancels -> Calls \cup {None}]
  /\ faults \in 0..MaxFaults /\ crashes \in 0..MaxCrashes

\* The registry holds the calls that are in progress, each for its Agent.
Registered ==
  /\ \A c \in Calls : Lost(c) <=> active[AgentOf[c]] = c
  /\ \A a \in Agents : active[a] # None => AgentOf[active[a]] = a

\* What is known of a call that never had a child, and of one that has ended.
ChildrenEnd ==
  \A c \in Calls :
    /\ child[c] = "none" =>
         outcome[c] \in {"none", "refused"} /\ removal[c] = "none" /\ c \notin timeout
    /\ child[c] # "none" => outcome[c] # "refused"
    /\ Ended(c) /\ child[c] # "none" => Settled(c) \/ Orphan(c)
    /\ Orphan(c) => crashes > 0
    /\ child[c] \in {"gone", "closed"} => exit[c] # "none"

\* The call that a cancel has found is flagged until it ends.
Awaited ==
  \A k \in Cancels : pc[k] \in {"removing", "settling", "true"} =>
    /\ target[k] \in Calls /\ child[target[k]] # "none"
    /\ ~Ended(target[k]) => target[k] \in cancelled
    /\ outcome[target[k]] \in {"none", "cancelled", "unstarted", "lost"}

RunnerInv == RunnerTypeOK /\ Registered /\ ChildrenEnd /\ Awaited

\* A container has the name of its call's Agent.
Named == \A a \in Agents : container[a] # None => AgentOf[container[a]] = a

LEMMA RunnerInitial == ASSUME RunnerAssumption, Init PROVE RunnerInv
<1>1. RunnerTypeOK
  BY DEF RunnerAssumption, Init, RunnerTypeOK, Outcomes
<1>2. Registered /\ ChildrenEnd /\ Awaited
  BY DEF RunnerAssumption, Init, Registered, ChildrenEnd, Awaited, Lost, Ended, Orphan
<1>. QED
  BY <1>1, <1>2 DEF RunnerInv

-----------------------------------------------------------------------------
(* Types *)

LEMMA TypesOfCalls ==
  ASSUME RunnerAssumption, RunnerTypeOK, NEW c \in Calls,
         \/ Run(c) \/ RunRefused(c) \/ End(c) \/ SpawnFails(c) \/ Close(c) \/ ForceKill(c)
         \/ Timeout(c) \/ OutputExceeds(c)
  PROVE  RunnerTypeOK'
<1>. USE DEF RunnerAssumption, RunnerTypeOK
<1>1. CASE Run(c)
  BY <1>1 DEF Run, outside, world, registry, killers, cancels
<1>2. CASE RunRefused(c)
  BY <1>2 DEF RunRefused, registry, killers, cancels, outside, world, Outcomes
<1>3. CASE End(c)
  <2>1. Verdict(c) \in Outcomes
    BY DEF Verdict, Outcomes
  <2>. QED
    BY <1>3, <2>1 DEF End, cancels, outside, world
<1>4. CASE SpawnFails(c) \/ Close(c)
  BY <1>4 DEF SpawnFails, Close, registry, killers, cancels, world
<1>5. CASE ForceKill(c)
  BY <1>5 DEF ForceKill, registry, cancels, world
<1>6. CASE Timeout(c) \/ OutputExceeds(c)
  BY <1>6 DEF Timeout, OutputExceeds, Terminate, StartRemoval, SendSignals, Signal, cancels,
     outside, world
<1>. QED
  BY <1>1, <1>2, <1>3, <1>4, <1>5, <1>6

LEMMA TypesOfTheEngine ==
  ASSUME RunnerAssumption, RunnerTypeOK, NEW c \in Calls,
         \/ RemovalSucceeds(c) \/ RemovalFails(c) \/ ContainerStarts(c) \/ CodexEnds(c)
         \/ CodexEndsAlone(c) \/ ClientEnds(c) \/ OrphanEnds(c)
  PROVE  RunnerTypeOK'
<1>. USE DEF RunnerAssumption, RunnerTypeOK
<1>1. CASE RemovalSucceeds(c)
  BY <1>1 DEF RemovalSucceeds, registry, cancels, world
<1>2. CASE RemovalFails(c)
  BY <1>2 DEF RemovalFails, Signal, registry, cancels
<1>3. CASE ContainerStarts(c)
  BY <1>3 DEF ContainerStarts, registry, killers, cancels, world
<1>4. CASE CodexEnds(c)
  BY <1>4 DEF CodexEnds, Ends, registry, killers, cancels, world
<1>5. CASE CodexEndsAlone(c)
  BY <1>5 DEF CodexEndsAlone, registry, killers, cancels, world
<1>6. CASE ClientEnds(c) \/ OrphanEnds(c)
  BY <1>6 DEF ClientEnds, OrphanEnds, Ends, registry, killers, cancels, world
<1>. QED
  BY <1>1, <1>2, <1>3, <1>4, <1>5, <1>6

LEMMA TypesOfCancels ==
  ASSUME RunnerAssumption, RunnerTypeOK,
         \/ \E k \in Cancels :
              CancelNothing(k) \/ Cancel(k) \/ CancelRemoved(k) \/ CancelReturns(k)
         \/ Crash
  PROVE  RunnerTypeOK'
<1>. USE DEF RunnerAssumption, RunnerTypeOK
<1>1. ASSUME NEW k \in Cancels, CancelNothing(k) \/ CancelRemoved(k) \/ CancelReturns(k)
      PROVE  RunnerTypeOK'
  BY <1>1 DEF CancelNothing, CancelRemoved, CancelReturns, registry, killers, outside, world
<1>2. ASSUME NEW k \in Cancels, Cancel(k) PROVE RunnerTypeOK'
  <2>1. active[AgentOf[k]] \in Calls
    BY <1>2 DEF Cancel
  <2>. QED
    BY <1>2, <2>1 DEF Cancel, Terminate, StartRemoval, SendSignals, Signal, outside, world
<1>3. CASE Crash
  BY <1>3 DEF Crash, outside, Outcomes
<1>. QED
  BY <1>1, <1>2, <1>3

-----------------------------------------------------------------------------
(* Calls in progress *)

\* Steps that neither begin nor end a call, and flag no other.
LEMMA InProgressStays ==
  ASSUME RunnerAssumption, RunnerInv, RunnerTypeOK',
         UNCHANGED <<active, outcome, pc, target, cancelled, crashes>>, timeout' \subseteq timeout,
         \A c \in Calls :
           /\ child'[c] = "none" <=> child[c] = "none"
           /\ child[c] = "none" => removal'[c] = removal[c]
           /\ Settled(c) => child'[c] = child[c]
           /\ child'[c] \in {"gone", "closed"} => exit'[c] # "none"
  PROVE  RunnerInv'
<1>1. Registered'
  BY DEF RunnerInv, Registered, Lost
<1>2. ChildrenEnd'
  BY DEF RunnerInv, ChildrenEnd, Ended, Settled, Orphan
<1>3. Awaited'
  BY DEF RunnerInv, Awaited, Ended
<1>. QED
  BY <1>1, <1>2, <1>3 DEF RunnerInv

LEMMA TerminateKeeps ==
  ASSUME RunnerAssumption, RunnerInv, NEW c \in Calls, Timeout(c) \/ OutputExceeds(c)
  PROVE  RunnerInv'
<1>1. RunnerTypeOK'
  BY TypesOfCalls DEF RunnerInv
<1>2. /\ UNCHANGED <<active, outcome, pc, target, cancelled, crashes>>
      /\ timeout' \subseteq timeout /\ child' = child /\ exit' = exit
  BY DEF Timeout, OutputExceeds, cancels, outside, world
<1>3. child[c] # "none"
  BY DEF Timeout, OutputExceeds, RunnerInv, ChildrenEnd
<1>4. \A d \in Calls : d # c => removal'[d] = removal[d]
  BY DEF Timeout, OutputExceeds, Terminate, StartRemoval, SendSignals, RunnerInv, RunnerTypeOK
<1>. QED
  BY <1>1, <1>2, <1>3, <1>4, InProgressStays DEF RunnerInv, ChildrenEnd

LEMMA ChildKeeps ==
  ASSUME RunnerAssumption, RunnerInv, NEW c \in Calls,
         \/ SpawnFails(c) \/ Close(c) \/ ForceKill(c) \/ ContainerStarts(c) \/ CodexEnds(c)
         \/ CodexEndsAlone(c) \/ ClientEnds(c) \/ OrphanEnds(c)
  PROVE  RunnerInv'
<1>1. RunnerTypeOK'
  BY TypesOfCalls, TypesOfTheEngine DEF RunnerInv
<1>2. /\ UNCHANGED <<active, outcome, pc, target, cancelled, crashes>>
      /\ timeout' = timeout /\ removal' = removal
  BY DEF SpawnFails, Close, ForceKill, ContainerStarts, CodexEnds, CodexEndsAlone, ClientEnds,
     OrphanEnds, Ends, registry, killers, cancels, world
<1>3. \/ child' = child /\ exit' = exit
      \/ \E new \in {"gone", "closed", "unstarted"}, how \in {"good", "bad"} :
           /\ child[c] \in {"alive", "gone"} /\ child' = [child EXCEPT ![c] = new]
           /\ \/ exit' = [exit EXCEPT ![c] = how]
              \/ exit' = exit /\ (new = "closed" => child[c] = "gone") /\ new # "gone"
  BY DEF SpawnFails, Close, ForceKill, ContainerStarts, CodexEnds, CodexEndsAlone, ClientEnds,
     OrphanEnds, Ends
<1>4. \A d \in Calls :
        /\ child'[d] = "none" <=> child[d] = "none"
        /\ Settled(d) => child'[d] = child[d]
        /\ child'[d] \in {"gone", "closed"} => exit'[d] # "none"
  BY <1>3 DEF RunnerInv, RunnerTypeOK, ChildrenEnd, Settled
<1>. QED
  BY <1>1, <1>2, <1>4, InProgressStays

LEMMA RemovalKeeps ==
  ASSUME RunnerAssumption, RunnerInv, NEW c \in Calls, RemovalSucceeds(c) \/ RemovalFails(c)
  PROVE  RunnerInv'
<1>1. RunnerTypeOK'
  BY TypesOfTheEngine DEF RunnerInv
<1>2. /\ UNCHANGED <<active, outcome, pc, target, cancelled, crashes>>
      /\ timeout' = timeout /\ child' = child /\ exit' = exit /\ removal[c] = "running"
      /\ \A d \in Calls : d # c => removal'[d] = removal[d]
  BY DEF RemovalSucceeds, RemovalFails, registry, cancels, world, RunnerInv, RunnerTypeOK
<1>3. child[c] # "none"
  BY <1>2 DEF RunnerInv, ChildrenEnd
<1>. QED
  BY <1>1, <1>2, <1>3, InProgressStays DEF RunnerInv, ChildrenEnd

-----------------------------------------------------------------------------
(* Calls begin and end *)

LEMMA RunKeeps ==
  ASSUME RunnerAssumption, RunnerInv, NEW c \in Calls, Run(c)
  PROVE  RunnerInv'
<1>. USE DEF RunnerAssumption, RunnerInv, RunnerTypeOK
<1>1. RunnerTypeOK'
  BY TypesOfCalls
<1>2. /\ child[c] = "none" /\ outcome[c] = "none" /\ active[AgentOf[c]] = None
      /\ active' = [active EXCEPT ![AgentOf[c]] = c]
      /\ child' = [child EXCEPT ![c] = "alive"] /\ timeout' = timeout \cup {c}
      /\ outcome' = outcome /\ removal' = removal /\ exit' = exit /\ cancelled' = cancelled
      /\ pc' = pc /\ target' = target /\ crashes' = crashes
  BY DEF Run, cancels, world
<1>3. Registered'
  BY <1>2 DEF Registered, Lost
<1>4. ChildrenEnd'
  BY <1>2 DEF ChildrenEnd, Ended, Settled, Orphan
<1>5. Awaited'
  BY <1>2 DEF Awaited, Ended
<1>. QED
  BY <1>1, <1>3, <1>4, <1>5

LEMMA RefusedKeeps ==
  ASSUME RunnerAssumption, RunnerInv, NEW c \in Calls, RunRefused(c)
  PROVE  RunnerInv'
<1>. USE DEF RunnerAssumption, RunnerInv, RunnerTypeOK
<1>1. RunnerTypeOK'
  BY TypesOfCalls
<1>2. /\ child[c] = "none" /\ outcome[c] = "none"
      /\ outcome' = [outcome EXCEPT ![c] = "refused"]
      /\ child' = child /\ active' = active /\ timeout' = timeout
      /\ removal' = removal /\ exit' = exit /\ cancelled' = cancelled
      /\ pc' = pc /\ target' = target /\ crashes' = crashes
  BY DEF RunRefused, registry, killers, cancels, outside, world
<1>3. Registered'
  BY <1>2 DEF Registered, Lost
<1>4. ChildrenEnd'
  BY <1>2 DEF ChildrenEnd, Ended, Settled, Orphan
<1>5. Awaited'
  BY <1>2 DEF Awaited, Ended
<1>. QED
  BY <1>1, <1>3, <1>4, <1>5

\* A call that has been cancelled says so.
LEMMA EndKeeps ==
  ASSUME RunnerAssumption, RunnerInv, NEW c \in Calls, End(c)
  PROVE  RunnerInv'
<1>. USE DEF RunnerAssumption, RunnerInv, RunnerTypeOK
<1>1. RunnerTypeOK'
  BY TypesOfCalls
<1>2. /\ outcome[c] = "none" /\ Settled(c)
      /\ outcome' = [outcome EXCEPT ![c] = Verdict(c)] /\ timeout' = timeout \ {c}
      /\ active' = [active EXCEPT ![AgentOf[c]] = None]
      /\ child' = child /\ removal' = removal /\ exit' = exit /\ cancelled' = cancelled
      /\ pc' = pc /\ target' = target /\ crashes' = crashes
  BY DEF End, cancels, outside, world
<1>3. /\ Verdict(c) \in Outcomes \ {"none", "refused", "lost"}
      /\ c \in cancelled => Verdict(c) \in {"unstarted", "cancelled"}
  BY <1>2 DEF Verdict, Settled, ChildrenEnd, Outcomes
<1>. HIDE DEF Verdict
<1>4. active[AgentOf[c]] = c
  BY <1>2 DEF Registered, Lost, Settled
<1>5. Registered'
  BY <1>2, <1>3, <1>4 DEF Registered, Lost
<1>6. ChildrenEnd'
  BY <1>2, <1>3 DEF ChildrenEnd, Ended, Settled, Orphan
<1>7. Awaited'
  BY <1>2, <1>3 DEF Awaited, Ended
<1>. QED
  BY <1>1, <1>5, <1>6, <1>7

-----------------------------------------------------------------------------
(* Cancels, and the server *)

LEMMA CancelKeeps ==
  ASSUME RunnerAssumption, RunnerInv, NEW k \in Cancels, Cancel(k)
  PROVE  RunnerInv'
<1>. DEFINE c == active[AgentOf[k]]
<1>. USE DEF RunnerAssumption, RunnerInv, RunnerTypeOK
<1>1. RunnerTypeOK'
  BY TypesOfCancels
<1>2. /\ c \in Calls
      /\ cancelled' = cancelled \cup {c} /\ target' = [target EXCEPT ![k] = c]
      /\ \E to \in {"removing", "settling"} : pc' = [pc EXCEPT ![k] = to]
      /\ active' = active /\ timeout' = timeout /\ outcome' = outcome /\ child' = child
      /\ exit' = exit /\ crashes' = crashes
      /\ \A d \in Calls : d # c => removal'[d] = removal[d]
  BY DEF Cancel, Terminate, StartRemoval, SendSignals, outside, world
<1>3. AgentOf[c] = AgentOf[k] /\ Lost(c)
  BY <1>2 DEF Registered
<1>4. Registered'
  BY <1>2 DEF Registered, Lost
<1>5. ChildrenEnd'
  BY <1>2, <1>3 DEF ChildrenEnd, Ended, Settled, Orphan, Lost
<1>6. Awaited'
  BY <1>2, <1>3 DEF Awaited, Ended, Lost
<1>. QED
  BY <1>1, <1>4, <1>5, <1>6

LEMMA CancelGoesOnKeeps ==
  ASSUME RunnerAssumption, RunnerInv, NEW k \in Cancels,
         CancelNothing(k) \/ CancelRemoved(k) \/ CancelReturns(k)
  PROVE  RunnerInv'
<1>. USE DEF RunnerAssumption, RunnerInv, RunnerTypeOK
<1>1. RunnerTypeOK'
  BY TypesOfCancels
<1>2. /\ UNCHANGED <<active, outcome, target, cancelled, crashes, timeout, child, removal, exit>>
      /\ \/ pc' = [pc EXCEPT ![k] = "false"]
         \/ pc[k] = "removing" /\ pc' = [pc EXCEPT ![k] = "settling"]
         \/ pc[k] = "settling" /\ pc' = [pc EXCEPT ![k] = "true"]
  BY DEF CancelNothing, CancelRemoved, CancelReturns, registry, killers, outside, world
<1>3. Registered'
  BY <1>2 DEF Registered, Lost
<1>4. ChildrenEnd'
  BY <1>2 DEF ChildrenEnd, Ended, Settled, Orphan
<1>5. Awaited'
  BY <1>2 DEF Awaited, Ended
<1>. QED
  BY <1>1, <1>3, <1>4, <1>5

LEMMA CrashKeeps ==
  ASSUME RunnerAssumption, RunnerInv, Crash
  PROVE  RunnerInv'
<1>. USE DEF RunnerAssumption, RunnerInv, RunnerTypeOK
<1>1. RunnerTypeOK'
  BY TypesOfCancels
<1>2. /\ active' = [a \in Agents |-> None] /\ timeout' = {} /\ crashes' = crashes + 1
      /\ outcome' = [d \in Calls |-> IF Lost(d) THEN "lost" ELSE outcome[d]]
      /\ pc' = [k \in Cancels |-> IF pc[k] \in {"removing", "settling"} THEN "lost" ELSE pc[k]]
      /\ UNCHANGED <<removal, target, child, exit>>
  BY DEF Crash, outside
<1>3. Registered'
  BY <1>2 DEF Registered, Lost
<1>4. ChildrenEnd'
  <2>1. crashes' > 0
    BY <1>2
  <2>. QED
    BY <1>2, <2>1 DEF ChildrenEnd, Ended, Settled, Orphan, Lost
<1>5. Awaited'
  BY <1>2 DEF Awaited, Ended, Lost
<1>. QED
  BY <1>1, <1>3, <1>4, <1>5

LEMMA RunnerInductive ==
  ASSUME RunnerAssumption, RunnerInv, [Next]_vars
  PROVE  RunnerInv'
<1>1. CASE UNCHANGED vars
  <2>1. RunnerTypeOK'
    BY <1>1 DEF vars, registry, killers, cancels, outside, world, RunnerInv, RunnerTypeOK
  <2>. QED
    BY <1>1, <2>1, InProgressStays DEF vars, registry, killers, cancels, outside, world,
       RunnerInv, ChildrenEnd
<1>2. ASSUME NEW c \in Calls,
             \/ Run(c) \/ RunRefused(c) \/ Timeout(c) \/ OutputExceeds(c) \/ SpawnFails(c)
             \/ Close(c) \/ End(c) \/ ForceKill(c) \/ RemovalSucceeds(c) \/ RemovalFails(c)
             \/ ContainerStarts(c) \/ CodexEnds(c) \/ CodexEndsAlone(c) \/ ClientEnds(c)
             \/ OrphanEnds(c)
      PROVE  RunnerInv'
  BY <1>2, RunKeeps, RefusedKeeps, TerminateKeeps, ChildKeeps, EndKeeps, RemovalKeeps
<1>3. ASSUME NEW k \in Cancels,
             CancelNothing(k) \/ Cancel(k) \/ CancelRemoved(k) \/ CancelReturns(k)
      PROVE  RunnerInv'
  BY <1>3, CancelKeeps, CancelGoesOnKeeps
<1>. QED
  BY <1>1, <1>2, <1>3, CrashKeeps DEF Next, Rest

-----------------------------------------------------------------------------
(* Containers *)

\* What a step does to the names of the containers.
LEMMA WhoseContainer ==
  ASSUME RunnerAssumption, RunnerInv, [Next]_vars
  PROVE  \/ container' = container
         \/ \E c \in Calls : \/ container' = [container EXCEPT ![AgentOf[c]] = None]
                            \/ container' = [container EXCEPT ![AgentOf[c]] = c]
<1>1. ASSUME NEW c \in Calls,
             \/ RemovalSucceeds(c) \/ RemovalFails(c) \/ ContainerStarts(c) \/ CodexEnds(c)
             \/ CodexEndsAlone(c)
      PROVE  \/ container' = container
             \/ container' = [container EXCEPT ![AgentOf[c]] = None]
             \/ container' = [container EXCEPT ![AgentOf[c]] = c]
  <2>1. CASE CodexEnds(c)
    <3>1. ~isolated => container' = container
      BY <2>1 DEF CodexEnds, RunnerInv, RunnerTypeOK, RunnerAssumption
    <3>. QED
      BY <2>1, <3>1 DEF CodexEnds
  <2>. QED
    BY <1>1, <2>1 DEF RemovalSucceeds, RemovalFails, ContainerStarts, CodexEndsAlone
<1>2. ASSUME NEW c \in Calls,
             \/ Run(c) \/ RunRefused(c) \/ Timeout(c) \/ OutputExceeds(c) \/ SpawnFails(c)
             \/ Close(c) \/ End(c) \/ ForceKill(c) \/ ClientEnds(c) \/ OrphanEnds(c)
      PROVE  container' = container
  BY <1>2 DEF Run, RunRefused, Timeout, OutputExceeds, SpawnFails, Close, End, ForceKill,
     ClientEnds, OrphanEnds, outside
<1>3. ASSUME NEW k \in Cancels,
             CancelNothing(k) \/ Cancel(k) \/ CancelRemoved(k) \/ CancelReturns(k)
      PROVE  container' = container
  BY <1>3 DEF CancelNothing, Cancel, CancelRemoved, CancelReturns, outside
<1>4. CASE Crash \/ UNCHANGED vars
  BY <1>4 DEF Crash, vars, outside
<1>. QED
  BY <1>1, <1>2, <1>3, <1>4 DEF Next, Rest

LEMMA NamedStays ==
  ASSUME RunnerAssumption, RunnerInv, Named, [Next]_vars
  PROVE  Named'
BY WhoseContainer DEF RunnerAssumption, RunnerInv, RunnerTypeOK, Named

\* Of the steps that start or end a removal, only the answer of the engine takes a
\* container away.
LEMMA WhoseRemoval ==
  ASSUME RunnerAssumption, RunnerInv, [Next]_vars, NEW c \in Calls,
         removal'[c] # removal[c], container' # container
  PROVE  removal[c] = "running"
<1>1. ASSUME NEW e \in Calls, RemovalSucceeds(e) \/ RemovalFails(e) PROVE removal[c] = "running"
  BY <1>1 DEF RemovalSucceeds, RemovalFails, RunnerInv, RunnerTypeOK
<1>2. ASSUME NEW e \in Calls,
             \/ Run(e) \/ RunRefused(e) \/ Timeout(e) \/ OutputExceeds(e) \/ SpawnFails(e)
             \/ Close(e) \/ End(e) \/ ForceKill(e) \/ ContainerStarts(e) \/ CodexEnds(e)
             \/ CodexEndsAlone(e) \/ ClientEnds(e) \/ OrphanEnds(e)
      PROVE  container' = container \/ removal' = removal
  BY <1>2 DEF Run, RunRefused, Timeout, OutputExceeds, SpawnFails, Close, End, ForceKill,
     ContainerStarts, CodexEnds, CodexEndsAlone, ClientEnds, OrphanEnds, Ends, outside, killers
<1>3. ASSUME NEW k \in Cancels,
             CancelNothing(k) \/ Cancel(k) \/ CancelRemoved(k) \/ CancelReturns(k)
      PROVE  container' = container
  BY <1>3 DEF CancelNothing, Cancel, CancelRemoved, CancelReturns, outside
<1>4. CASE Crash \/ UNCHANGED vars
  BY <1>4 DEF Crash, vars, outside
<1>. QED
  BY <1>1, <1>2, <1>3, <1>4 DEF Next, Rest

-----------------------------------------------------------------------------
(* Containers without their client *)

\* The client of a container that works is alive, unless it was killed after a failed
\* removal or has lost its server.
Traced ==
  isolated => \A c \in Calls :
    /\ Box(c) = c => c \in started
    /\ c \in forceKill => removal[c] = "failed"
    /\ Box(c) = c /\ child[c] # "alive" => LeftBehind(c)

LEMMA TracedInTime ==
  ASSUME RunnerAssumption, RunnerInv, Traced, NEW c \in Calls,
         \/ Run(c) \/ RunRefused(c) \/ Timeout(c) \/ OutputExceeds(c) \/ End(c) \/ Close(c)
         \/ SpawnFails(c)
  PROVE  Traced'
<1>1. /\ isolated' = isolated /\ started' = started /\ container' = container
      /\ isolated => forceKill' \subseteq forceKill
  BY DEF Run, RunRefused, Timeout, OutputExceeds, End, Close, SpawnFails, Terminate,
     StartRemoval, SendSignals, outside, world, killers
<1>2. \A d \in Calls : removal[d] = "failed" => removal'[d] = "failed"
  BY DEF Run, RunRefused, Timeout, OutputExceeds, End, Close, SpawnFails, Terminate,
     StartRemoval, SendSignals, killers, RunnerInv, RunnerTypeOK
<1>3. \A d \in Calls : outcome[d] = "lost" => outcome'[d] = "lost"
  BY DEF Run, RunRefused, Timeout, OutputExceeds, End, Close, SpawnFails, RunnerInv,
     RunnerTypeOK
<1>4. ASSUME isolated, NEW d \in Calls, child[d] = "alive", container[AgentOf[d]] = d
      PROVE  child'[d] = "alive"
  <2>1. d \in started
    BY <1>4 DEF Traced, Box
  <2>. QED
    BY <1>4, <2>1 DEF Run, RunRefused, Timeout, OutputExceeds, End, Close, SpawnFails, outside,
       RunnerInv, RunnerTypeOK
<1>. QED
  BY <1>1, <1>2, <1>3, <1>4 DEF Traced, Box, LeftBehind, Orphan

LEMMA TracedOutside ==
  ASSUME RunnerAssumption, RunnerInv, Traced, NEW c \in Calls,
         \/ ForceKill(c) \/ RemovalSucceeds(c) \/ RemovalFails(c) \/ ContainerStarts(c)
         \/ CodexEnds(c) \/ CodexEndsAlone(c) \/ ClientEnds(c) \/ OrphanEnds(c)
  PROVE  Traced'
<1>. USE DEF RunnerInv, RunnerTypeOK, RunnerAssumption, Traced, Box, LeftBehind, Orphan
<1>1. CASE ForceKill(c)
  BY <1>1 DEF ForceKill, world
<1>2. CASE RemovalSucceeds(c)
  BY <1>2 DEF RemovalSucceeds, world
<1>3. CASE RemovalFails(c)
  BY <1>3 DEF RemovalFails
<1>4. CASE ContainerStarts(c)
  BY <1>4 DEF ContainerStarts, killers, world
<1>5. CASE CodexEnds(c)
  BY <1>5 DEF CodexEnds, Ends, killers, world
<1>6. CASE CodexEndsAlone(c)
  BY <1>6 DEF CodexEndsAlone, killers, world
<1>7. CASE ClientEnds(c)
  BY <1>7 DEF ClientEnds, Ends, killers, world
<1>8. CASE OrphanEnds(c)
  BY <1>8 DEF OrphanEnds, Ends, killers, world
<1>. QED
  BY <1>1, <1>2, <1>3, <1>4, <1>5, <1>6, <1>7, <1>8

LEMMA TracedStays ==
  ASSUME RunnerAssumption, RunnerInv, Traced, [Next]_vars
  PROVE  Traced'
<1>1. ASSUME NEW k \in Cancels,
             CancelNothing(k) \/ Cancel(k) \/ CancelRemoved(k) \/ CancelReturns(k)
      PROVE  Traced'
  <2>1. UNCHANGED <<isolated, outcome, child, started, container>>
    BY <1>1 DEF CancelNothing, Cancel, CancelRemoved, CancelReturns, outside, world
  <2>2. /\ isolated => forceKill' = forceKill
        /\ \A c \in Calls : removal[c] = "failed" => removal'[c] = "failed"
    BY <1>1 DEF CancelNothing, Cancel, CancelRemoved, CancelReturns, Terminate, StartRemoval,
       SendSignals, killers, RunnerInv, RunnerTypeOK
  <2>. QED
    BY <2>1, <2>2 DEF Traced, Box, LeftBehind, Orphan
<1>2. CASE Crash
  <2>1. /\ UNCHANGED <<isolated, removal, child, started, container>> /\ forceKill' = {}
        /\ \A c \in Calls : outcome[c] = "lost" => outcome'[c] = "lost"
    BY <1>2 DEF Crash, outside, Lost
  <2>. QED
    BY <2>1 DEF Traced, Box, LeftBehind, Orphan
<1>3. CASE UNCHANGED vars
  BY <1>3 DEF vars, killers, outside, world, Traced, Box, LeftBehind, Orphan
<1>. QED
  BY <1>1, <1>2, <1>3, TracedInTime, TracedOutside DEF Next, Rest

-----------------------------------------------------------------------------
(* The theorems *)

\* The invariant of the registry, of the children, of the cancels and of the containers.
THEOREM RunnerInvCorrect == Spec => [](RunnerInv /\ Named /\ Traced)
<1>1. Init => RunnerInv /\ Named /\ Traced
  BY RunnerAssumption, RunnerInitial DEF Init, Named, Traced, Box, RunnerAssumption
<1>2. RunnerInv /\ Named /\ Traced /\ [Next]_vars => RunnerInv' /\ Named' /\ Traced'
  BY RunnerAssumption, RunnerInductive, NamedStays, TracedStays
<1>. QED
  BY <1>1, <1>2, PTL DEF Spec

\* A live child is in the registry, unless its server has died.
LEMMA LiveIsRegistered ==
  ASSUME RunnerAssumption, RunnerInv, NEW c \in Calls, child[c] = "alive", ~Orphan(c)
  PROVE  active[AgentOf[c]] = c /\ outcome[c] = "none"
BY DEF RunnerInv, Registered, ChildrenEnd, Ended, Settled, Lost

\* Two Codex processes never work in one Agent's workspace: of the containers only one has
\* the Agent's name, and of the local children only one is registered.
THEOREM OneCodexInAWorkspace == Spec => []OneCodexPerAgent
<1>1. ASSUME RunnerInv PROVE OneCodexPerAgent
  <2>. SUFFICES ASSUME isolated \/ crashes = 0,
                       NEW c \in Calls, NEW d \in Calls, AgentOf[c] = AgentOf[d],
                       Working(c), Working(d)
                PROVE  c = d
    BY DEF OneCodexPerAgent
  <2>1. CASE isolated
    BY <2>1 DEF Working, Box
  <2>2. CASE ~isolated
    <3>1. crashes = 0 /\ child[c] = "alive" /\ child[d] = "alive"
      BY <2>2 DEF Working
    <3>2. ~Orphan(c) /\ ~Orphan(d)
      BY <1>1, <3>1 DEF RunnerInv, ChildrenEnd
    <3>. QED
      BY <1>1, <3>1, <3>2, LiveIsRegistered, RunnerAssumption
  <2>. QED
    BY <2>1, <2>2
<1>. QED
  BY <1>1, RunnerInvCorrect, PTL

\* A cancel that has returned true has made its Run a cancelled one, whatever timer, excess
\* of output or exit of the child came first.
THEOREM CancelsAreHonoured == Spec => []CancelledRunsSaySo
<1>1. RunnerInv => CancelledRunsSaySo
  BY DEF RunnerInv, Awaited, CancelledRunsSaySo
<1>. QED
  BY <1>1, RunnerInvCorrect, PTL

\* Only its own step takes a cancel to its answer.
LEMMA CancelAnswers ==
  ASSUME RunnerAssumption, RunnerInv, [Next]_vars, NEW k \in Cancels,
         pc'[k] \in {"true", "false"}, pc[k] # pc'[k]
  PROVE  \/ pc'[k] = "true" /\ CancelReturns(k)
         \/ pc'[k] = "false" /\ CancelNothing(k)
<1>. USE DEF RunnerInv, RunnerTypeOK
<1>1. CASE UNCHANGED cancels \/ UNCHANGED vars
  BY <1>1 DEF vars, cancels
<1>2. ASSUME NEW j \in Cancels,
             CancelNothing(j) \/ Cancel(j) \/ CancelRemoved(j) \/ CancelReturns(j)
      PROVE  \/ pc'[k] = "true" /\ CancelReturns(k)
             \/ pc'[k] = "false" /\ CancelNothing(k)
  BY <1>2 DEF CancelNothing, Cancel, CancelRemoved, CancelReturns
<1>3. CASE Crash
  BY <1>3 DEF Crash
<1>4. ASSUME NEW c \in Calls,
             \/ Run(c) \/ RunRefused(c) \/ Timeout(c) \/ OutputExceeds(c) \/ SpawnFails(c)
             \/ Close(c) \/ End(c) \/ ForceKill(c) \/ RemovalSucceeds(c) \/ RemovalFails(c)
             \/ ContainerStarts(c) \/ CodexEnds(c) \/ CodexEndsAlone(c) \/ ClientEnds(c)
             \/ OrphanEnds(c)
      PROVE  UNCHANGED cancels
  BY <1>4 DEF Run, RunRefused, Timeout, OutputExceeds, SpawnFails, Close, End, ForceKill,
     RemovalSucceeds, RemovalFails, ContainerStarts, CodexEnds, CodexEndsAlone, ClientEnds,
     OrphanEnds, Ends
<1>. QED
  BY <1>1, <1>2, <1>3, <1>4 DEF Next, Rest

\* When cancel returns, no Codex works for its Agent but one that is left behind, by a
\* failed removal or a dead server, or that of a call registered since: what cancel has
\* waited for is the end of the client, and a container has its client for as long as it
\* works, or is left behind.
THEOREM CancelsLeaveSilence == Spec => CancelLeavesSilence
<1>. DEFINE Silence ==
       \A k \in Cancels, c \in Calls :
         /\ pc'[k] \in {"true", "false"} /\ pc[k] # pc'[k]
         /\ AgentOf[c] = AgentOf[k] /\ (c = target[k] \/ active[AgentOf[k]] # c)
         => ~Working(c) \/ LeftBehind(c)
<1>1. ASSUME RunnerInv, Traced, [Next]_vars PROVE Silence
  <2>. SUFFICES ASSUME NEW k \in Cancels, NEW c \in Calls,
                       pc'[k] \in {"true", "false"}, pc[k] # pc'[k],
                       AgentOf[c] = AgentOf[k], c = target[k] \/ active[AgentOf[k]] # c,
                       Working(c)
                PROVE  LeftBehind(c)
    OBVIOUS
  <2>1. \/ pc'[k] = "true" /\ CancelReturns(k)
        \/ pc'[k] = "false" /\ CancelNothing(k)
    BY <1>1, CancelAnswers, RunnerAssumption
  <2>2. child[c] = "alive" => active[AgentOf[k]] # c
    <3>1. CASE CancelReturns(k)
      BY <3>1 DEF CancelReturns, Settled
    <3>2. CASE CancelNothing(k)
      BY <3>2, RunnerAssumption DEF CancelNothing, RunnerAssumption
    <3>. QED
      BY <2>1, <3>1, <3>2
  <2>3. CASE child[c] = "alive"
    BY <1>1, <2>2, <2>3, LiveIsRegistered, RunnerAssumption DEF LeftBehind
  <2>4. CASE child[c] # "alive"
    BY <1>1, <2>4 DEF Working, Traced
  <2>. QED
    BY <2>3, <2>4
<1>2. RunnerInv /\ Traced /\ [Next]_vars => [Silence]_vars
  BY <1>1
<1>. QED
  BY <1>2, RunnerInvCorrect, PTL DEF Spec, CancelLeavesSilence

\* A removal that takes away the container of another turn comes when one of the two turns
\* is over: both are never in the registry at once.
THEOREM RemovalsSpareLiveTurns == Spec => StrayRemovalsAreLate
<1>. DEFINE Late ==
       \A c \in Calls :
         LET d == Box(c) IN
         removal'[c] # removal[c] /\ d \notin {c, None} /\ container'[AgentOf[c]] = None =>
           Ended(c) \/ Ended(d) \/ child[d] # "alive"
<1>1. ASSUME RunnerInv, Named, [Next]_vars PROVE Late
  <2>. SUFFICES ASSUME NEW c \in Calls, removal'[c] # removal[c],
                       Box(c) \notin {c, None}, container'[AgentOf[c]] = None
                PROVE  Ended(c) \/ Ended(Box(c)) \/ child[Box(c)] # "alive"
    OBVIOUS
  <2>1. Box(c) \in Calls /\ AgentOf[Box(c)] = AgentOf[c]
    BY <1>1, RunnerAssumption DEF RunnerAssumption, RunnerInv, RunnerTypeOK, Named, Box
  <2>2. removal[c] = "running"
    BY <1>1, WhoseRemoval, RunnerAssumption DEF Box
  <2>3. child[c] # "none"
    BY <1>1, <2>2 DEF RunnerInv, ChildrenEnd
  <2>4. ASSUME ~Ended(c), ~Ended(Box(c)), child[Box(c)] = "alive" PROVE FALSE
    <3>1. Lost(c) /\ Lost(Box(c))
      BY <2>3, <2>4 DEF Lost, Ended
    <3>2. active[AgentOf[c]] = c /\ active[AgentOf[c]] = Box(c)
      BY <1>1, <2>1, <3>1 DEF RunnerInv, Registered
    <3>. QED
      BY <3>2
  <2>. QED
    BY <2>4
<1>2. RunnerInv /\ Named /\ [Next]_vars => [Late]_vars
  BY <1>1
<1>. QED
  BY <1>2, RunnerInvCorrect, PTL DEF Spec, StrayRemovalsAreLate
=============================================================================
