---------------------------- MODULE RunnerProcess ----------------------------
(***************************************************************************)
(* The two Runners.  A call of run starts a child process for an Agent and *)
(* waits for it; cancel, a timeout and an excess of output each end it.    *)
(*                                                                         *)
(* The local Runner's child is Codex itself and is ended by signals.  The  *)
(* container Runner's child is the engine's client ("docker run"); Codex   *)
(* is in a container whose name depends on the Agent only, and is ended by *)
(* one "rm --force" of that name, started at most once for each call.  If  *)
(* that command fails, the client is ended by signals.                     *)
(*                                                                         *)
(* The registry, the flags and the timers die with the server; children,   *)
(* containers and engine commands go on without it.                        *)
(***************************************************************************)
EXTENDS Naturals

CONSTANTS
  Agents, Calls, Cancels,  \* Calls of run, Cancels of cancel
  AgentOf,                 \* the Agent that each of them names
  None,
  MissingIsError,          \* whether the engine's rm --force of an unknown name fails
  MaxFaults,               \* bound: failures of rm --force for another reason
  MaxCrashes               \* bound: deaths of the server

ASSUME RunnerAssumption ==
  /\ AgentOf \in [Calls \cup Cancels -> Agents]
  /\ Calls \cap Cancels = {}
  /\ None \notin Calls
  /\ MissingIsError \in BOOLEAN
  /\ MaxFaults \in Nat /\ MaxCrashes \in Nat

VARIABLES
  isolated,    \* which Runner it is: the container Runner, or the local one
  \* the Runner
  active,      \* the call registered for each Agent
  cancelled, timedOut, exceeded,  \* the flags of a call: sets of calls
  removal,     \* "none", or the state of the memoised removal of a call
  timeout, forceKill,  \* the calls whose timer is armed
  outcome,     \* how a call of run has ended
  pc, target,  \* where a cancel is, and the call it found
  \* outside
  child,       \* the child process of a call
  exit,        \* what it ended with: "good" is code 0 and a message
  signalled,   \* the children that were sent SIGTERM
  started,     \* the clients that have created their container
  container,   \* whose container has the Agent's name
  faults, crashes

registry == <<active, cancelled, timedOut, exceeded>>
killers == <<removal, timeout, forceKill, signalled>>
outside == <<child, exit, started, container>>
cancels == <<pc, target>>
world == <<isolated, faults, crashes>>
vars == <<registry, killers, outcome, cancels, outside, world>>

Init ==
  /\ isolated \in BOOLEAN
  /\ active = [a \in Agents |-> None] /\ container = [a \in Agents |-> None]
  /\ cancelled = {} /\ timedOut = {} /\ exceeded = {}
  /\ timeout = {} /\ forceKill = {} /\ signalled = {} /\ started = {}
  /\ removal = [c \in Calls |-> "none"] /\ outcome = [c \in Calls |-> "none"]
  /\ child = [c \in Calls |-> "none"] /\ exit = [c \in Calls |-> "none"]
  /\ pc = [k \in Cancels |-> "new"] /\ target = [k \in Cancels |-> None]
  /\ faults = 0 /\ crashes = 0

Box(c) == container[AgentOf[c]]

\* Nobody of this process waits for the child: its server has died.
Orphan(c) == outcome[c] = "lost"

-----------------------------------------------------------------------------
(* Ending a child *)

Signal(c) == signalled' = IF child[c] = "alive" THEN signalled \cup {c} ELSE signalled

\* removeContainer
StartRemoval(c) ==
  /\ isolated
  /\ removal' = IF removal[c] = "none" THEN [removal EXCEPT ![c] = "running"] ELSE removal
  /\ UNCHANGED <<forceKill, signalled>>

\* Mutant: SIGTERM only.
SendTermOnly(c) ==
  /\ ~isolated
  /\ Signal(c)
  /\ UNCHANGED <<forceKill, removal>>

\* terminate
SendSignals(c) ==
  /\ ~isolated
  /\ Signal(c)
  /\ forceKill' = IF child[c] = "alive" THEN forceKill \cup {c} ELSE forceKill
  /\ UNCHANGED removal

Terminate(c) == StartRemoval(c) \/ SendSignals(c)

\* The engine has answered.  A removal may have had its effect and still fail,
\* when the command is given up after eight seconds.
RemovalSucceeds(c) ==
  /\ removal[c] = "running"
  /\ Box(c) # None \/ ~MissingIsError
  /\ container' = [container EXCEPT ![AgentOf[c]] = None]
  /\ removal' = [removal EXCEPT ![c] = "done"]
  /\ UNCHANGED <<registry, timeout, forceKill, signalled, outcome, cancels, child, exit,
                 started, world>>

RemovalFails(c) ==
  /\ removal[c] = "running"
  /\ \/ Box(c) = None /\ MissingIsError /\ UNCHANGED <<container, faults>>
     \/ /\ faults < MaxFaults /\ faults' = faults + 1
        /\ container' \in {container, [container EXCEPT ![AgentOf[c]] = None]}
  /\ removal' = [removal EXCEPT ![c] = "failed"]
  /\ IF Orphan(c) THEN UNCHANGED <<signalled, forceKill>>
                  ELSE Signal(c) /\ forceKill' = forceKill \cup {c}
  /\ UNCHANGED <<registry, timeout, outcome, cancels, child, exit, started, isolated,
                 crashes>>

\* The SIGKILL timer.  A killed client leaves its container behind.
ForceKill(c) ==
  /\ c \in forceKill /\ forceKill' = forceKill \ {c}
  /\ IF child[c] = "alive"
     THEN child' = [child EXCEPT ![c] = "gone"] /\ exit' = [exit EXCEPT ![c] = "bad"]
     ELSE UNCHANGED <<child, exit>>
  /\ UNCHANGED <<registry, removal, timeout, signalled, outcome, cancels, started,
                 container, world>>

-----------------------------------------------------------------------------
(* run *)

\* Mutant: a second call for the Agent is let in.
RunUnguarded(c) ==
  /\ child[c] = "none" /\ outcome[c] = "none"
  /\ active' = [active EXCEPT ![AgentOf[c]] = c]
  /\ child' = [child EXCEPT ![c] = "alive"]
  /\ timeout' = timeout \cup {c}
  /\ UNCHANGED <<cancelled, timedOut, exceeded, removal, forceKill, signalled, outcome,
                 cancels, exit, started, container, world>>

Run(c) ==
  /\ child[c] = "none" /\ outcome[c] = "none"
  /\ active[AgentOf[c]] = None
  /\ active' = [active EXCEPT ![AgentOf[c]] = c]
  /\ child' = [child EXCEPT ![c] = "alive"]
  /\ timeout' = timeout \cup {c}
  /\ UNCHANGED <<cancelled, timedOut, exceeded, removal, forceKill, signalled, outcome,
                 cancels, exit, started, container, world>>

RunRefused(c) ==
  /\ child[c] = "none" /\ outcome[c] = "none"
  /\ active[AgentOf[c]] # None
  /\ outcome' = [outcome EXCEPT ![c] = "refused"]
  /\ UNCHANGED <<registry, killers, cancels, outside, world>>

Timeout(c) ==
  /\ c \in timeout
  /\ timeout' = timeout \ {c}
  /\ timedOut' = timedOut \cup {c}
  /\ Terminate(c)
  /\ UNCHANGED <<active, cancelled, exceeded, outcome, cancels, outside, world>>

\* consume: output is read as long as the child's pipes are open, with the container
\* Runner also what the client has to say before there is a container.
OutputExceeds(c) ==
  /\ child[c] \in {"alive", "gone"} /\ outcome[c] = "none" /\ c \notin exceeded
  /\ exceeded' = exceeded \cup {c}
  /\ Terminate(c)
  /\ UNCHANGED <<active, cancelled, timedOut, timeout, outcome, cancels, outside, world>>

\* The child could not be started: "error" instead of "close".
SpawnFails(c) ==
  /\ child[c] = "alive" /\ outcome[c] = "none" /\ c \notin started \cup exceeded
  /\ child' = [child EXCEPT ![c] = "unstarted"]
  /\ UNCHANGED <<registry, killers, outcome, cancels, exit, started, container, world>>

Close(c) ==
  /\ child[c] = "gone" /\ outcome[c] = "none"
  /\ child' = [child EXCEPT ![c] = "closed"]
  /\ UNCHANGED <<registry, killers, outcome, cancels, exit, started, container, world>>

Settled(c) == child[c] \in {"closed", "unstarted"}

\* Mutant: the timer is looked at before the cancellation.
VerdictOfTimerFirst(c) ==
  CASE child[c] = "unstarted" -> "unstarted"
    [] child[c] = "closed" /\ c \in timedOut -> "timedOut"
    [] child[c] = "closed" /\ c \in cancelled \ timedOut -> "cancelled"
    [] child[c] = "closed" /\ c \in exceeded \ (cancelled \cup timedOut) -> "exceeded"
    [] OTHER -> exit[c]

Verdict(c) ==
  CASE child[c] = "unstarted" -> "unstarted"
    [] child[c] = "closed" /\ c \in cancelled -> "cancelled"
    [] child[c] = "closed" /\ c \in timedOut \ cancelled -> "timedOut"
    [] child[c] = "closed" /\ c \in exceeded \ (cancelled \cup timedOut) -> "exceeded"
    [] OTHER -> exit[c]

\* run continues after its await, and its finally clause.
End(c) ==
  /\ outcome[c] = "none" /\ Settled(c)
  /\ outcome' = [outcome EXCEPT ![c] = Verdict(c)]
  /\ timeout' = timeout \ {c}
  /\ forceKill' = IF isolated THEN forceKill ELSE forceKill \ {c}
  /\ active' = [active EXCEPT ![AgentOf[c]] = None]
  /\ UNCHANGED <<cancelled, timedOut, exceeded, removal, signalled, cancels, outside,
                 world>>

-----------------------------------------------------------------------------
(* cancel *)

CancelNothing(k) ==
  /\ pc[k] = "new" /\ active[AgentOf[k]] = None
  /\ pc' = [pc EXCEPT ![k] = "false"]
  /\ UNCHANGED <<registry, killers, outcome, target, outside, world>>

Cancel(k) ==
  LET c == active[AgentOf[k]] IN
  /\ pc[k] = "new" /\ c # None
  /\ cancelled' = cancelled \cup {c}
  /\ target' = [target EXCEPT ![k] = c]
  /\ pc' = [pc EXCEPT ![k] = IF isolated THEN "removing" ELSE "settling"]
  /\ Terminate(c)
  /\ UNCHANGED <<active, timedOut, exceeded, timeout, outcome, outside, world>>

CancelRemoved(k) ==
  /\ pc[k] = "removing" /\ removal[target[k]] \in {"done", "failed"}
  /\ pc' = [pc EXCEPT ![k] = "settling"]
  /\ UNCHANGED <<registry, killers, outcome, target, outside, world>>

\* Mutant: the child is not awaited.
CancelReturnsAtOnce(k) ==
  /\ pc[k] = "settling"
  /\ pc' = [pc EXCEPT ![k] = "true"]
  /\ UNCHANGED <<registry, killers, outcome, target, outside, world>>

CancelReturns(k) ==
  /\ pc[k] = "settling" /\ Settled(target[k])
  /\ pc' = [pc EXCEPT ![k] = "true"]
  /\ UNCHANGED <<registry, killers, outcome, target, outside, world>>

-----------------------------------------------------------------------------
(* Codex and the engine *)

\* The client creates its container, unless the name is taken.
ContainerStarts(c) ==
  /\ isolated /\ child[c] = "alive" /\ c \notin started
  /\ \/ /\ Box(c) = None
        /\ container' = [container EXCEPT ![AgentOf[c]] = c]
        /\ started' = started \cup {c}
        /\ UNCHANGED <<child, exit>>
     \/ /\ Box(c) # None
        /\ child' = [child EXCEPT ![c] = "gone"]
        /\ exit' = [exit EXCEPT ![c] = "bad"]
        /\ UNCHANGED <<container, started>>
  /\ UNCHANGED <<registry, killers, outcome, cancels, world>>

Ends(c, how) ==
  /\ child[c] = "alive"
  /\ child' = [child EXCEPT ![c] = "gone"]
  /\ exit' = [exit EXCEPT ![c] = how]
  /\ UNCHANGED <<registry, killers, outcome, cancels, started, world>>

\* Codex ends by itself, or obeys SIGTERM; with it goes its container (--rm).
CodexEnds(c) ==
  /\ isolated => Box(c) = c
  /\ \E how \in {"good", "bad"} : Ends(c, how)
  /\ container' = [container EXCEPT ![AgentOf[c]] = IF isolated THEN None ELSE @]

\* Codex ends by itself in a container that has lost its client.
CodexEndsAlone(c) ==
  /\ isolated /\ Box(c) = c /\ child[c] # "alive"
  /\ container' = [container EXCEPT ![AgentOf[c]] = None]
  /\ UNCHANGED <<registry, killers, outcome, cancels, child, exit, started, world>>

\* A client ends when its container is gone, or on SIGTERM before there is one.
ClientEnds(c) ==
  /\ isolated
  /\ \/ c \in started /\ Box(c) # c
     \/ c \in signalled \ started
  /\ Ends(c, "bad")
  /\ UNCHANGED container

\* The client of a dead server may fail at any time, on the pipe that nobody reads.
OrphanEnds(c) ==
  /\ isolated /\ Orphan(c)
  /\ Ends(c, "bad")
  /\ UNCHANGED container

-----------------------------------------------------------------------------
(* The server *)

Lost(c) == outcome[c] = "none" /\ child[c] # "none"

\* The server dies, or is shut down: it ends no turn first.  Nobody hears any more of
\* what is in progress, and the next process starts with an empty registry.
Crash ==
  /\ crashes < MaxCrashes /\ crashes' = crashes + 1
  /\ active' = [a \in Agents |-> None]
  /\ cancelled' = {} /\ timedOut' = {} /\ exceeded' = {}
  /\ timeout' = {} /\ forceKill' = {}
  /\ outcome' = [c \in Calls |-> IF Lost(c) THEN "lost" ELSE outcome[c]]
  /\ pc' = [k \in Cancels |-> IF pc[k] \in {"removing", "settling"} THEN "lost" ELSE pc[k]]
  /\ UNCHANGED <<removal, signalled, target, outside, isolated, faults>>

-----------------------------------------------------------------------------

Rest ==
  /\ \A c \in Calls : outcome[c] # "none"
  /\ \A k \in Cancels : pc[k] \in {"true", "false", "lost"}
  /\ UNCHANGED vars

Next ==
  \/ \E c \in Calls :
       \/ Run(c) \/ RunRefused(c) \/ Timeout(c) \/ OutputExceeds(c) \/ SpawnFails(c)
       \/ Close(c) \/ End(c) \/ ForceKill(c)
       \/ RemovalSucceeds(c) \/ RemovalFails(c)
       \/ ContainerStarts(c) \/ CodexEnds(c) \/ CodexEndsAlone(c) \/ ClientEnds(c)
       \/ OrphanEnds(c)
  \/ \E k \in Cancels : CancelNothing(k) \/ Cancel(k) \/ CancelRemoved(k) \/ CancelReturns(k)
  \/ Crash
  \/ Rest

Spec == Init /\ [][Next]_vars

\* Timers fire, events are delivered, promises continue and the engine answers.
\* Codex need never end by itself nor obey a signal, and nobody need call.
Fairness ==
  /\ \A c \in Calls :
       /\ WF_vars(Timeout(c)) /\ WF_vars(ForceKill(c))
       /\ WF_vars(RemovalSucceeds(c) \/ RemovalFails(c))
       /\ WF_vars(ContainerStarts(c)) /\ WF_vars(ClientEnds(c))
       /\ WF_vars(Close(c)) /\ WF_vars(End(c))
  /\ \A k \in Cancels : WF_vars(CancelRemoved(k) \/ CancelReturns(k))

FairSpec == Spec /\ Fairness
=============================================================================
