------------------------ MODULE DelegationProperties ------------------------
(***************************************************************************)
(* What must hold of the Run setup of the Web client.                      *)
(***************************************************************************)
EXTENDS GuidedDelegation

\* A suggestion that is shown was made for the present text, Principal and Agent,
\* however requests, edits, selections and switches overtake one another.
AdviceIsCurrent ==
  advisor.status \in {"suggested", "no-match", "error"} =>
    LET asked == advice[advisor.request] IN
    /\ asked.prompt = prompt /\ asked.principal = session
    /\ Ready => asked.agent = agent

\* The panel that says "Checking" waits for a request whose answer it will take: it is
\* never left waiting for one that will be dropped.
LoadingIsAwaited ==
  advisor.status = "loading" => \E i \in DOMAIN advice : advice[i].pc \in {"out", "served"} /\ IsCurrent(i)

\* What is picked is what the user chose last, and chose for this Run: with this Agent
\* selected, in this session, after the last send.  No suggestion or catalog picks
\* anything, and every event that ends what a pick was made for takes it away, whichever
\* of its handlers has to tell the reducer.
ChoiceIsExplicit == Ready /\ picked # None => choice = Choice(picked)

\* The page offers, suggests and delegates only what its Principal has been entitled to.
NothingForeignIsOffered ==
  catalog \cup ({picked, advisor.resource} \ {None}) \subseteq entitled[session]
=============================================================================
