-------------------------- MODULE GuidedDelegation --------------------------
(***************************************************************************)
(* The Run setup of the Web client: the task's text, the Advisor's         *)
(* suggestion, the Resource that is picked, and the catalog, while answers *)
(* of the server come late and Entitlements change.                        *)
(*                                                                         *)
(* What is picked is delegated to the next Run.  The Advisor only          *)
(* suggests; its answers are dropped once the text, the Agent, the         *)
(* Principal or the request they belong to is not the present one.         *)
(***************************************************************************)
EXTENDS Naturals, Sequences, FiniteSets

CONSTANTS
  Principals, Agents, OwnerOf,  \* demo sessions and the Agents of each
  First,                        \* the session the page is opened with
  Resources,                    \* the Registry
  Tags, NameTerms, DescriptionTerms,  \* of each Resource, as sets of terms
  StopWords,
  Texts,                        \* the task's text, as the set of its terms
  Seeded,                       \* the Entitlements when the page is opened
  None,
  \* bounds:
  MaxEdits, MaxRequests, MaxSelects, MaxSwitches, MaxSends, MaxChanges

ASSUME DelegationAssumption ==
  /\ OwnerOf \in [Agents -> Principals] /\ First \in Principals
  /\ Seeded \in [Principals -> SUBSET Resources]
  /\ None \notin Agents \cup Resources /\ {} \in Texts
  /\ MaxSwitches \in Nat

VARIABLES
  eligible,        \* the server: the Resources each Principal is entitled to
  session, epoch,  \* the Principal; principalRevision
  agent, effectFor,  \* the Agent that is selected, and the one its effect was run for
  disabled,        \* runControlsDisabled, while an Agent is selected
  prompt, revision,  \* the text; the coordinator's revision
  advisor, picked, \* guidedDelegation
  catalog,         \* the Resources listed
  advice,          \* requests to the Advisor; their number is requestRevision
  listing,         \* for each session of the page, its request for the catalog
  edits, selects, sends, changes,
  \* history:
  choice,          \* what the user chose last, and where that was
  entitled         \* the Resources each Principal has ever been entitled to

page == <<session, epoch, agent, effectFor, disabled>>
setup == <<prompt, revision, advisor, picked, choice>>
server == <<eligible, entitled>>
calls == <<advice, listing, catalog>>
bounds == <<edits, selects, sends, changes>>
vars == <<server, page, setup, calls, bounds>>

-----------------------------------------------------------------------------
(* The Advisor of the server *)

Meaningful(text) == text \ StopWords

\* The terms of a Resource that match, by category.
Hits(r, text) == <<DescriptionTerms[r] \cap Meaningful(text),
                   NameTerms[r] \cap Meaningful(text),
                   Tags[r] \cap text>>

\* Whether r fits in a category, and in none that is better.
FitsIn(r, text, c) == Hits(r, text)[c] # {} /\ \A d \in (c + 1)..3 : Hits(r, text)[d] = {}

\* The better category goes first, then the greater number of terms.
FitsAsWell(r, s, text) ==
  \E c, d \in 1..3 :
    /\ FitsIn(r, text, c) /\ FitsIn(s, text, d)
    /\ c > d \/ (c = d /\ Cardinality(Hits(r, text)[c]) >= Cardinality(Hits(s, text)[d]))

\* The one Resource that fits best; None if nothing fits or the best are tied.
Advise(resources, text) ==
  LET candidates == {r \in resources : FitsAsWell(r, r, text)}
      best == {r \in candidates : \A s \in candidates : FitsAsWell(r, s, text)} IN
  IF Cardinality(best) = 1 THEN CHOOSE r \in best : TRUE ELSE None

-----------------------------------------------------------------------------
(* The page *)

Ready == effectFor = agent
Controls == Ready /\ agent # None /\ ~disabled

Advisor(status, r, n) == [status |-> status, resource |-> r, request |-> n]
NoAdvice == Advisor("idle", None, 0)

Request(p) == [pc |-> "out", principal |-> p, resources |-> {}]
NoRequest == [pc |-> "over", principal |-> First, resources |-> {}]

\* The reducer's answer to agent_changed, principal_changed and run_submitted.
Reset == advisor' = NoAdvice /\ picked' = None

\* A choice of r for the Run that is set up now.
Choice(r) == [resource |-> r, agent |-> agent, epoch |-> epoch, sends |-> sends]

Init ==
  /\ eligible = Seeded /\ entitled = Seeded
  /\ session = First /\ epoch = 0
  /\ agent \in {a \in Agents : OwnerOf[a] = First} /\ effectFor = agent
  /\ disabled = FALSE
  /\ prompt = {} /\ revision = 0 /\ advisor = NoAdvice /\ picked = None /\ choice = None
  /\ advice = <<>> /\ catalog = {}
  /\ listing = [e \in 0..MaxSwitches |-> IF e = 0 THEN Request(First) ELSE NoRequest]
  /\ edits = 0 /\ selects = 0 /\ sends = 0 /\ changes = 0

\* Mutant: the reducer is not told.
SetPromptOnly(text) == prompt' = text /\ revision' = revision + 1 /\ UNCHANGED advisor

\* updatePrompt: the coordinator is told, and the reducer.
SetPrompt(text) == prompt' = text /\ revision' = revision + 1 /\ advisor' = NoAdvice

EditPrompt(text) ==
  /\ Ready /\ agent # None /\ text # prompt
  /\ edits < MaxEdits /\ edits' = edits + 1
  /\ SetPrompt(text)
  /\ UNCHANGED <<server, page, picked, choice, calls, selects, sends, changes>>

\* resource_selected, from the picker (a Resource of the catalog, or none) or by
\* confirming a suggestion.
Pick(r) ==
  /\ Controls
  /\ \/ r \in catalog \cup {None}
     \/ prompt # {} /\ advisor.status = "suggested" /\ r = advisor.resource
  /\ r # picked
  /\ picked' = r /\ choice' = Choice(r)
  /\ UNCHANGED <<server, page, prompt, revision, advisor, calls, bounds>>

\* sendMessage: what is picked goes with the request (RunLifecycle), nothing stays.
Send ==
  /\ Controls /\ prompt # {}
  /\ sends < MaxSends /\ sends' = sends + 1
  /\ prompt' = {} /\ revision' = revision + 1
  /\ Reset
  /\ UNCHANGED <<server, page, choice, calls, edits, selects, changes>>

\* Runs and Agents start and end; what the page shows of it is WebSession's.
BusyChanges ==
  /\ changes < MaxChanges /\ changes' = changes + 1
  /\ disabled' = ~disabled
  /\ UNCHANGED <<server, session, epoch, agent, effectFor, setup, calls, edits, selects,
                 sends>>

\* The user selects another Agent, or the Agents that are listed do not have the
\* present one.
SelectionChanges(a) ==
  /\ OwnerOf[a] = session /\ a # agent
  /\ selects < MaxSelects /\ selects' = selects + 1
  /\ agent' = a /\ disabled' = FALSE
  /\ UNCHANGED <<server, session, epoch, effectFor, setup, calls, edits, sends, changes>>

\* Mutant: the reducer is not told.
EffectUnreported ==
  /\ ~Ready /\ effectFor' = agent
  /\ revision' = revision + 1
  /\ UNCHANGED <<server, session, epoch, agent, disabled, prompt, advisor, picked, choice,
                 calls, bounds>>

\* The effect of a selection: invalidate, agent_changed.
Effect ==
  /\ ~Ready /\ effectFor' = agent
  /\ revision' = revision + 1
  /\ Reset
  /\ UNCHANGED <<server, session, epoch, agent, disabled, prompt, choice, calls, bounds>>

\* changeDemoSession: changePrincipal and updatePrompt raise the revision, and the
\* effect of the lost selection.
SwitchSession(p) ==
  /\ Ready /\ p # session /\ epoch < MaxSwitches
  /\ session' = p /\ epoch' = epoch + 1
  /\ agent' = None /\ effectFor' = None /\ disabled' = FALSE
  /\ prompt' = {} /\ revision' = revision + (IF agent = None THEN 2 ELSE 3)
  /\ Reset
  /\ catalog' = {} /\ listing' = [listing EXCEPT ![epoch'] = Request(p)]
  /\ UNCHANGED <<server, choice, advice, bounds>>

-----------------------------------------------------------------------------
(* The Advisor's answers *)

Dropped == [pc |-> "dropped"]

\* suggestResource: an outdated request is not withdrawn, only its answer is dropped.  The
\* text of the page is also the coordinator's, since updatePrompt sets both.
Suggest ==
  /\ Controls /\ prompt # {} /\ advisor.status # "loading"
  /\ Len(advice) < MaxRequests
  /\ advice' = Append(advice,
       [pc |-> "out", revision |-> revision, epoch |-> epoch, prompt |-> prompt,
        principal |-> session, agent |-> agent, answer |-> None])
  /\ advisor' = Advisor("loading", None, Len(advice) + 1)
  /\ UNCHANGED <<server, page, prompt, revision, picked, choice, listing, catalog, bounds>>

\* Mutant: the revision is not looked at.
IsCurrentByPrompt(i) == i = Len(advice) /\ advice[i].prompt = prompt

IsCurrent(i) ==
  /\ advice[i].revision = revision /\ advice[i].epoch = epoch
  /\ i = Len(advice) /\ advice[i].prompt = prompt

ServeAdvice(i) ==
  /\ advice[i].pc = "out"
  /\ advice' = [advice EXCEPT ![i].pc = "served",
       ![i].answer = Advise(eligible[advice[i].principal], advice[i].prompt)]
  /\ UNCHANGED <<server, page, setup, listing, catalog, bounds>>

\* Of a request whose answer is dropped nothing stays.
Settle(i, status) ==
  IF IsCurrent(i)
  THEN /\ advice' = [advice EXCEPT ![i].pc = "over"]
       /\ advisor' = Advisor(status, IF status = "suggested" THEN advice[i].answer ELSE None, i)
  ELSE /\ advice' = [advice EXCEPT ![i] = Dropped]
       /\ UNCHANGED advisor

AdviceArrives(i) ==
  /\ advice[i].pc = "served"
  /\ Settle(i, IF advice[i].answer = None THEN "no-match" ELSE "suggested")
  /\ UNCHANGED <<server, page, prompt, revision, picked, choice, listing, catalog, bounds>>

AdviceFails(i) ==
  /\ advice[i].pc \in {"out", "served"}
  /\ Settle(i, "error")
  /\ UNCHANGED <<server, page, prompt, revision, picked, choice, listing, catalog, bounds>>

-----------------------------------------------------------------------------
(* The catalog *)

ServeCatalog(e) ==
  /\ listing[e].pc = "out"
  /\ listing' = [listing EXCEPT ![e].pc = "served",
                                ![e].resources = eligible[listing[e].principal]]
  /\ UNCHANGED <<server, page, setup, advice, catalog, bounds>>

\* A choice that is not listed is dropped.
Show(resources) ==
  /\ catalog' = resources
  /\ picked' = IF picked \in resources THEN picked ELSE None

\* Mutant: the answer is not tied to the session.
ForSession(e) == TRUE

\* refreshResources drops the answer once the Principal has changed.
OfSession(e) == e = epoch

\* refreshResources; if the request fails, nothing is listed.
CatalogArrives(e) ==
  /\ \/ /\ listing[e].pc = "served"
        /\ IF OfSession(e) THEN Show(listing[e].resources) ELSE UNCHANGED <<catalog, picked>>
     \/ /\ listing[e].pc \in {"out", "served"}
        /\ IF OfSession(e) THEN Show({}) ELSE UNCHANGED <<catalog, picked>>
  /\ listing' = [listing EXCEPT ![e] = NoRequest]
  /\ UNCHANGED <<server, page, prompt, revision, advisor, choice, advice, bounds>>

\* The operator grants and revokes (EntitlementLedger).
EligibleChanges(p, r) ==
  /\ changes < MaxChanges /\ changes' = changes + 1
  /\ eligible' = [eligible EXCEPT ![p] = IF r \in @ THEN @ \ {r} ELSE @ \cup {r}]
  /\ entitled' = [entitled EXCEPT ![p] = @ \cup {r}]
  /\ UNCHANGED <<page, setup, calls, edits, selects, sends>>

-----------------------------------------------------------------------------

Next ==
  \/ \E text \in Texts : EditPrompt(text)
  \/ \E r \in Resources \cup {None} : Pick(r)
  \/ Send \/ BusyChanges \/ Suggest \/ Effect
  \/ \E a \in Agents : SelectionChanges(a)
  \/ \E p \in Principals : SwitchSession(p)
  \/ \E i \in DOMAIN advice : ServeAdvice(i) \/ AdviceArrives(i) \/ AdviceFails(i)
  \/ \E e \in DOMAIN listing : ServeCatalog(e) \/ CatalogArrives(e)
  \/ \E p \in Principals, r \in Resources : EligibleChanges(p, r)

Spec == Init /\ [][Next]_vars
=============================================================================
