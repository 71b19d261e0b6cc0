-------------------------- MODULE DelegationProofs --------------------------
(***************************************************************************)
(* Nothing out of date and nothing foreign in the Run setup, for every     *)
(* Registry, catalog, sequence of edits and order of answers.              *)
(*                                                                         *)
(* Whatever makes an answer of the Advisor too late (an edit, a send, a    *)
(* selection, a change of the Principal) both raises the revision and      *)
(* clears what the panel shows; so the panel is never without the request  *)
(* of the present revision, and that request is the last one.              *)
(***************************************************************************)
EXTENDS DelegationProperties, FiniteSetTheorems, SequenceTheorems, TLAPS

Statuses == {"idle", "loading", "suggested", "no-match", "error"}
Choices == Resources \cup {None}

Requests ==
  [pc : {"out", "served", "over"}, revision : Nat, epoch : Nat, prompt : Texts,
   principal : Principals, agent : Agents \cup {None}, answer : Choices]

TypeOK ==
  /\ eligible \in [Principals -> SUBSET Resources]
  /\ entitled \in [Principals -> SUBSET Resources]
  /\ session \in Principals /\ epoch \in 0..MaxSwitches
  /\ agent \in Agents \cup {None} /\ effectFor \in Agents \cup {None}
  /\ prompt \in Texts /\ revision \in Nat
  /\ advisor \in [status : Statuses, resource : Choices, request : Nat]
  /\ picked \in Choices /\ catalog \subseteq Resources /\ sends \in Nat
  /\ choice \in [resource : Choices, agent : Agents, epoch : 0..MaxSwitches, sends : Nat]
                 \cup {None}
  /\ advice \in Seq(Requests \cup {Dropped})
  /\ listing \in [0..MaxSwitches ->
       [pc : {"out", "served", "over"}, principal : Principals, resources : SUBSET Resources]]

Awaited(i) == advice[i].pc \in {"out", "served"}

\* No question that is still out is of a later page than the present one.
Numbered == \A i \in 1..Len(advice) : advice[i].pc # "dropped" => advice[i].revision <= revision

\* The panel shows, or waits for, the answer to the last question, and the page is
\* still that of the question.
Consulted ==
  advisor.status # "idle" =>
    LET n == Len(advice) IN
    /\ n > 0 /\ advisor.request = n
    /\ advice[n].pc # "dropped"
    /\ advice[n].revision = revision /\ advice[n].epoch = epoch
    /\ advice[n].prompt = prompt /\ advice[n].principal = session
    /\ advice[n].agent = effectFor
    /\ IF advisor.status = "loading" THEN Awaited(n) ELSE advice[n].pc = "over"

\* An answer that would be taken is one the panel waits for.
Expected ==
  LET n == Len(advice) IN
  n > 0 /\ Awaited(n) /\ advice[n].revision = revision => advisor.status = "loading"

AdviceInv == Numbered /\ Consulted /\ Expected

\* What was read of the server was true of the Principal who asked.
Entitled ==
  /\ \A p \in Principals : eligible[p] \subseteq entitled[p]
  /\ \A i \in 1..Len(advice) : advice[i].pc # "dropped" =>
       advice[i].answer \in entitled[advice[i].principal] \cup {None}
  /\ \A e \in 0..MaxSwitches : listing[e].resources \subseteq entitled[listing[e].principal]
  /\ listing[epoch].pc # "over" => listing[epoch].principal = session

OfferInv == Entitled /\ NothingForeignIsOffered

-----------------------------------------------------------------------------
(* Operators *)

\* The Advisor suggests one of the Resources it was given, or none.
LEMMA AdviseOffersWhatItIsGiven ==
  ASSUME NEW resources, NEW text
  PROVE  Advise(resources, text) \in resources \cup {None}
<1>. DEFINE candidates == {r \in resources : FitsAsWell(r, r, text)}
            best == {r \in candidates : \A s \in candidates : FitsAsWell(r, s, text)}
<1>1. CASE Cardinality(best) = 1
  <2>1. best # {}
    BY <1>1, FS_EmptySet
  <2>2. (CHOOSE r \in best : TRUE) \in best
    BY <2>1
  <2>3. Advise(resources, text) = CHOOSE r \in best : TRUE
    BY <1>1 DEF Advise
  <2>. QED
    BY <2>2, <2>3
<1>2. CASE Cardinality(best) # 1
  BY <1>2 DEF Advise
<1>. QED
  BY <1>1, <1>2

LEMMA Domains ==
  ASSUME TypeOK
  PROVE  /\ DOMAIN advice = 1..Len(advice) /\ Len(advice) \in Nat
         /\ DOMAIN listing = 0..MaxSwitches
         /\ \A i \in 1..Len(advice) : advice[i] \in Requests \cup {Dropped}
         /\ \A i \in 1..Len(advice) : advice[i].pc # "dropped" => advice[i] \in Requests
BY DEF TypeOK, Dropped

-----------------------------------------------------------------------------
(* Types *)

LEMMA TypesInit == Init => TypeOK
BY DelegationAssumption
   DEF Init, TypeOK, NoAdvice, Advisor, Request, NoRequest, Statuses, Choices

\* A step of the user.
LEMMA TypesUser ==
  ASSUME TypeOK,
         \/ \E text \in Texts : EditPrompt(text)
         \/ \E r \in Resources \cup {None} : Pick(r)
         \/ Send \/ BusyChanges \/ Suggest \/ Effect
         \/ \E a \in Agents : SelectionChanges(a)
         \/ \E p \in Principals : SwitchSession(p)
  PROVE  TypeOK'
<1>. USE DEF page, setup, server, calls, bounds, TypeOK
<1>1. CASE \E text \in Texts : EditPrompt(text)
  BY <1>1 DEF EditPrompt, SetPrompt, NoAdvice, Advisor, Statuses, Choices
<1>2. CASE \E r \in Resources \cup {None} : Pick(r)
  BY <1>2 DEF Pick, Choice, Controls, Choices
<1>3. CASE Send
  BY <1>3, DelegationAssumption DEF Send, Reset, NoAdvice, Advisor, Statuses, Choices
<1>4. CASE BusyChanges
  BY <1>4 DEF BusyChanges
<1>5. CASE Suggest
  <2>. DEFINE new == [pc |-> "out", revision |-> revision, epoch |-> epoch, prompt |-> prompt,
                      principal |-> session, agent |-> agent, answer |-> None]
  <2>1. new \in Requests
    BY DEF Requests, Choices
  <2>2. advice' \in Seq(Requests \cup {Dropped})
    BY <1>5, <2>1 DEF Suggest
  <2>3. advisor' \in [status : Statuses, resource : Choices, request : Nat]
    BY <1>5 DEF Suggest, Advisor, Statuses, Choices
  <2>. QED
    BY <1>5, <2>2, <2>3 DEF Suggest
<1>6. CASE Effect
  BY <1>6 DEF Effect, Reset, NoAdvice, Advisor, Statuses, Choices
<1>7. CASE \E a \in Agents : SelectionChanges(a)
  BY <1>7 DEF SelectionChanges
<1>8. CASE \E p \in Principals : SwitchSession(p)
  <2>1. PICK p \in Principals : SwitchSession(p)
    BY <1>8
  <2>2. epoch' \in 0..MaxSwitches /\ session' \in Principals
    BY <2>1, DelegationAssumption DEF SwitchSession
  <2>3. listing' \in [0..MaxSwitches ->
          [pc : {"out", "served", "over"}, principal : Principals, resources : SUBSET Resources]]
    BY <2>1 DEF SwitchSession, Request
  <2>. QED
    BY <2>1, <2>2, <2>3, DelegationAssumption
       DEF SwitchSession, Reset, NoAdvice, Advisor, Statuses, Choices
<1>. QED
  BY <1>1, <1>2, <1>3, <1>4, <1>5, <1>6, <1>7, <1>8

\* A step of the server, or an answer.
LEMMA TypesAnswer ==
  ASSUME TypeOK,
         \/ \E i \in DOMAIN advice : ServeAdvice(i) \/ AdviceArrives(i) \/ AdviceFails(i)
         \/ \E e \in DOMAIN listing : ServeCatalog(e) \/ CatalogArrives(e)
         \/ \E p \in Principals, r \in Resources : EligibleChanges(p, r)
  PROVE  TypeOK'
<1>. USE DEF page, setup, server, calls, bounds
<1>1. ASSUME NEW i \in DOMAIN advice, ServeAdvice(i)
      PROVE  TypeOK'
  <2>1. i \in 1..Len(advice) /\ advice[i] \in Requests
    BY <1>1, Domains DEF ServeAdvice
  <2>2. Advise(eligible[advice[i].principal], advice[i].prompt) \in Choices
    BY <2>1, AdviseOffersWhatItIsGiven DEF TypeOK, Requests, Choices
  <2>3. [advice[i] EXCEPT !.pc = "served",
           !.answer = Advise(eligible[advice[i].principal], advice[i].prompt)] \in Requests
    BY <2>1, <2>2 DEF Requests
  <2>4. advice' \in Seq(Requests \cup {Dropped})
    <3>1. advice' = [advice EXCEPT ![i] = [advice[i] EXCEPT !.pc = "served",
             !.answer = Advise(eligible[advice[i].principal], advice[i].prompt)]]
      BY <1>1, <2>1, Domains DEF ServeAdvice
    <3>2. [advice EXCEPT ![i] = [advice[i] EXCEPT !.pc = "served",
             !.answer = Advise(eligible[advice[i].principal], advice[i].prompt)]]
            \in Seq(Requests \cup {Dropped})
      BY <2>1, <2>3, ExceptSeq DEF TypeOK
    <3>. QED
      BY <3>1, <3>2
  <2>. QED
    BY <1>1, <2>4 DEF TypeOK, ServeAdvice
<1>2. ASSUME NEW i \in DOMAIN advice, NEW status \in Statuses, Awaited(i), Settle(i, status)
      PROVE  /\ advice' \in Seq(Requests \cup {Dropped})
             /\ advisor' \in [status : Statuses, resource : Choices, request : Nat]
  <2>1. i \in 1..Len(advice) /\ advice[i] \in Requests /\ i \in Nat
    BY <1>2, Domains DEF Awaited
  <2>2. [advice[i] EXCEPT !.pc = "over"] \in Requests
    BY <2>1 DEF Requests
  <2>3. advice' \in Seq(Requests \cup {Dropped})
    <3>1. \/ advice' = [advice EXCEPT ![i] = [advice[i] EXCEPT !.pc = "over"]]
          \/ advice' = [advice EXCEPT ![i] = Dropped]
      BY <1>2, <2>1, Domains DEF Settle
    <3>2. /\ [advice EXCEPT ![i] = [advice[i] EXCEPT !.pc = "over"]]
               \in Seq(Requests \cup {Dropped})
          /\ [advice EXCEPT ![i] = Dropped] \in Seq(Requests \cup {Dropped})
      BY <2>1, <2>2, ExceptSeq DEF TypeOK
    <3>. QED
      BY <3>1, <3>2
  <2>. QED
    BY <1>2, <2>1, <2>3 DEF TypeOK, Settle, Advisor, Requests, Choices
<1>3. ASSUME NEW i \in DOMAIN advice, AdviceArrives(i) \/ AdviceFails(i)
      PROVE  TypeOK'
  <2>1. \E status \in Statuses : Awaited(i) /\ Settle(i, status)
    BY <1>3 DEF AdviceArrives, AdviceFails, Awaited, Statuses
  <2>. QED
    BY <1>2, <1>3, <2>1 DEF TypeOK, AdviceArrives, AdviceFails
<1>4. ASSUME NEW e \in DOMAIN listing, ServeCatalog(e)
      PROVE  TypeOK'
  BY <1>4, Domains DEF TypeOK, ServeCatalog
<1>5. ASSUME NEW e \in DOMAIN listing, CatalogArrives(e)
      PROVE  TypeOK'
  <2>1. catalog' \subseteq Resources /\ picked' \in Choices
    BY <1>5, Domains DEF TypeOK, CatalogArrives, Show, Choices
  <2>2. NoRequest \in [pc : {"out", "served", "over"}, principal : Principals,
                       resources : SUBSET Resources]
    BY DelegationAssumption DEF NoRequest
  <2>. QED
    BY <1>5, <2>1, <2>2, Domains DEF TypeOK, CatalogArrives
<1>6. ASSUME NEW p \in Principals, NEW r \in Resources, EligibleChanges(p, r)
      PROVE  TypeOK'
  BY <1>6 DEF TypeOK, EligibleChanges
<1>. QED
  BY <1>1, <1>3, <1>4, <1>5, <1>6

LEMMA TypesKept == TypeOK /\ [Next]_vars => TypeOK'
<1>. SUFFICES ASSUME TypeOK, [Next]_vars PROVE TypeOK'
  OBVIOUS
<1>1. CASE UNCHANGED vars
  BY <1>1 DEF vars, page, setup, server, calls, bounds, TypeOK
<1>2. CASE Next
  BY <1>2, TypesUser, TypesAnswer DEF Next
<1>. QED
  BY <1>1, <1>2

\* Questions, answers, suggestions and picks keep their types; Entitlements and session
\* stay those of the constants.
THEOREM DelegationTypeCorrect == Spec => []TypeOK
<1>. QED
  BY TypesInit, TypesKept, PTL DEF Spec

-----------------------------------------------------------------------------
(* Questions and answers *)

SameQuestion(new, old) ==
  /\ new.revision = old.revision /\ new.epoch = old.epoch /\ new.prompt = old.prompt
  /\ new.principal = old.principal /\ new.agent = old.agent

AsksOrAnswers ==
  Suggest \/ \E i \in DOMAIN advice : ServeAdvice(i) \/ AdviceArrives(i) \/ AdviceFails(i)

\* Any other step leaves the page of the last question as it is, or it turns the page:
\* then the panel is cleared and the revision is a new one.
LEMMA PageStaysOrTurns ==
  ASSUME TypeOK, [Next]_vars, ~AsksOrAnswers
  PROVE  /\ UNCHANGED advice
         /\ \/ UNCHANGED <<advisor, revision, epoch, prompt, session, effectFor>>
            \/ advisor'.status = "idle" /\ revision' \in Nat /\ revision' > revision
<1>. USE DEF page, setup, server, calls, bounds
<1>1. CASE \E text \in Texts : EditPrompt(text)
  BY <1>1 DEF TypeOK, EditPrompt, SetPrompt, NoAdvice, Advisor
<1>2. CASE \E r \in Resources \cup {None} : Pick(r)
  BY <1>2 DEF Pick
<1>3. CASE Send
  BY <1>3 DEF TypeOK, Send, Reset, NoAdvice, Advisor
<1>4. CASE BusyChanges
  BY <1>4 DEF BusyChanges
<1>5. CASE Effect
  BY <1>5 DEF TypeOK, Effect, Reset, NoAdvice, Advisor
<1>6. CASE \E a \in Agents : SelectionChanges(a)
  BY <1>6 DEF SelectionChanges
<1>7. CASE \E p \in Principals : SwitchSession(p)
  BY <1>7 DEF TypeOK, SwitchSession, Reset, NoAdvice, Advisor
<1>8. CASE \E e \in DOMAIN listing : ServeCatalog(e) \/ CatalogArrives(e)
  BY <1>8 DEF ServeCatalog, CatalogArrives
<1>9. CASE \E p \in Principals, r \in Resources : EligibleChanges(p, r)
  BY <1>9 DEF EligibleChanges
<1>10. CASE UNCHANGED vars
  BY <1>10 DEF vars
<1>. QED
  BY <1>1, <1>2, <1>3, <1>4, <1>5, <1>6, <1>7, <1>8, <1>9, <1>10 DEF Next, AsksOrAnswers

LEMMA AdviceOnOtherSteps ==
  ASSUME TypeOK, AdviceInv, [Next]_vars, ~AsksOrAnswers
  PROVE  AdviceInv'
<1>1. UNCHANGED advice
  BY PageStaysOrTurns
<1>2. CASE UNCHANGED <<advisor, revision, epoch, prompt, session, effectFor>>
  BY <1>1, <1>2 DEF AdviceInv, Numbered, Consulted, Expected, Awaited
<1>3. CASE advisor'.status = "idle" /\ revision' \in Nat /\ revision' > revision
  <2>1. \A i \in 1..Len(advice) : advice[i].pc # "dropped" =>
          advice[i].revision \in Nat /\ advice[i].revision < revision'
    BY <1>3, Domains DEF TypeOK, AdviceInv, Numbered, Requests
  <2>2. Numbered'
    BY <1>1, <1>3, <2>1 DEF Numbered
  <2>3. Consulted'
    BY <1>3 DEF Consulted
  <2>4. Expected'
    BY <1>1, <1>3, <2>1, Domains DEF Expected, Awaited
  <2>. QED
    BY <2>2, <2>3, <2>4 DEF AdviceInv
<1>. QED
  BY <1>2, <1>3, PageStaysOrTurns

LEMMA AdviceOnSuggest ==
  ASSUME TypeOK, AdviceInv, Suggest
  PROVE  AdviceInv'
<1>. DEFINE n == Len(advice) + 1
<1>1. /\ Len(advice') = n /\ n \in Nat /\ n > 0
      /\ \A i \in 1..Len(advice) : advice'[i] = advice[i]
      /\ advice'[n] = [pc |-> "out", revision |-> revision, epoch |-> epoch,
                       prompt |-> prompt, principal |-> session, agent |-> agent,
                       answer |-> None]
      /\ advisor' = Advisor("loading", None, n)
      /\ UNCHANGED <<revision, epoch, prompt, session, effectFor>> /\ effectFor = agent
  BY DEF TypeOK, Suggest, Controls, Ready, setup, page
<1>2. Numbered'
  BY <1>1 DEF TypeOK, AdviceInv, Numbered
<1>3. Consulted' /\ Expected'
  BY <1>1 DEF Consulted, Expected, Awaited, Advisor
<1>. QED
  BY <1>2, <1>3 DEF AdviceInv

LEMMA AdviceOnAnswers ==
  ASSUME TypeOK, AdviceInv, NEW i \in DOMAIN advice,
         ServeAdvice(i) \/ AdviceArrives(i) \/ AdviceFails(i)
  PROVE  AdviceInv'
<1>. USE DEF page, setup, server, calls, bounds
<1>. DEFINE n == Len(advice)
<1>1. i \in 1..n /\ n \in Nat /\ n > 0 /\ advice[i] \in Requests /\ Awaited(i)
  BY Domains DEF ServeAdvice, AdviceArrives, AdviceFails, Awaited
<1>2. UNCHANGED <<revision, epoch, prompt, session, effectFor>>
  BY DEF ServeAdvice, AdviceArrives, AdviceFails
<1>3. CASE ServeAdvice(i)
  <2>1. /\ Len(advice') = n /\ UNCHANGED advisor
        /\ \A j \in 1..n : j # i => advice'[j] = advice[j]
        /\ advice'[i].pc = "served" /\ SameQuestion(advice'[i], advice[i])
    BY <1>1, <1>3, Domains DEF TypeOK, ServeAdvice, SameQuestion, Requests
  <2>2. \A j \in 1..n :
          /\ SameQuestion(advice'[j], advice[j]) /\ (Awaited(j)' <=> Awaited(j))
          /\ advice'[j].pc # "served" => advice'[j].pc = advice[j].pc
    BY <1>1, <2>1 DEF Awaited, SameQuestion
  <2>3. Numbered'
    BY <1>1, <1>2, <2>1, <2>2 DEF AdviceInv, Numbered, Awaited, SameQuestion
  <2>4. Consulted' /\ Expected'
    BY <1>1, <1>2, <2>1, <2>2 DEF AdviceInv, Consulted, Expected, Awaited, SameQuestion
  <2>. QED
    BY <2>3, <2>4 DEF AdviceInv
<1>4. CASE AdviceArrives(i) \/ AdviceFails(i)
  <2>1. PICK status \in {"suggested", "no-match", "error"} : Settle(i, status)
    BY <1>4 DEF AdviceArrives, AdviceFails
  <2>2. CASE IsCurrent(i)
    <3>1. i = n
      BY <2>2 DEF IsCurrent
    <3>2. /\ Len(advice') = n
          /\ \A j \in 1..n : j # i => advice'[j] = advice[j]
          /\ advice'[i].pc = "over" /\ SameQuestion(advice'[i], advice[i])
      <4>1. advice' = [advice EXCEPT ![i].pc = "over"]
        BY <2>1, <2>2 DEF Settle
      <4>2. /\ Len(advice') = n
            /\ \A j \in 1..n : j # i => advice'[j] = advice[j]
        BY <1>1, <4>1, Domains DEF TypeOK
      <4>3. advice'[i] = [advice[i] EXCEPT !.pc = "over"]
        BY <1>1, <4>1, Domains, Zenon
      <4>4. advice'[i].pc = "over" /\ SameQuestion(advice'[i], advice[i])
        BY <1>1, <4>3 DEF Requests, SameQuestion
      <4>. QED
        BY <4>2, <4>4
    <3>5. advisor'.status = status /\ advisor'.request = n
      BY <2>1, <2>2, <3>1 DEF Settle, Advisor
    <3>6. Numbered'
      BY <1>1, <1>2, <3>1, <3>2 DEF AdviceInv, Numbered, Awaited, SameQuestion
    <3>3. advisor.status = "loading"
      BY <1>1, <2>2 DEF AdviceInv, Expected, IsCurrent
    <3>4. Consulted' /\ Expected'
      BY <1>1, <1>2, <3>1, <3>2, <3>3, <3>5
         DEF AdviceInv, Consulted, Expected, Awaited, SameQuestion, IsCurrent
    <3>. QED
      BY <3>4, <3>6 DEF AdviceInv
  <2>3. CASE ~IsCurrent(i)
    <3>1. /\ Len(advice') = n
          /\ \A j \in 1..n : j # i => advice'[j] = advice[j]
          /\ advice'[i] = Dropped /\ UNCHANGED advisor
      BY <1>1, <2>1, <2>3, Domains DEF TypeOK, Settle
    <3>2. advisor.status # "idle" => i # n
      BY <2>3 DEF AdviceInv, Consulted, IsCurrent
    <3>3. Numbered'
      BY <1>1, <1>2, <3>1 DEF AdviceInv, Numbered, Dropped
    <3>4. Consulted' /\ Expected'
      BY <1>1, <1>2, <3>1, <3>2 DEF AdviceInv, Consulted, Expected, Awaited, Dropped
    <3>. QED
      BY <3>3, <3>4 DEF AdviceInv
  <2>. QED
    BY <2>2, <2>3
<1>. QED
  BY <1>3, <1>4

\* The invariant of the panel: it shows, or waits for, the answer to the last question,
\* asked of the page as it is now.
THEOREM AdviceInvCorrect == Spec => []AdviceInv
<1>1. Init => AdviceInv
  BY DEF Init, AdviceInv, Numbered, Consulted, Expected, NoAdvice, Advisor
<1>2. TypeOK /\ AdviceInv /\ [Next]_vars => AdviceInv'
  BY AdviceOnSuggest, AdviceOnAnswers, AdviceOnOtherSteps DEF AsksOrAnswers
<1>. QED
  BY <1>1, <1>2, DelegationTypeCorrect, PTL DEF Spec

\* The suggestion shown is for the text, the Principal and the Agent of the page.
THEOREM AdviceStaysCurrent == Spec => []AdviceIsCurrent
<1>1. AdviceInv => AdviceIsCurrent
  BY DEF AdviceInv, Consulted, AdviceIsCurrent, Ready
<1>. QED
  BY <1>1, AdviceInvCorrect, PTL

\* The panel never waits for an answer that will be dropped.
THEOREM LoadingEndsWithAnAnswer == Spec => []LoadingIsAwaited
<1>1. TypeOK /\ AdviceInv => LoadingIsAwaited
  BY Domains DEF AdviceInv, Consulted, LoadingIsAwaited, IsCurrent, Awaited
<1>. QED
  BY <1>1, AdviceInvCorrect, DelegationTypeCorrect, PTL

-----------------------------------------------------------------------------
(* What is picked and what is offered *)

\* Between a selection and its effect the pick is still that of the Agent before.
ChoiceInv ==
  picked # None =>
    choice = [resource |-> picked, agent |-> effectFor, epoch |-> epoch, sends |-> sends]

LEMMA ChoiceOnNext == ChoiceInv /\ [Next]_vars => ChoiceInv'
<1>. SUFFICES ASSUME ChoiceInv, [Next]_vars PROVE ChoiceInv'
  OBVIOUS
<1>. USE DEF page, setup, server, calls, bounds, ChoiceInv
<1>1. CASE \E r \in Resources \cup {None} : Pick(r)
  BY <1>1 DEF Pick, Choice, Controls, Ready
<1>2. CASE Send \/ Effect \/ \E p \in Principals : SwitchSession(p)
  BY <1>2 DEF Send, Effect, SwitchSession, Reset
<1>3. CASE \/ \E text \in Texts : EditPrompt(text)
           \/ BusyChanges \/ Suggest
           \/ \E a \in Agents : SelectionChanges(a)
           \/ \E p \in Principals, r \in Resources : EligibleChanges(p, r)
  BY <1>3 DEF EditPrompt, BusyChanges, Suggest, SelectionChanges, EligibleChanges
<1>4. CASE \E i \in DOMAIN advice : ServeAdvice(i) \/ AdviceArrives(i) \/ AdviceFails(i)
  BY <1>4 DEF ServeAdvice, AdviceArrives, AdviceFails
<1>5. CASE \E e \in DOMAIN listing : ServeCatalog(e) \/ CatalogArrives(e)
  BY <1>5 DEF ServeCatalog, CatalogArrives, Show
<1>6. CASE UNCHANGED vars
  BY <1>6 DEF vars
<1>. QED
  BY <1>1, <1>2, <1>3, <1>4, <1>5, <1>6 DEF Next

\* What is picked is the user's last choice, made for this Agent, in this session and
\* since the last send; a catalog can only take it back.
THEOREM ChoiceStaysExplicit == Spec => []ChoiceIsExplicit
<1>1. Init => ChoiceInv
  BY DEF Init, ChoiceInv
<1>2. ChoiceInv => ChoiceIsExplicit
  BY DEF ChoiceInv, ChoiceIsExplicit, Choice, Ready
<1>. QED
  BY <1>1, <1>2, ChoiceOnNext, PTL DEF Spec

LEMMA OfferInit == Init => OfferInv
BY DelegationAssumption DEF Init, OfferInv, Entitled, NothingForeignIsOffered, NoAdvice,
   Advisor, Request, NoRequest

\* Steps that neither ask nor answer.
LEMMA OfferOnUser ==
  ASSUME TypeOK, OfferInv,
         \/ \E text \in Texts : EditPrompt(text)
         \/ \E r \in Resources \cup {None} : Pick(r)
         \/ Send \/ BusyChanges \/ Effect
         \/ \E a \in Agents : SelectionChanges(a)
  PROVE  OfferInv'
<1>. USE DEF page, setup, server, calls, bounds
<1>1. UNCHANGED <<eligible, entitled, session, epoch, advice, listing, catalog>>
  BY DEF EditPrompt, Pick, Send, BusyChanges, Effect, SelectionChanges
<1>2. Entitled'
  BY <1>1 DEF OfferInv, Entitled
<1>3. /\ picked' \in {None, picked, advisor.resource} \cup catalog
      /\ advisor' \in {advisor, NoAdvice}
  BY DEF EditPrompt, SetPrompt, Pick, Send, BusyChanges, Effect, SelectionChanges, Reset
<1>4. NothingForeignIsOffered'
  BY <1>1, <1>3 DEF OfferInv, NothingForeignIsOffered, NoAdvice, Advisor
<1>. QED
  BY <1>2, <1>4 DEF OfferInv

LEMMA OfferOnSwitch ==
  ASSUME TypeOK, OfferInv, NEW p \in Principals, SwitchSession(p)
  PROVE  OfferInv'
<1>. USE DEF page, setup, server, calls, bounds
<1>1. /\ epoch' \in 0..MaxSwitches /\ session' = p
      /\ listing' = [listing EXCEPT ![epoch'] = Request(p)]
      /\ UNCHANGED <<eligible, entitled, advice>>
  BY DelegationAssumption DEF TypeOK, SwitchSession
<1>2. Entitled'
  BY <1>1, Domains DEF TypeOK, OfferInv, Entitled, Request
<1>3. NothingForeignIsOffered'
  BY DEF SwitchSession, Reset, NoAdvice, Advisor, NothingForeignIsOffered
<1>. QED
  BY <1>2, <1>3 DEF OfferInv

LEMMA OfferOnServe ==
  ASSUME TypeOK, OfferInv,
         \/ Suggest
         \/ \E i \in DOMAIN advice : ServeAdvice(i)
         \/ \E e \in DOMAIN listing : ServeCatalog(e)
         \/ \E p \in Principals, r \in Resources : EligibleChanges(p, r)
  PROVE  OfferInv'
<1>. USE DEF page, setup, server, calls, bounds
<1>1. NothingForeignIsOffered'
  <2>1. /\ UNCHANGED <<session, catalog, picked>>
        /\ advisor'.resource \in {advisor.resource, None}
    <3>1. CASE Suggest
      BY <3>1 DEF Suggest, Advisor
    <3>2. CASE \E i \in DOMAIN advice : ServeAdvice(i)
      BY <3>2 DEF ServeAdvice
    <3>3. CASE \E e \in DOMAIN listing : ServeCatalog(e)
      BY <3>3 DEF ServeCatalog
    <3>4. CASE \E p \in Principals, r \in Resources : EligibleChanges(p, r)
      BY <3>4 DEF EligibleChanges
    <3>. QED
      BY <3>1, <3>2, <3>3, <3>4
  <2>2. entitled[session] \subseteq entitled'[session]
    <3>1. CASE UNCHANGED entitled
      BY <3>1
    <3>2. CASE \E p \in Principals, r \in Resources : EligibleChanges(p, r)
      BY <3>2 DEF TypeOK, EligibleChanges
    <3>. QED
      BY <3>1, <3>2 DEF Suggest, ServeAdvice, ServeCatalog
  <2>. QED
    BY <2>1, <2>2 DEF OfferInv, NothingForeignIsOffered
<1>2. CASE Suggest
  <2>1. /\ Len(advice') = Len(advice) + 1 /\ Len(advice) \in Nat
        /\ \A i \in 1..Len(advice) : advice'[i] = advice[i]
        /\ advice'[Len(advice) + 1].answer = None
    BY <1>2 DEF TypeOK, Suggest
  <2>. QED
    BY <1>1, <1>2, <2>1 DEF Suggest, OfferInv, Entitled
<1>3. ASSUME NEW i \in DOMAIN advice, ServeAdvice(i)
      PROVE  OfferInv'
  <2>. DEFINE answer == Advise(eligible[advice[i].principal], advice[i].prompt)
  <2>1. i \in 1..Len(advice) /\ advice[i] \in Requests
    BY <1>3, Domains DEF ServeAdvice
  <2>2. answer \in eligible[advice[i].principal] \cup {None}
    BY AdviseOffersWhatItIsGiven
  <2>3. answer \in entitled[advice[i].principal] \cup {None}
    BY <2>1, <2>2 DEF OfferInv, Entitled, Requests
  <2>4. /\ Len(advice') = Len(advice)
        /\ \A j \in 1..Len(advice) : j # i => advice'[j] = advice[j]
        /\ advice'[i].answer = answer /\ advice'[i].principal = advice[i].principal
    <3>. HIDE DEF answer
    <3>1. advice' = [advice EXCEPT ![i].pc = "served", ![i].answer = answer]
      BY <1>3 DEF ServeAdvice, answer
    <3>2. /\ Len(advice') = Len(advice)
          /\ \A j \in 1..Len(advice) : j # i => advice'[j] = advice[j]
      BY <2>1, <3>1, Domains DEF TypeOK
    <3>3. advice'[i] = [advice[i] EXCEPT !.pc = "served", !.answer = answer]
      BY <2>1, <3>1, Domains, Zenon
    <3>4. advice'[i].answer = answer /\ advice'[i].principal = advice[i].principal
      BY <2>1, <3>3 DEF Requests
    <3>. QED
      BY <3>2, <3>4
  <2>5. \A j \in 1..Len(advice') : advice'[j].pc # "dropped" =>
          advice'[j].answer \in entitled[advice'[j].principal] \cup {None}
    <3>. HIDE DEF answer
    <3>. QED
      BY <2>1, <2>3, <2>4 DEF OfferInv, Entitled
  <2>. QED
    BY <1>1, <1>3, <2>5 DEF ServeAdvice, OfferInv, Entitled
<1>4. ASSUME NEW e \in DOMAIN listing, ServeCatalog(e)
      PROVE  OfferInv'
  <2>1. /\ e \in 0..MaxSwitches /\ listing[e].principal \in Principals
        /\ \A d \in 0..MaxSwitches : d # e => listing'[d] = listing[d]
        /\ listing'[e].principal = listing[e].principal
        /\ listing'[e].resources = eligible[listing[e].principal]
        /\ listing[e].pc = "out"
    BY <1>4, Domains DEF TypeOK, ServeCatalog
  <2>. QED
    BY <1>1, <1>4, <2>1 DEF TypeOK, ServeCatalog, OfferInv, Entitled
<1>5. ASSUME NEW p \in Principals, NEW r \in Resources, EligibleChanges(p, r)
      PROVE  OfferInv'
  <2>1. /\ \A q \in Principals : entitled[q] \subseteq entitled'[q]
        /\ \A q \in Principals : eligible'[q] \subseteq entitled'[q]
    BY <1>5 DEF TypeOK, EligibleChanges, OfferInv, Entitled
  <2>2. \A i \in 1..Len(advice) : advice[i].pc # "dropped" => advice[i].principal \in Principals
    BY Domains DEF Requests
  <2>3. UNCHANGED <<advice, listing, epoch, session>>
    BY <1>5 DEF EligibleChanges
  <2>. QED
    BY <1>1, <2>1, <2>2, <2>3 DEF TypeOK, OfferInv, Entitled
<1>. QED
  BY <1>2, <1>3, <1>4, <1>5

LEMMA OfferOnAnswers ==
  ASSUME TypeOK, AdviceInv, OfferInv,
         \/ \E i \in DOMAIN advice : AdviceArrives(i) \/ AdviceFails(i)
         \/ \E e \in DOMAIN listing : CatalogArrives(e)
  PROVE  OfferInv'
<1>. USE DEF page, setup, server, calls, bounds
<1>1. ASSUME NEW i \in DOMAIN advice, AdviceArrives(i) \/ AdviceFails(i)
      PROVE  OfferInv'
  <2>1. i \in 1..Len(advice) /\ advice[i] \in Requests /\ Awaited(i)
    BY <1>1, Domains DEF AdviceArrives, AdviceFails, Awaited
  <2>2. PICK status \in {"suggested", "no-match", "error"} :
          Settle(i, status) /\ (status = "suggested" => advice[i].answer # None)
    BY <1>1 DEF AdviceArrives, AdviceFails
  <2>3. UNCHANGED <<eligible, entitled, session, epoch, listing, catalog, picked>>
    BY <1>1 DEF AdviceArrives, AdviceFails
  <2>4. /\ Len(advice') = Len(advice)
        /\ \A j \in 1..Len(advice) : advice'[j].pc # "dropped" =>
             /\ advice[j].pc # "dropped" /\ advice'[j].answer = advice[j].answer
             /\ advice'[j].principal = advice[j].principal
    <3>1. CASE IsCurrent(i)
      <4>1. advice' = [advice EXCEPT ![i].pc = "over"]
        BY <2>2, <3>1 DEF Settle
      <4>2. /\ Len(advice') = Len(advice)
            /\ \A j \in 1..Len(advice) : j # i => advice'[j] = advice[j]
        BY <2>1, <4>1, Domains DEF TypeOK
      <4>3. advice'[i] = [advice[i] EXCEPT !.pc = "over"]
        BY <2>1, <4>1, Domains, Zenon
      <4>4. advice'[i].answer = advice[i].answer /\ advice'[i].principal = advice[i].principal
        BY <2>1, <4>3 DEF Requests
      <4>. QED
        BY <2>1, <4>2, <4>4 DEF Awaited
    <3>2. CASE ~IsCurrent(i)
      BY <2>1, <2>2, <3>2, Domains DEF TypeOK, Settle, Dropped
    <3>. QED
      BY <3>1, <3>2
  <2>5. Entitled'
    BY <2>3, <2>4 DEF OfferInv, Entitled
  <2>6. advisor'.resource \in {advisor.resource, None} \cup entitled[session]
    <3>1. CASE IsCurrent(i)
      <4>1. advice[i].principal = session
        BY <2>1, <3>1 DEF AdviceInv, Expected, Consulted, IsCurrent
      <4>2. advisor'.resource \in {None, advice[i].answer}
        BY <2>2, <3>1 DEF Settle, Advisor
      <4>. QED
        BY <2>1, <4>1, <4>2 DEF OfferInv, Entitled, Awaited
    <3>2. CASE ~IsCurrent(i)
      BY <2>2, <3>2 DEF Settle
    <3>. QED
      BY <3>1, <3>2
  <2>7. NothingForeignIsOffered'
    BY <2>3, <2>6 DEF OfferInv, NothingForeignIsOffered
  <2>. QED
    BY <2>5, <2>7 DEF OfferInv
<1>2. ASSUME NEW e \in DOMAIN listing, CatalogArrives(e)
      PROVE  OfferInv'
  <2>1. e \in 0..MaxSwitches
    BY Domains
  <2>2. /\ listing' = [listing EXCEPT ![e] = NoRequest]
        /\ UNCHANGED <<eligible, entitled, session, epoch, advice, advisor>>
    BY <1>2 DEF CatalogArrives
  <2>3. Entitled'
    BY <2>1, <2>2, Domains, DelegationAssumption DEF TypeOK, OfferInv, Entitled, NoRequest
  <2>4. catalog' \in {catalog, {}} \/ (e = epoch /\ catalog' = listing[e].resources
                                      /\ listing[e].pc = "served")
    BY <1>2 DEF CatalogArrives, OfSession, Show
  <2>5. catalog' \subseteq entitled[session]
    BY <2>1, <2>4 DEF OfferInv, Entitled, NothingForeignIsOffered
  <2>6. picked' \in {picked, None}
    BY <1>2 DEF CatalogArrives, Show
  <2>7. NothingForeignIsOffered'
    BY <2>2, <2>5, <2>6 DEF OfferInv, NothingForeignIsOffered
  <2>. QED
    BY <2>3, <2>7 DEF OfferInv
<1>. QED
  BY <1>1, <1>2

\* No answer of another session, and no Entitlement the Principal never had, gets into
\* the catalog, the suggestion or the pick.
THEOREM NothingForeignIsEverOffered == Spec => []NothingForeignIsOffered
<1>1. TypeOK /\ AdviceInv /\ OfferInv /\ [Next]_vars => OfferInv'
  <2>. SUFFICES ASSUME TypeOK, AdviceInv, OfferInv, [Next]_vars PROVE OfferInv'
    OBVIOUS
  <2>1. CASE UNCHANGED vars
    BY <2>1 DEF vars, page, setup, server, calls, bounds, OfferInv, Entitled,
                NothingForeignIsOffered
  <2>2. CASE Next
    BY <2>2, OfferOnUser, OfferOnSwitch, OfferOnServe, OfferOnAnswers DEF Next
  <2>. QED
    BY <2>1, <2>2
<1>2. OfferInv => NothingForeignIsOffered
  BY DEF OfferInv
<1>. QED
  BY <1>1, <1>2, OfferInit, AdviceInvCorrect, DelegationTypeCorrect, PTL DEF Spec
=============================================================================
