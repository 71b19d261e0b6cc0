---------------------------- MODULE StoreProofs ----------------------------
(***************************************************************************)
(* The JSON store implements its contract, for every set of requests, every *)
(* initial file and any number of failures and crashes.                    *)
(***************************************************************************)
EXTENDS StoreProperties, TLAPS

USE DEF Requests

-----------------------------------------------------------------------------
(* Histories *)

LEMMA CurrentIsLatest ==
  ASSUME NEW h \in Histories, h # {}
  PROVE  Current(h) \in h /\ \A f \in h : f.gen <= Current(h).gen
BY DEF Histories, Current

LEMMA GenerationIsNatural ==
  ASSUME NEW h \in Histories
  PROVE  LatestGeneration(h) \in Nat
BY CurrentIsLatest DEF LatestGeneration, Histories, Entries

\* The latest entry of a history is the one that has the latest number.
LEMMA LatestIs ==
  ASSUME NEW h \in Histories, NEW e \in h, \A f \in h : f.gen <= e.gen
  PROVE  LatestGeneration(h) = e.gen
<1>1. Current(h) \in h /\ \A f \in h : f.gen <= Current(h).gen
  BY CurrentIsLatest
<1>2. e.gen \in Nat /\ Current(h).gen \in Nat
  BY <1>1 DEF Histories, Entries
<1>. QED
  BY <1>1, <1>2 DEF LatestGeneration

LEMMA GrantedHistory ==
  ASSUME NEW h \in Histories
  PROVE  /\ Granted(h) \in Histories
         /\ Granted(h) # {}
         /\ h \subseteq Granted(h)
         /\ ~IsActive(h) => LatestGeneration(Granted(h)) = LatestGeneration(h) + 1
         /\ Unambiguous(h) => Unambiguous(Granted(h))
<1>1. CASE IsActive(h)
  BY <1>1 DEF Granted, IsActive
<1>2. CASE ~IsActive(h)
  <2>. DEFINE n == [gen |-> LatestGeneration(h) + 1, status |-> "active"]
  <2>1. Granted(h) = h \cup {n}
    BY <1>2 DEF Granted
  <2>2. LatestGeneration(h) \in Nat /\ n \in Entries
    BY GenerationIsNatural DEF Entries
  <2>3. \A f \in h : f \in Entries /\ f.gen <= LatestGeneration(h)
    BY CurrentIsLatest DEF LatestGeneration, Histories
  <2>4. \A f \in h : f.gen \in Nat
    BY <2>3 DEF Entries
  <2>5. n.gen = LatestGeneration(h) + 1 /\ \A f \in h : f.gen < n.gen
    BY <2>2, <2>3, <2>4
  <2>6. \A f \in h \cup {n} : f.gen <= n.gen
    BY <2>2, <2>4, <2>5
  <2>7. h \cup {n} \in Histories
    BY <2>2, <2>3, <2>6 DEF Histories
  <2>8. LatestGeneration(h \cup {n}) = n.gen
    BY <2>6, <2>7, LatestIs
  <2>9. Unambiguous(h) => Unambiguous(h \cup {n})
    <3>1. SUFFICES ASSUME Unambiguous(h), NEW e \in h \cup {n}, NEW f \in h \cup {n}
                   PROVE  /\ e.gen = f.gen => e = f
                          /\ e.status = "active" => f.gen <= e.gen
      BY DEF Unambiguous
    <3>2. CASE e = n
      BY <3>2, <2>2, <2>4, <2>5, <2>6
    <3>3. CASE e \in h
      <4>1. e.status # "active"
        <5>1. Current(h) \in h /\ e.gen <= Current(h).gen /\ Current(h).status # "active"
          BY <3>3, <1>2, CurrentIsLatest DEF IsActive
        <5>2. e.status = "active" => Current(h).gen <= e.gen
          BY <3>1, <3>3, <5>1 DEF Unambiguous
        <5>3. e.status = "active" => e.gen = Current(h).gen
          BY <5>1, <5>2, <3>3, <2>4
        <5>. QED
          BY <5>1, <5>3, <3>1, <3>3 DEF Unambiguous
      <4>. QED
        BY <4>1, <3>1, <3>3, <2>4, <2>5 DEF Unambiguous
    <3>. QED
      BY <3>2, <3>3
  <2>. QED
    BY <2>1, <2>5, <2>7, <2>8, <2>9
<1>. QED
  BY <1>1, <1>2

LEMMA RevokedHistory ==
  ASSUME NEW h \in Histories
  PROVE  /\ Revoked(h) \in Histories
         /\ h # {} => Revoked(h) # {}
         /\ LatestGeneration(Revoked(h)) = LatestGeneration(h)
         /\ ~IsActive(h) => Revoked(h) = h
         /\ Unambiguous(h) => Unambiguous(Revoked(h))
<1>1. CASE ~IsActive(h)
  BY <1>1 DEF Revoked
<1>2. CASE IsActive(h)
  <2>. DEFINE c == Current(h)
              r == [c EXCEPT !.status = "revoked"]
              new == (h \ {c}) \cup {r}
  <2>1. Revoked(h) = new
    BY <1>2 DEF Revoked
  <2>2. h # {} /\ c \in h /\ \A f \in h : f.gen <= c.gen
    BY <1>2, CurrentIsLatest DEF IsActive
  <2>3. \A f \in h : f \in Entries /\ f.gen \in Nat
    BY DEF Histories, Entries
  <2>4. r \in Entries /\ r.gen = c.gen /\ r.status = "revoked"
    BY <2>2, <2>3 DEF Entries
  <2>. HIDE DEF c, r
  <2>5. r \in new /\ \A f \in new : f.gen <= r.gen
    BY <2>2, <2>3, <2>4
  <2>6. new \in Histories
    BY <2>3, <2>4, <2>5 DEF Histories
  <2>7. LatestGeneration(new) = r.gen
    BY <2>5, <2>6, LatestIs
  <2>8. LatestGeneration(h) = c.gen
    BY <2>2, LatestIs
  <2>9. Unambiguous(h) => Unambiguous(new)
    <3>1. SUFFICES ASSUME Unambiguous(h), NEW e \in new, NEW f \in new
                   PROVE  /\ e.gen = f.gen => e = f
                          /\ e.status = "active" => f.gen <= e.gen
      BY DEF Unambiguous
    <3>2. \A g \in h \ {c} : g.gen # c.gen
      BY <2>2, <3>1 DEF Unambiguous
    <3>3. CASE e = r
      BY <3>3, <3>2, <2>4
    <3>4. CASE e \in h \ {c}
      <4>1. CASE f = r
        BY <3>1, <3>2, <3>4, <4>1, <2>2, <2>4 DEF Unambiguous
      <4>2. CASE f \in h \ {c}
        BY <3>1, <3>4, <4>2 DEF Unambiguous
      <4>. QED
        BY <4>1, <4>2
    <3>. QED
      BY <3>3, <3>4
  <2>. QED
    BY <2>1, <2>4, <2>5, <2>6, <2>7, <2>8, <2>9, <1>2
<1>. QED
  BY <1>1, <1>2

-----------------------------------------------------------------------------
(* Contents that a server may work on: what the schema accepts, after the   *)
(* backfill.                                                               *)

Sound(c) == c \in Contents /\ SchemaAccepts(c) /\ c.ledger[Inventory] # {}

LEMMA FirstIsHistory ==
  /\ First \in Histories /\ First # {} /\ Unambiguous(First)
  /\ {} \in Histories /\ Unambiguous({})
<1>. DEFINE e == [gen |-> 1, status |-> "active"]
<1>1. e \in Entries /\ e.gen = 1 /\ First = {e}
  BY DEF Entries, First
<1>2. First \in SUBSET Entries /\ e \in First /\ \A f \in First : f.gen <= e.gen
  BY <1>1
<1>. HIDE DEF e
<1>3. First \in Histories
  BY <1>2 DEF Histories
<1>. QED
  BY <1>1, <1>2, <1>3 DEF Unambiguous, Histories

LEMMA SeededIsSound ==
  ASSUME NEW N \in SUBSET Notes, N \cap Unfit = {}
  PROVE  Sound([version |-> 2, notes |-> N, ledger |-> Seeded])
BY FirstIsHistory, LedgerAssumption DEF Sound, Contents, SchemaAccepts, Seeded

LEMMA UpgradedIsSound ==
  ASSUME NEW f \in Contents \cup {Absent}, Readable(f),
         f \in Contents /\ f.version = 1 => FitsVersion1(f)
  PROVE  Sound(Upgraded(f))
<1>1. CASE f = Absent
  BY <1>1, SeededIsSound DEF Upgraded, EmptyDatabase
<1>2. CASE f # Absent /\ f.version = 1
  BY <1>2, SeededIsSound, NoSuchContents DEF Upgraded, Migrated, FitsVersion1, Contents
<1>3. CASE f # Absent /\ f.version # 1
  <2>1. f \in Contents /\ SchemaAccepts(f) /\ Upgraded(f) = Backfilled(f)
    BY <1>3, NoSuchContents DEF Upgraded, Readable
  <2>2. CASE f.ledger[Inventory] # {}
    BY <2>1, <2>2 DEF Backfilled, Sound
  <2>3. CASE f.ledger[Inventory] = {}
    <3>. DEFINE b == [f EXCEPT !.ledger[Inventory] = First]
    <3>1. Inventory \in Pairs /\ Inventory \in Matrix
      BY LedgerAssumption
    <3>2. b \in Contents /\ b.version = 2 /\ b.notes = f.notes
      BY <2>1, FirstIsHistory DEF Contents, SchemaAccepts
    <3>3. \A p \in Pairs : b.ledger[p] = IF p = Inventory THEN First ELSE f.ledger[p]
      BY <2>1, <3>1 DEF Contents
    <3>4. SchemaAccepts(b)
      BY <2>1, <3>1, <3>2, <3>3, FirstIsHistory DEF SchemaAccepts
    <3>. QED
      BY <2>1, <2>3, <3>1, <3>2, <3>3, <3>4, FirstIsHistory DEF Backfilled, Sound
  <2>. QED
    BY <2>2, <2>3
<1>. QED
  BY <1>1, <1>2, <1>3

LEMMA SoundStays ==
  ASSUME NEW c, Sound(c)
  PROVE  Upgraded(c) = c /\ Readable(c) /\ c \notin {Absent, Torn} /\ c.version = 2
BY NoSuchContents DEF Sound, SchemaAccepts, Upgraded, Backfilled, Readable

LEMMA EffectIsSound ==
  ASSUME NEW t \in Requests, NEW c, Sound(c), Succeeds(t, c)
  PROVE  Sound(Effect(t, c))
<1>1. c \in Contents /\ c.version = 2 /\ Inventory \in Pairs
  BY LedgerAssumption DEF Sound, SchemaAccepts
<1>2. CASE t \in Grants
  <2>1. Effect(t, c) = [c EXCEPT !.ledger[PairOf[t]] = Granted(c.ledger[PairOf[t]])]
    BY <1>2, LedgerAssumption DEF Effect
  <2>2. PairOf[t] \in Pairs /\ c.ledger[PairOf[t]] \in Histories
    BY <1>1, <1>2, LedgerAssumption DEF Contents
  <2>. QED
    BY <1>1, <2>1, <2>2, GrantedHistory DEF Sound, Succeeds, Contents
<1>3. CASE t \in Revokes
  <2>1. Effect(t, c) = [c EXCEPT !.ledger[PairOf[t]] = Revoked(c.ledger[PairOf[t]])]
    BY <1>3, LedgerAssumption DEF Effect
  <2>2. PairOf[t] \in Pairs /\ c.ledger[PairOf[t]] \in Histories
    BY <1>1, <1>3, LedgerAssumption DEF Contents
  <2>. QED
    BY <1>1, <2>1, <2>2, RevokedHistory DEF Sound, Succeeds, Contents
<1>4. CASE t \in Notes
  <2>1. Effect(t, c) = [c EXCEPT !.notes = c.notes \cup {t}]
    BY <1>4, LedgerAssumption DEF Effect
  <2>. QED
    BY <1>1, <1>4, <2>1 DEF Sound, Succeeds, Contents
<1>. QED
  BY <1>2, <1>3, <1>4

LEMMA AnswerIsNatural ==
  ASSUME NEW t \in Requests, NEW c \in Contents
  PROVE  Answer(t, c) \in Nat
BY GenerationIsNatural, LedgerAssumption DEF Answer, Contents

-----------------------------------------------------------------------------
(* The inductive invariant *)

\* Whoever is on the promise chain is there once, and waits for its answer.
Chained ==
  /\ \A i \in 1..Len(queue) : pc[queue[i]] = "queued"
  /\ \A i, j \in 1..Len(queue) : queue[i] = queue[j] => i = j

StartingInv ==
  server = "starting" =>
    /\ stage # "idle" /\ Readable(file) /\ Sound(draft)
    /\ stage # "renamed" => file \in Contents \cup {Absent} /\ draft = Upgraded(file)
    /\ stage = "renamed" => file = draft

UpInv ==
  server = "up" =>
    /\ Sound(data)
    /\ stage # "renamed" => file = data
    /\ stage = "renamed" => file = draft
    /\ stage # "idle" => queue # <<>> /\ Sound(draft)
    /\ stage \in Persisting => /\ Succeeds(Head(queue), data)
                               /\ draft = Effect(Head(queue), data)

StoreInv ==
  /\ TypeOK
  /\ file \in Contents /\ file.version = 1 => FitsVersion1(file)
  /\ Chained /\ StartingInv /\ UpInv
  /\ server \in {"down", "refused"} => stage = "idle"
  /\ stage = "renaming" => tmp = draft

LEMMA EmptyIsContents == EmptyDatabase \in Contents /\ Sound(EmptyDatabase)
BY SeededIsSound DEF EmptyDatabase, Sound

LEMMA InitStore == Init => StoreInv
BY StoreAssumption, EmptyIsContents DEF Init, StoreInv, TypeOK, Chained, StartingInv,
   UpInv, Persisting, Answered

\* The head of the chain.
LEMMA HeadOfChain ==
  ASSUME TypeOK, Chained, NEW t, AtHead(t)
  PROVE  /\ t \in Requests /\ pc[t] = "queued" /\ server = "up" /\ queue # <<>>
         /\ Tail(queue) \in Seq(Requests)
         /\ \A u : u = Head(queue) <=> u = t
         /\ Len(Tail(queue)) = Len(queue) - 1
         /\ \A i \in 1..Len(Tail(queue)) : /\ Tail(queue)[i] = queue[i + 1]
                                          /\ queue[i + 1] # t
<1>1. t = queue[1] /\ 1 \in 1..Len(queue) /\ server = "up" /\ queue # <<>>
  BY DEF AtHead, TypeOK
<1>2. /\ Tail(queue) \in Seq(Requests) /\ Len(queue) \in Nat
      /\ Len(Tail(queue)) = Len(queue) - 1
      /\ \A i \in 1..Len(Tail(queue)) : Tail(queue)[i] = queue[i + 1]
  BY <1>1 DEF TypeOK
<1>3. \A i \in 1..Len(Tail(queue)) : i + 1 \in 1..Len(queue) /\ i + 1 # 1
  BY <1>2
<1>. QED
  BY <1>1, <1>2, <1>3 DEF AtHead, TypeOK, Chained

LEMMA SettleKeepsChain ==
  ASSUME TypeOK, Chained, NEW t, AtHead(t), NEW how \in Answered, Settle(t, how)
  PROVE  /\ Chained' /\ queue' \in Seq(Requests)
         /\ pc' \in [Requests -> Answered \cup {"new", "queued"}]
<1>1. /\ t \in Requests /\ queue' \in Seq(Requests)
      /\ pc' = [pc EXCEPT ![t] = how]
      /\ pc' \in [Requests -> Answered \cup {"new", "queued"}]
  BY HeadOfChain DEF Settle, TypeOK
<1>2. \A i \in 1..Len(queue') : /\ queue'[i] = queue[i + 1] /\ queue'[i] # t
                                /\ i + 1 \in 1..Len(queue)
  BY HeadOfChain DEF Settle, TypeOK
<1>3. \A i \in 1..Len(queue') : pc'[queue'[i]] = "queued"
  <2>. TAKE i \in 1..Len(queue')
  <2>1. pc[queue[i + 1]] = "queued" /\ queue[i + 1] \in Requests
    BY <1>2 DEF Chained, TypeOK
  <2>. QED
    BY <1>1, <1>2, <2>1 DEF TypeOK
<1>4. \A i, j \in 1..Len(queue') : queue'[i] = queue'[j] => i = j
  <2>. TAKE i, j \in 1..Len(queue')
  <2>1. queue'[i] = queue'[j] => i + 1 = j + 1
    BY <1>2 DEF Chained
  <2>. QED
    BY <2>1
<1>. QED
  BY <1>1, <1>3, <1>4 DEF Chained

LEMMA SubmitKeepsChain ==
  ASSUME TypeOK, Chained, NEW t \in Requests, Submit(t)
  PROVE  /\ Chained' /\ queue' \in Seq(Requests)
         /\ pc' \in [Requests -> Answered \cup {"new", "queued"}]
         /\ queue # <<>> => Head(queue') = Head(queue)
         /\ queue' # <<>>
<1>1. /\ pc[t] = "new" /\ queue' = Append(queue, t)
      /\ pc' = [pc EXCEPT ![t] = "queued"]
  BY DEF Submit
<1>2. /\ queue' \in Seq(Requests) /\ Len(queue) \in Nat
      /\ Len(queue') = Len(queue) + 1 /\ queue'[Len(queue) + 1] = t
      /\ \A i \in 1..Len(queue) : queue'[i] = queue[i] /\ queue[i] \in Requests
  BY <1>1 DEF TypeOK
<1>3. \A i \in 1..Len(queue) : queue[i] # t
  BY <1>1 DEF Chained
<1>4. \A i \in 1..Len(queue') : i \in 1..Len(queue) \/ i = Len(queue) + 1
  BY <1>2
<1>5. pc' \in [Requests -> Answered \cup {"new", "queued"}]
  BY <1>1 DEF TypeOK
<1>6. \A i \in 1..Len(queue') : pc'[queue'[i]] = "queued"
  BY <1>1, <1>2, <1>4 DEF Chained, TypeOK
<1>7. \A i, j \in 1..Len(queue') : queue'[i] = queue'[j] => i = j
  BY <1>2, <1>3, <1>4 DEF Chained
<1>8. (queue # <<>> => Head(queue') = Head(queue)) /\ queue' # <<>>
  BY <1>1, <1>2 DEF TypeOK
<1>. QED
  BY <1>2, <1>5, <1>6, <1>7, <1>8 DEF Chained

LEMMA StoreStep == StoreInv /\ [Next]_vars => StoreInv'
<1>. SUFFICES ASSUME StoreInv, [Next]_vars PROVE StoreInv'
  OBVIOUS
<1>. USE DEF Persisting, Answered, disk, memory, requests, bounds
<1>1. CASE UNCHANGED vars
  BY <1>1 DEF vars, StoreInv, TypeOK, Chained, StartingInv, UpInv
<1>2. ASSUME NEW t \in Requests, Refuse(t) PROVE StoreInv'
  <2>1. Chained'
    BY <1>2 DEF StoreInv, TypeOK, Chained, Refuse
  <2>. QED
    BY <1>2, <2>1 DEF StoreInv, TypeOK, StartingInv, UpInv, Refuse
<1>3. ASSUME NEW t \in Requests, Submit(t) PROVE StoreInv'
  <2>1. /\ Chained' /\ queue' \in Seq(Requests)
        /\ pc' \in [Requests -> Answered \cup {"new", "queued"}]
        /\ queue # <<>> => Head(queue') = Head(queue)
        /\ queue' # <<>>
    BY <1>3, SubmitKeepsChain DEF StoreInv
  <2>2. TypeOK'
    BY <1>3, <2>1 DEF StoreInv, TypeOK, Submit
  <2>3. UpInv'
    BY <1>3, <2>1 DEF StoreInv, UpInv, Submit
  <2>. QED
    BY <1>3, <2>1, <2>2, <2>3 DEF StoreInv, StartingInv, Submit
<1>4. ASSUME NEW t \in Requests, Reject(t) PROVE StoreInv'
  <2>1. /\ Chained' /\ queue' \in Seq(Requests) /\ server = "up"
        /\ pc' \in [Requests -> Answered \cup {"new", "queued"}]
    BY <1>4, SettleKeepsChain, HeadOfChain DEF StoreInv, Reject
  <2>. QED
    BY <1>4, <2>1 DEF StoreInv, TypeOK, StartingInv, UpInv, Reject, Settle
<1>5. ASSUME NEW t \in Requests, Evaluate(t) PROVE StoreInv'
  <2>1. server = "up" /\ queue # <<>> /\ t = Head(queue) /\ Sound(data)
    BY <1>5 DEF StoreInv, UpInv, Evaluate, AtHead
  <2>2. Sound(draft') /\ draft' \in Contents
    BY <1>5, <2>1, EffectIsSound DEF Evaluate, Sound
  <2>. QED
    BY <1>5, <2>1, <2>2 DEF StoreInv, TypeOK, Chained, StartingInv, UpInv, Evaluate
<1>6. ASSUME NEW t \in Requests, Publish(t) PROVE StoreInv'
  <2>1. /\ Chained' /\ queue' \in Seq(Requests) /\ server = "up"
        /\ pc' \in [Requests -> Answered \cup {"new", "queued"}]
    BY <1>6, SettleKeepsChain, HeadOfChain DEF StoreInv, Publish
  <2>2. Answer(t, draft) \in Nat
    BY AnswerIsNatural DEF StoreInv, TypeOK
  <2>3. Sound(draft) /\ file = draft
    BY <1>6, <2>1 DEF StoreInv, UpInv, Publish
  <2>. QED
    BY <1>6, <2>1, <2>2, <2>3 DEF StoreInv, TypeOK, StartingInv, UpInv, Publish, Settle
<1>7. ASSUME NEW t \in Requests, PersistFails(t) PROVE StoreInv'
  <2>1. /\ Chained' /\ queue' \in Seq(Requests) /\ server = "up"
        /\ pc' \in [Requests -> Answered \cup {"new", "queued"}]
    BY <1>7, SettleKeepsChain, HeadOfChain DEF StoreInv, PersistFails
  <2>2. faults' \in 0..MaxFaults
    BY <1>7, StoreAssumption DEF StoreInv, TypeOK, PersistFails
  <2>. QED
    BY <1>7, <2>1, <2>2 DEF StoreInv, TypeOK, StartingInv, UpInv, PersistFails, Settle
<1>8. CASE OpenTemporary
  BY <1>8 DEF StoreInv, TypeOK, Chained, StartingInv, UpInv, OpenTemporary, Alive
<1>9. CASE FillTemporary
  BY <1>9 DEF StoreInv, TypeOK, Chained, StartingInv, UpInv, FillTemporary, Alive
<1>10. CASE Rename
  <2>1. file' = draft /\ Sound(draft) /\ file'.version = 2
    BY <1>10, SoundStays DEF StoreInv, StartingInv, UpInv, Rename, Alive
  <2>2. Readable(file')
    BY <2>1, SoundStays
  <2>3. StartingInv'
    BY <1>10, <2>1, <2>2 DEF StoreInv, StartingInv, Rename, Readable, SchemaAccepts
  <2>4. UpInv'
    BY <1>10, <2>1 DEF StoreInv, UpInv, Rename
  <2>5. TypeOK' /\ Chained'
    BY <1>10, <2>1 DEF StoreInv, TypeOK, Chained, Rename
  <2>. QED
    BY <1>10, <2>1, <2>3, <2>4, <2>5 DEF StoreInv, Rename
<1>11. CASE Load
  <2>1. file # Absent /\ file \in Contents /\ stage = "idle"
    BY <1>11, EmptyIsContents, NoSuchContents
       DEF Load, StoreInv, TypeOK, Upgraded, Readable
  <2>2. Sound(file)
    BY <1>11, <2>1, UpgradedIsSound DEF Load, StoreInv
  <2>. QED
    BY <1>11, <2>1, <2>2 DEF StoreInv, TypeOK, Chained, StartingInv, UpInv, Load
<1>12. CASE Upgrade
  <2>1. file \in Contents \cup {Absent} /\ stage = "idle"
    BY <1>12 DEF Upgrade, StoreInv, TypeOK, Readable
  <2>2. Sound(draft') /\ draft' \in Contents
    BY <1>12, <2>1, UpgradedIsSound DEF Upgrade, StoreInv, Sound
  <2>3. StartingInv'
    BY <1>12, <2>1, <2>2 DEF StartingInv, Upgrade, Readable, SchemaAccepts
  <2>. QED
    BY <1>12, <2>1, <2>2, <2>3 DEF StoreInv, TypeOK, Chained, UpInv, Upgrade
<1>13. CASE FinishUpgrade
  BY <1>13 DEF StoreInv, TypeOK, Chained, StartingInv, UpInv, FinishUpgrade, Sound
<1>14. CASE RefuseFile
  BY <1>14 DEF StoreInv, TypeOK, Chained, StartingInv, UpInv, RefuseFile
<1>15. CASE UpgradeFails
  <2>1. faults' \in 0..MaxFaults
    BY <1>15, StoreAssumption DEF StoreInv, TypeOK, UpgradeFails
  <2>. QED
    BY <1>15, <2>1, EmptyIsContents
       DEF StoreInv, TypeOK, Chained, StartingInv, UpInv, UpgradeFails, Restarted
<1>16. CASE Crash
  <2>1. /\ queue' = <<>> /\ queue' \in Seq(Requests) /\ Len(queue') = 0
        /\ crashes' \in 0..MaxCrashes
        /\ pc' \in [Requests -> Answered \cup {"new", "queued"}]
    BY <1>16, StoreAssumption DEF StoreInv, TypeOK, Crash
  <2>. QED
    BY <1>16, <2>1, EmptyIsContents
       DEF StoreInv, TypeOK, Chained, StartingInv, UpInv, Crash, Restarted
<1>17. CASE Rest
  BY <1>17, <1>1 DEF Rest
<1>. QED
  BY <1>1, <1>2, <1>3, <1>4, <1>5, <1>6, <1>7, <1>8, <1>9, <1>10, <1>11, <1>12,
     <1>13, <1>14, <1>15, <1>16, <1>17 DEF Next, Mutate, Persist, Start

LEMMA StoreInvariant == Spec => []StoreInv
BY InitStore, StoreStep, PTL DEF Spec

-----------------------------------------------------------------------------
(* The theorems *)

\* Every state is of its type: the files, both copies in memory, the promise
\* chain and the requests.
THEOREM StoreTypeCorrect == Spec => []TypeOK
BY StoreInvariant, PTL DEF StoreInv

\* Reads are never ahead of the disk: a snapshot shows what a restart would find,
\* or what it would have found before the rename that has just happened.
THEOREM ReadsStayDurable == Spec => []ReadsAreDurable
<1>1. StoreInv => ReadsAreDurable
  BY DEF StoreInv, UpInv, ReadsAreDurable
<1>. QED
  BY <1>1, StoreInvariant, PTL

\* What a rename puts in place of the file.
LEMMA RenameWrites ==
  ASSUME StoreInv, Rename
  PROVE  /\ file' = draft /\ Sound(draft) /\ Readable(file)
         /\ \/ server = "starting" /\ draft = Upgraded(file)
            \/ /\ server = "up" /\ queue # <<>> /\ Head(queue) \in Requests
               /\ Sound(file)
               /\ Succeeds(Head(queue), file)
               /\ draft = Effect(Head(queue), file)
<1>1. file' = draft /\ Alive /\ stage = "renaming" /\ Sound(draft)
  BY DEF Rename, StoreInv, StartingInv, UpInv, Alive
<1>2. CASE server = "starting"
  BY <1>1, <1>2 DEF StoreInv, StartingInv
<1>3. CASE server = "up"
  <2>1. queue # <<>> /\ Head(queue) \in Requests
    BY <1>1, <1>3 DEF StoreInv, UpInv, TypeOK
  <2>2. file = data /\ Sound(file)
    BY <1>1, <1>3 DEF StoreInv, UpInv
  <2>3. Succeeds(Head(queue), file) /\ draft = Effect(Head(queue), file)
    BY <1>1, <1>3, <2>2 DEF StoreInv, UpInv, Persisting
  <2>. QED
    BY <1>1, <1>3, <2>1, <2>2, <2>3, SoundStays
<1>. QED
  BY <1>1, <1>2, <1>3 DEF Alive

\* No other step writes the database file.
LEMMA OnlyRenameWrites ==
  ASSUME [Next]_vars, ~Rename
  PROVE  UNCHANGED file
BY DEF Next, vars, disk, Refuse, Submit, Mutate, Reject, Evaluate, Publish,
   PersistFails, Persist, OpenTemporary, FillTemporary, Start, Load, Upgrade,
   FinishUpgrade, RefuseFile, UpgradeFails, Crash, Rest

\* No step makes a readable database file unreadable, wherever the process dies.
THEOREM FilesStayReadable == Spec => FileStaysReadable
<1>1. StoreInv /\ [Next]_vars => [Readable(file) => Readable(file')]_vars
  BY OnlyRenameWrites, RenameWrites, SoundStays
<1>. QED
  BY <1>1, StoreInvariant, PTL DEF Spec, FileStaysReadable

\* Revoked access comes back only under a higher generation, and generations
\* never fall, over any number of restarts, migrations and backfills.
THEOREM RegrantsStayNew == Spec => RegrantsAreNew
<1>. DEFINE Newer(old, new) ==
       /\ LatestGeneration(new) >= LatestGeneration(old)
       /\ old # {} /\ ~IsActive(old) /\ IsActive(new) =>
            LatestGeneration(new) > LatestGeneration(old)
<1>1. \A h \in Histories :
        /\ Newer(h, h) /\ Newer({}, h) /\ Newer(h, Granted(h)) /\ Newer(h, Revoked(h))
  <2>. TAKE h \in Histories
  <2>1. LatestGeneration(h) \in Nat /\ LatestGeneration({}) = 0
    BY GenerationIsNatural DEF LatestGeneration
  <2>2. Newer(h, Granted(h))
    BY <2>1, GrantedHistory DEF Granted
  <2>3. Newer(h, Revoked(h))
    BY <2>1, RevokedHistory
  <2>. QED
    BY <2>1, <2>2, <2>3
<1>. HIDE DEF Newer
<1>2. ASSUME StoreInv, [Next]_vars, NEW p \in Pairs
      PROVE  Newer(Ledger[p], Ledger'[p])
  <2>0. Ledger[p] \in Histories
    BY <1>2, FirstIsHistory DEF StoreInv, TypeOK, Ledger, Contents
  <2>1. CASE UNCHANGED file
    BY <2>0, <2>1, <1>1 DEF Ledger
  <2>2. CASE file' = draft /\ Sound(draft) /\ Readable(file)
             /\ server = "starting" /\ draft = Upgraded(file)
    <3>1. Ledger'[p] = draft.ledger[p] /\ draft.ledger[p] \in Histories
      BY <2>2, SoundStays DEF Ledger, Sound, Contents
    <3>2. CASE Ledger[p] = {}
      BY <3>1, <3>2, <1>1
    <3>3. CASE Ledger[p] # {}
      <4>1. file \notin {Absent, Torn} /\ file \in Contents
        BY <1>2, <3>3 DEF Ledger, StoreInv, TypeOK
      <4>2. file.version # 1
        BY <1>2, <3>3, <4>1 DEF Ledger, StoreInv, FitsVersion1
      <4>3. draft = Backfilled(file) /\ Ledger[p] = file.ledger[p]
        BY <2>2, <4>1, <4>2 DEF Upgraded, Ledger
      <4>4. draft.ledger[p] = file.ledger[p]
        BY <3>3, <4>1, <4>3 DEF Backfilled, Contents
      <4>. QED
        BY <2>0, <3>1, <4>3, <4>4, <1>1
    <3>. QED
      BY <3>2, <3>3
  <2>3. CASE /\ file' = draft /\ Sound(draft) /\ Sound(file)
             /\ Head(queue) \in Requests /\ draft = Effect(Head(queue), file)
    <3>1. /\ Ledger[p] = file.ledger[p] /\ file \in Contents
          /\ Ledger'[p] = draft.ledger[p]
      BY <2>3, SoundStays DEF Ledger, Sound
    <3>2. draft.ledger[p] \in {Ledger[p], Granted(Ledger[p]), Revoked(Ledger[p])}
      BY <2>3, <3>1, LedgerAssumption DEF Effect, Contents
    <3>. QED
      BY <2>0, <3>1, <3>2, <1>1
  <2>. QED
    BY <1>2, <2>1, <2>2, <2>3, OnlyRenameWrites, RenameWrites
<1>3. StoreInv /\ [Next]_vars =>
        [\A p \in Pairs :
           LET old == Ledger[p]
               new == Ledger'[p]
           IN  /\ LatestGeneration(new) >= LatestGeneration(old)
               /\ old # {} /\ ~IsActive(old) /\ IsActive(new) =>
                    LatestGeneration(new) > LatestGeneration(old)]_vars
  BY <1>2 DEF Newer
<1>. QED
  BY <1>3, StoreInvariant, PTL DEF Spec, RegrantsAreNew

-----------------------------------------------------------------------------
(* Answers *)

NotesOf(f) == IF f \in {Absent, Torn} THEN {} ELSE f.notes

\* Nothing that an answer rests on disappears from a history.
Keeps(old, new) ==
  /\ \A e \in old : \E f \in new : f.gen = e.gen
  /\ \A e \in old : e.status = "revoked" => e \in new

LEMMA HistoriesKeep ==
  ASSUME NEW h \in Histories
  PROVE  Keeps({}, h) /\ Keeps(h, h) /\ Keeps(h, Granted(h)) /\ Keeps(h, Revoked(h))
<1>1. Keeps({}, h) /\ Keeps(h, h) /\ Keeps(h, Granted(h))
  BY GrantedHistory DEF Keeps
<1>2. CASE ~IsActive(h)
  BY <1>1, <1>2, RevokedHistory
<1>3. CASE IsActive(h)
  <2>. DEFINE c == Current(h)
              r == [c EXCEPT !.status = "revoked"]
  <2>1. Revoked(h) = (h \ {c}) \cup {r}
    BY <1>3 DEF Revoked
  <2>2. c \in Entries /\ c.status = "active"
    BY <1>3, CurrentIsLatest DEF IsActive, Histories
  <2>3. r.gen = c.gen
    BY <2>2 DEF Entries
  <2>. HIDE DEF c, r
  <2>4. Keeps(h, Revoked(h))
    BY <2>1, <2>2, <2>3 DEF Keeps
  <2>. QED
    BY <1>1, <2>4
<1>. QED
  BY <1>2, <1>3

\* What a mutation leaves for its answer to speak of.
Shows(t, c) ==
  /\ t \in Notes => t \in c.notes
  /\ t \in Grants => \E e \in c.ledger[PairOf[t]] : e.gen = Answer(t, c)
  /\ t \in Revokes =>
       [gen |-> Answer(t, c), status |-> "revoked"] \in c.ledger[PairOf[t]]

LEMMA EffectShows ==
  ASSUME NEW t \in Requests, NEW c, Sound(c), Succeeds(t, c)
  PROVE  Shows(t, Effect(t, c))
<1>1. c \in Contents
  BY DEF Sound
<1>2. CASE t \in Notes
  BY <1>1, <1>2, LedgerAssumption DEF Shows, Effect, Contents
<1>3. CASE t \in Grants
  <2>. DEFINE h == c.ledger[PairOf[t]]
  <2>1. h \in Histories /\ Effect(t, c).ledger[PairOf[t]] = Granted(h)
    BY <1>1, <1>3, LedgerAssumption DEF Effect, Contents
  <2>2. Answer(t, Effect(t, c)) = LatestGeneration(Granted(h))
    BY <1>3, <2>1, LedgerAssumption DEF Answer
  <2>3. \E e \in Granted(h) : e.gen = LatestGeneration(Granted(h))
    BY <2>1, GrantedHistory, CurrentIsLatest DEF LatestGeneration
  <2>. QED
    BY <1>3, <2>1, <2>2, <2>3, LedgerAssumption DEF Shows
<1>4. CASE t \in Revokes
  <2>. DEFINE h == c.ledger[PairOf[t]]
              g == Revoked(h)
  <2>1. /\ h \in Histories /\ Effect(t, c).ledger[PairOf[t]] = g
        /\ PairOf[t] \in Pairs
    BY <1>1, <1>4, LedgerAssumption DEF Effect, Contents
  <2>2. Answer(t, Effect(t, c)) = LatestGeneration(g)
    BY <1>4, <2>1, LedgerAssumption DEF Answer
  <2>3. h # {} /\ g # {} /\ g \in Histories /\ Unambiguous(h)
    BY <1>4, <2>1, RevokedHistory DEF Succeeds, Throws, Sound, SchemaAccepts
  <2>4. \E e \in g : e.gen = LatestGeneration(g) /\ e.status = "revoked"
    <3>1. CASE IsActive(h)
      <4>. DEFINE r == [Current(h) EXCEPT !.status = "revoked"]
      <4>1. r \in g
        BY <3>1 DEF Revoked
      <4>2. Current(h) \in Entries /\ LatestGeneration(h) = Current(h).gen
        BY <2>1, <2>3, CurrentIsLatest DEF Histories, LatestGeneration
      <4>3. r.status = "revoked" /\ r.gen = Current(h).gen
        BY <4>2 DEF Entries
      <4>4. LatestGeneration(g) = LatestGeneration(h)
        BY <2>1, RevokedHistory
      <4>. HIDE DEF r, g
      <4>. QED
        BY <4>1, <4>2, <4>3, <4>4
    <3>2. CASE ~IsActive(h)
      <4>1. g = h /\ Current(h) \in h /\ Current(h).status # "active"
        BY <3>2, <2>1, <2>3, RevokedHistory, CurrentIsLatest DEF IsActive
      <4>2. Current(h).status = "revoked"
        BY <4>1, <2>1 DEF Histories, Entries
      <4>. QED
        BY <4>1, <4>2, <2>3 DEF LatestGeneration
    <3>. QED
      BY <3>1, <3>2
  <2>5. [gen |-> LatestGeneration(g), status |-> "revoked"] \in g
    <3>1. PICK e \in g : e.gen = LatestGeneration(g) /\ e.status = "revoked"
      BY <2>4
    <3>2. e = [gen |-> e.gen, status |-> e.status]
      BY <2>3 DEF Histories, Entries
    <3>. QED
      BY <3>1, <3>2
  <2>. QED
    BY <1>4, <2>1, <2>2, <2>5, LedgerAssumption DEF Shows
<1>. QED
  BY <1>2, <1>3, <1>4

LEMMA RenameKeeps ==
  ASSUME StoreInv, Rename
  PROVE  /\ file' \notin {Absent, Torn} /\ NotesOf(file) \subseteq file'.notes
         /\ \A n \in file'.notes \ NotesOf(file) : server = "up" /\ n = Head(queue)
         /\ \A p \in Pairs : Keeps(Ledger[p], Ledger'[p])
         /\ server = "up" => Shows(Head(queue), file')
<1>1. file' = draft /\ Sound(draft) /\ file' \notin {Absent, Torn}
      /\ draft \in Contents /\ Ledger' = draft.ledger /\ Readable(file)
  BY RenameWrites, SoundStays DEF Ledger, Sound
<1>2. file \notin {Absent, Torn} => file \in Contents
  BY DEF StoreInv, TypeOK
<1>3. \A p \in Pairs : draft.ledger[p] \in Histories
  BY <1>1 DEF Contents
<1>4. CASE server = "starting" /\ draft = Upgraded(file)
  <2>1. CASE file = Absent
    <3>1. \A p \in Pairs : Ledger[p] = {}
      BY <2>1 DEF Ledger
    <3>2. draft.notes = {} /\ NotesOf(file) = {}
      BY <1>4, <2>1 DEF Upgraded, EmptyDatabase, NotesOf
    <3>. QED
      BY <1>1, <1>3, <1>4, <3>1, <3>2, HistoriesKeep
  <2>2. CASE file # Absent
    <3>1. /\ file \notin {Absent, Torn} /\ file \in Contents
          /\ Ledger = file.ledger /\ NotesOf(file) = file.notes
      BY <1>1, <1>2, <2>2 DEF Readable, Ledger, NotesOf
    <3>2. CASE file.version = 1
      <4>1. draft.notes = file.notes
        BY <1>4, <3>1, <3>2 DEF Upgraded, Migrated
      <4>2. \A p \in Pairs : Ledger[p] = {}
        BY <3>1, <3>2 DEF StoreInv, FitsVersion1
      <4>. QED
        BY <1>1, <1>3, <1>4, <3>1, <4>1, <4>2, HistoriesKeep
    <3>3. CASE file.version # 1
      <4>1. draft = Backfilled(file)
        BY <1>4, <3>1, <3>3 DEF Upgraded
      <4>2. draft.notes = file.notes
        BY <3>1, <4>1 DEF Backfilled, Contents
      <4>3. \A p \in Pairs : Ledger[p] = {} \/ draft.ledger[p] = Ledger[p]
        BY <3>1, <4>1 DEF Backfilled, Contents
      <4>. QED
        BY <1>1, <1>3, <1>4, <3>1, <4>2, <4>3, HistoriesKeep
    <3>. QED
      BY <3>2, <3>3
  <2>. QED
    BY <2>1, <2>2
<1>5. CASE /\ server = "up" /\ Head(queue) \in Requests /\ Sound(file)
           /\ Succeeds(Head(queue), file) /\ draft = Effect(Head(queue), file)
  <2>1. /\ file \in Contents /\ file \notin {Absent, Torn}
        /\ Ledger = file.ledger /\ NotesOf(file) = file.notes
    BY <1>5, SoundStays DEF Sound, Ledger, NotesOf
  <2>2. \A p \in Pairs :
          draft.ledger[p] \in {Ledger[p], Granted(Ledger[p]), Revoked(Ledger[p])}
    BY <1>5, <2>1, LedgerAssumption DEF Effect, Contents
  <2>3. draft.notes \in {file.notes, file.notes \cup {Head(queue)}}
    BY <1>5, <2>1, LedgerAssumption DEF Effect, Contents
  <2>4. \A p \in Pairs : Ledger[p] \in Histories
    BY <2>1 DEF Contents
  <2>5. \A p \in Pairs : Keeps(Ledger[p], draft.ledger[p])
    BY <2>2, <2>4, HistoriesKeep
  <2>6. Shows(Head(queue), draft)
    BY <1>5, EffectShows
  <2>. QED
    BY <1>1, <1>5, <2>1, <2>3, <2>5, <2>6
<1>. QED
  BY <1>4, <1>5, RenameWrites

\* A note on disk was written by a request that has succeeded, died with its
\* process, or is just between rename and publication.
AnswerInv ==
  /\ AnswersAreTrue
  /\ \A t \in Requests : pc[t] = "done" => file \notin {Absent, Torn}
  /\ \A n \in NotesOf(file) :
       pc[n] \in {"done", "lost"} \/ (AtHead(n) /\ stage = "renamed")
  /\ server = "up" /\ stage = "renamed" => Shows(Head(queue), file)

LEMMA InitAnswers == Init => AnswerInv
BY StoreAssumption DEF Init, AnswerInv, AnswersAreTrue, NotesOf

LEMMA AnswerStep == StoreInv /\ AnswerInv /\ [Next]_vars => AnswerInv'
<1>. SUFFICES ASSUME StoreInv, AnswerInv, [Next]_vars PROVE AnswerInv'
  OBVIOUS
<1>. USE DEF disk, memory, requests, bounds, Ledger, NotesOf
<1>0. \A t : AtHead(t) => t \in Requests /\ pc[t] = "queued" /\ server = "up"
  BY HeadOfChain DEF StoreInv
<1>n. \A n \in NotesOf(file) : n \in Notes
  BY DEF StoreInv, TypeOK, Contents
<1>1. CASE UNCHANGED vars
  BY <1>1 DEF vars, AnswerInv, AnswersAreTrue, AtHead
<1>2. ASSUME NEW t \in Requests, UNCHANGED <<file, result>>,
             t \notin NotesOf(file), pc' = [pc EXCEPT ![t] = "failed"],
             \A n : AtHead(n) /\ stage = "renamed" => AtHead(n)' /\ stage' = "renamed",
             server' = "up" /\ stage' = "renamed" =>
               server = "up" /\ stage = "renamed" /\ Head(queue') = Head(queue)
      PROVE  AnswerInv'
  <2>1. pc'[t] = "failed" /\ \A u \in Requests \ {t} : pc'[u] = pc[u]
    BY <1>2 DEF StoreInv, TypeOK
  <2>2. AnswersAreTrue'
    BY <1>2, <2>1 DEF AnswerInv, AnswersAreTrue
  <2>3. \A u \in Requests : pc'[u] = "done" => pc[u] = "done"
    BY <2>1
  <2>4. \A n \in NotesOf(file) :
          pc'[n] \in {"done", "lost"} \/ (AtHead(n)' /\ stage' = "renamed")
    BY <1>2, <1>n, <2>1 DEF AnswerInv
  <2>. QED
    BY <1>2, <2>2, <2>3, <2>4 DEF AnswerInv
<1>3. ASSUME NEW t \in Requests, Refuse(t) PROVE AnswerInv'
  <2>1. t \notin NotesOf(file)
    BY <1>0, <1>3 DEF Refuse, AnswerInv
  <2>. QED
    BY <1>2, <1>3, <2>1 DEF Refuse, AtHead
<1>4. ASSUME NEW t \in Requests, Reject(t) \/ PersistFails(t) PROVE AnswerInv'
  <2>1. /\ stage # "renamed" /\ stage' = "idle" /\ pc[t] = "queued"
        /\ UNCHANGED <<file, result>> /\ pc' = [pc EXCEPT ![t] = "failed"]
    BY <1>0, <1>4 DEF Reject, PersistFails, Settle, Persisting
  <2>2. t \notin NotesOf(file)
    BY <2>1 DEF AnswerInv
  <2>. QED
    BY <1>2, <2>1, <2>2
<1>5. ASSUME NEW t \in Requests, Submit(t) PROVE AnswerInv'
  <2>1. queue # <<>> => Head(queue') = Head(queue) /\ queue' # <<>>
    BY <1>5, SubmitKeepsChain DEF StoreInv
  <2>2. stage = "renamed" => queue # <<>>
    BY <1>5 DEF StoreInv, UpInv, Submit
  <2>3. /\ pc' = [pc EXCEPT ![t] = "queued"] /\ pc[t] = "new"
        /\ UNCHANGED <<file, result, server, stage>>
    BY <1>5 DEF Submit
  <2>. QED
    <3>1. pc'[t] = "queued" /\ \A u \in Requests \ {t} : pc'[u] = pc[u]
      BY <2>3 DEF StoreInv, TypeOK
    <3>2. AnswersAreTrue'
      BY <2>3, <3>1 DEF AnswerInv, AnswersAreTrue
    <3>3. \A n : AtHead(n) /\ stage = "renamed" => AtHead(n)' /\ stage' = "renamed"
      BY <2>1, <2>3 DEF AtHead
    <3>4. \A n \in NotesOf(file) :
            pc'[n] \in {"done", "lost"} \/ (AtHead(n)' /\ stage' = "renamed")
      BY <1>n, <2>3, <3>1, <3>3 DEF AnswerInv
    <3>5. server' = "up" /\ stage' = "renamed" => Shows(Head(queue'), file')
      BY <2>1, <2>2, <2>3 DEF AnswerInv
    <3>. QED
      BY <2>3, <3>1, <3>2, <3>4, <3>5 DEF AnswerInv
<1>6. ASSUME NEW t \in Requests, Evaluate(t) PROVE AnswerInv'
  BY <1>6 DEF Evaluate, AnswerInv, AnswersAreTrue, AtHead
<1>7. ASSUME NEW t \in Requests, Publish(t) PROVE AnswerInv'
  <2>1. /\ AtHead(t) /\ stage = "renamed" /\ stage' = "idle" /\ UNCHANGED file
        /\ pc' = [pc EXCEPT ![t] = "done"]
        /\ result' = [result EXCEPT ![t] = Answer(t, draft)]
    BY <1>7 DEF Publish, Settle
  <2>2. file = draft /\ Shows(t, file) /\ file \notin {Absent, Torn}
    BY <1>0, <2>1, SoundStays DEF StoreInv, UpInv, AnswerInv, AtHead
  <2>3. \A u \in Requests \ {t} : pc'[u] = pc[u] /\ result'[u] = result[u]
    BY <2>1 DEF StoreInv, TypeOK
  <2>4. pc'[t] = "done" /\ result'[t] = Answer(t, file)
    BY <2>1, <2>2 DEF StoreInv, TypeOK
  <2>5. AnswersAreTrue'
    BY <2>1, <2>2, <2>3, <2>4 DEF AnswerInv, AnswersAreTrue, Shows
  <2>6. \A n \in NotesOf(file) : pc'[n] \in {"done", "lost"}
    BY <2>1 DEF AnswerInv, AtHead, StoreInv, TypeOK, Contents
  <2>. QED
    BY <2>1, <2>2, <2>3, <2>5, <2>6 DEF AnswerInv
<1>8. CASE OpenTemporary \/ FillTemporary
  BY <1>8 DEF OpenTemporary, FillTemporary, AnswerInv, AnswersAreTrue, AtHead
<1>9. CASE Rename
  <2>1. /\ stage # "renamed" /\ stage' = "renamed"
        /\ UNCHANGED <<server, queue, pc, result>>
    BY <1>9 DEF Rename
  <2>2. /\ file' \notin {Absent, Torn} /\ NotesOf(file) \subseteq file'.notes
        /\ \A n \in file'.notes \ NotesOf(file) : AtHead(n)
        /\ \A p \in Pairs : Keeps(Ledger[p], Ledger'[p])
        /\ server = "up" => Shows(Head(queue), file')
    BY <1>9, RenameKeeps DEF AtHead, Rename, StoreInv, UpInv
  <2>3. AnswersAreTrue'
    <3>. USE DEF AnswersAreTrue
    <3>. TAKE t \in Requests
    <3>1. pc[t] = "done" => file \notin {Absent, Torn}
      BY DEF AnswerInv
    <3>2. t \in Notes /\ pc[t] = "done" => t \in file'.notes
      BY <2>2, <3>1 DEF AnswerInv, AnswersAreTrue
    <3>3. t \in Notes /\ pc[t] = "failed" => t \notin file'.notes
      BY <1>0, <2>2 DEF AnswerInv
    <3>4. t \in Grants /\ pc[t] = "done" =>
            \E e \in Ledger'[PairOf[t]] : e.gen = result[t]
      <4>. HIDE DEF Ledger
      <4>1. SUFFICES ASSUME t \in Grants, pc[t] = "done"
                     PROVE  \E e \in Ledger'[PairOf[t]] : e.gen = result[t]
        OBVIOUS
      <4>2. PICK e \in Ledger[PairOf[t]] : e.gen = result[t]
        BY <4>1 DEF AnswerInv
      <4>3. Keeps(Ledger[PairOf[t]], Ledger'[PairOf[t]])
        BY <2>2, <4>1, LedgerAssumption
      <4>. QED
        BY <4>2, <4>3 DEF Keeps
    <3>5. t \in Revokes /\ pc[t] = "done" =>
            [gen |-> result[t], status |-> "revoked"] \in Ledger'[PairOf[t]]
      BY <2>2, LedgerAssumption DEF AnswerInv, AnswersAreTrue, Keeps
    <3>. QED
      BY <2>1, <3>2, <3>3, <3>4, <3>5
  <2>. QED
    BY <2>1, <2>2, <2>3 DEF AnswerInv, AtHead
<1>10. CASE Start
  BY <1>0, <1>10 DEF Start, Load, Upgrade, FinishUpgrade, RefuseFile, AnswerInv,
     AnswersAreTrue, AtHead, StoreInv
<1>11. CASE UpgradeFails
  BY <1>11 DEF UpgradeFails, AnswerInv, AnswersAreTrue, AtHead
<1>12. CASE Crash
  <2>1. /\ UNCHANGED <<file, result>> /\ server' = "down"
        /\ pc' = [t \in Requests |-> IF pc[t] = "queued" THEN "lost" ELSE pc[t]]
    BY <1>12 DEF Crash
  <2>2. \A n \in NotesOf(file) : n \in Requests
    BY DEF StoreInv, TypeOK, Contents
  <2>. QED
    BY <1>0, <2>1, <2>2 DEF AnswerInv, AnswersAreTrue
<1>13. CASE Rest
  BY <1>1, <1>13 DEF Rest
<1>. QED
  BY <1>1, <1>3, <1>4, <1>5, <1>6, <1>7, <1>8, <1>9, <1>10, <1>11, <1>12, <1>13
     DEF Next, Mutate, Persist

\* Answers tell the truth for ever: what was answered is on disk, through any
\* later failure, crash and upgrade, and a note that was refused is not.
THEOREM AnswersStayTrue == Spec => []AnswersAreTrue
<1>1. AnswerInv => AnswersAreTrue
  BY DEF AnswerInv
<1>. QED
  BY <1>1, InitAnswers, AnswerStep, StoreInvariant, PTL DEF Spec

-----------------------------------------------------------------------------
(* Why a mutation fails *)

\* A mutation that was accepted fails only in its own turn, for a failed write of
\* its own or because it does not fit the data on disk: whatever became of those
\* before it on the promise chain (store.ts:306).
THEOREM FailuresAreOwn == Spec => OwnFailures
<1>. DEFINE Own(t) == /\ AtHead(t)
                      /\ faults' > faults \/ (stage = "idle" /\ ~Succeeds(t, file))
<1>1. ASSUME StoreInv, [Next]_vars, NEW t \in Requests,
             pc[t] = "queued", pc'[t] = "failed"
      PROVE  Own(t)
  <2>. USE DEF disk, memory, requests, bounds
  <2>1. CASE Reject(t)
    <3>1. AtHead(t) /\ stage = "idle" /\ ~Succeeds(t, data)
      BY <2>1 DEF Reject
    <3>2. file = data
      BY <1>1, <3>1 DEF AtHead, StoreInv, UpInv
    <3>. QED
      BY <3>1, <3>2
  <2>2. CASE PersistFails(t)
    <3>1. AtHead(t) /\ faults' = faults + 1 /\ faults \in Nat
      BY <1>1, <2>2, StoreAssumption DEF PersistFails, StoreInv, TypeOK
    <3>. QED
      BY <3>1
  <2>3. ASSUME NEW u \in Requests, u # t, Reject(u) \/ PersistFails(u)
        PROVE  FALSE
    BY <1>1, <2>3 DEF Reject, PersistFails, Settle, StoreInv, TypeOK
  <2>4. ASSUME NEW u \in Requests,
               Refuse(u) \/ Submit(u) \/ Evaluate(u) \/ Publish(u)
        PROVE  FALSE
    BY <1>1, <2>4 DEF Refuse, Submit, Evaluate, Publish, Settle, StoreInv, TypeOK
  <2>5. ASSUME Persist \/ Start \/ UpgradeFails \/ Rest \/ UNCHANGED vars
        PROVE  FALSE
    BY <1>1, <2>5 DEF Persist, OpenTemporary, FillTemporary, Rename, Start, Load,
       Upgrade, FinishUpgrade, RefuseFile, UpgradeFails, Rest, vars
  <2>6. CASE Crash
    BY <1>1, <2>6 DEF Crash
  <2>. QED
    BY <1>1, <2>1, <2>2, <2>3, <2>4, <2>5, <2>6 DEF Next, Mutate
<1>2. StoreInv /\ [Next]_vars =>
        \A t \in Requests : pc[t] = "queued" /\ pc'[t] = "failed" => Own(t)
  BY <1>1
<1>. QED
  BY <1>2, StoreInvariant, PTL DEF Spec, OwnFailures

-----------------------------------------------------------------------------
(* The refinement *)

\* The contract speaks of the same effects.
LEMMA SameEffects ==
  /\ Contract!Contents = Contents
  /\ \A t, c : /\ Contract!Succeeds(t, c) = Succeeds(t, c)
               /\ Contract!Effect(t, c) = Effect(t, c)
               /\ Contract!Answer(t, c) = Answer(t, c)
  /\ \A t : Contract!Forbidden(t) <=> Forbidden(t)
<1>1. Contract!Contents = Contents
  BY DEF Contract!Contents, Contents, Contract!Histories, Histories,
         Contract!Entries, Entries
<1>2. \A h : Contract!Current(h) = Current(h)
  BY DEF Contract!Current, Current
<1>3. \A h : /\ Contract!LatestGeneration(h) = LatestGeneration(h)
             /\ Contract!IsActive(h) = IsActive(h)
  BY <1>2 DEF Contract!LatestGeneration, LatestGeneration, Contract!IsActive, IsActive
<1>4. \A h : Contract!Granted(h) = Granted(h) /\ Contract!Revoked(h) = Revoked(h)
  BY <1>2, <1>3 DEF Contract!Granted, Granted, Contract!Revoked, Revoked
<1>5. \A t, c : Contract!Effect(t, c) = Effect(t, c)
  BY <1>4 DEF Contract!Effect, Effect
<1>6. \A c : Contract!SchemaAccepts(c) <=> SchemaAccepts(c)
  BY DEF Contract!SchemaAccepts, SchemaAccepts, Contract!Unambiguous, Unambiguous
<1>7. \A t, c : /\ Contract!Succeeds(t, c) = Succeeds(t, c)
                /\ Contract!Answer(t, c) = Answer(t, c)
  BY <1>3, <1>5, <1>6 DEF Contract!Succeeds, Succeeds, Contract!Throws, Throws,
                          Contract!Answer, Answer
<1>8. \A t : Contract!Forbidden(t) <=> Forbidden(t)
  BY DEF Contract!Forbidden, Forbidden
<1>. QED
  BY <1>1, <1>5, <1>7, <1>8

LEMMA UpgradedIsContents ==
  ASSUME NEW f \in Contents \cup {Absent, Torn}
  PROVE  Upgraded(f) \in Contents
BY FirstIsHistory, EmptyIsContents
   DEF Upgraded, Migrated, Backfilled, Contents, Seeded

\* What a step may leave as it is in the contract.
Steady ==
  /\ \A t \in Requests : Progress(t)' = Progress(t)
  /\ Upgraded(file)' = Upgraded(file)
  /\ result' = result
  /\ faults' = faults

LEMMA SteadyStutters == Steady => UNCHANGED Contract!vars
BY DEF Steady, Contract!vars

\* The contract's map of outcomes when one request moves.
LEMMA OneMoves ==
  ASSUME NEW t \in Requests, NEW s, Progress(t)' = s,
         \A u \in Requests \ {t} : Progress(u)' = Progress(u)
  PROVE  [u \in Requests |-> Progress(u)]'
           = [[u \in Requests |-> Progress(u)] EXCEPT ![t] = s]
OBVIOUS

LEMMA FailStep ==
  ASSUME NEW t \in Requests, Progress(t) = "open", Progress(t)' = "failed",
         \A u \in Requests \ {t} : Progress(u)' = Progress(u),
         UNCHANGED <<file, result>>,
         \/ (Forbidden(t) \/ ~Succeeds(t, Upgraded(file))) /\ UNCHANGED faults
         \/ faults' = faults + 1
  PROVE  Contract!Next
<1>1. Contract!Fail(t)
  BY OneMoves, SameEffects DEF Contract!Fail
<1>. QED
  BY <1>1 DEF Contract!Next, Contract!Requests

LEMMA ContractStep == StoreInv /\ [Next]_vars => [Contract!Next]_(Contract!vars)
<1>. SUFFICES ASSUME StoreInv, [Next]_vars PROVE [Contract!Next]_(Contract!vars)
  OBVIOUS
<1>. USE DEF disk, memory, requests, bounds
<1>0. \A t : AtHead(t) => t \in Requests /\ pc[t] = "queued" /\ server = "up"
  BY HeadOfChain DEF StoreInv
<1>1. CASE UNCHANGED vars
  BY <1>1, SteadyStutters DEF vars, Steady, Progress, AtHead
<1>2. ASSUME NEW t \in Requests, Refuse(t) PROVE Contract!Next
  <2>1. Progress(t) = "open" /\ Progress(t)' = "failed"
    BY <1>0, <1>2 DEF Progress, Refuse, StoreInv, TypeOK, AtHead
  <2>2. \A u \in Requests \ {t} : Progress(u)' = Progress(u)
    BY <1>2 DEF Progress, Refuse, StoreInv, TypeOK, AtHead
  <2>. QED
    BY <1>2, <2>1, <2>2, FailStep DEF Refuse
<1>3. ASSUME NEW t \in Requests, Submit(t) PROVE Steady
  <2>1. queue # <<>> => Head(queue') = Head(queue) /\ queue' # <<>>
    BY <1>3, SubmitKeepsChain DEF StoreInv
  <2>2. stage = "renamed" => queue # <<>>
    BY <1>3 DEF StoreInv, UpInv, Submit
  <2>. QED
    BY <1>3, <2>1, <2>2 DEF Steady, Progress, Submit, StoreInv, TypeOK, AtHead
<1>4. ASSUME NEW t \in Requests, Reject(t) \/ PersistFails(t) PROVE Contract!Next
  <2>1. pc[t] = "queued" /\ stage # "renamed" /\ Settle(t, "failed") /\ UNCHANGED <<file, result>>
    BY <1>0, <1>4 DEF Reject, PersistFails, Persisting
  <2>2. Progress(t) = "open" /\ Progress(t)' = "failed"
    BY <2>1 DEF Progress, Settle, StoreInv, TypeOK
  <2>3. \A u \in Requests \ {t} : Progress(u)' = Progress(u)
    BY <2>1 DEF Progress, Settle, StoreInv, TypeOK
  <2>4. /\ Reject(t) => ~Succeeds(t, Upgraded(file)) /\ UNCHANGED faults
        /\ PersistFails(t) => faults' = faults + 1
    BY <1>0, SoundStays DEF Reject, PersistFails, StoreInv, UpInv
  <2>. QED
    BY <1>4, <2>1, <2>2, <2>3, <2>4, FailStep
<1>5. ASSUME NEW t \in Requests, Evaluate(t) PROVE Steady
  BY <1>5 DEF Steady, Progress, Evaluate
<1>6. ASSUME NEW t \in Requests, Publish(t) PROVE Contract!Next
  <2>1. /\ AtHead(t) /\ stage = "renamed" /\ Settle(t, "done") /\ UNCHANGED file
        /\ result' = [result EXCEPT ![t] = Answer(t, draft)] /\ UNCHANGED faults
    BY <1>6 DEF Publish
  <2>2. Upgraded(file) = draft
    BY <2>1, <1>0, SoundStays DEF StoreInv, UpInv
  <2>3. Progress(t) = "applied" /\ Progress(t)' = "done"
    BY <2>1 DEF Progress, Settle, StoreInv, TypeOK
  <2>4. \A u \in Requests \ {t} : Progress(u)' = Progress(u)
    BY <2>1 DEF Progress, Settle, AtHead, StoreInv, TypeOK
  <2>5. Contract!Acknowledge(t)
    BY <2>1, <2>2, <2>3, <2>4, OneMoves, SameEffects DEF Contract!Acknowledge
  <2>. QED
    BY <2>5 DEF Contract!Next, Contract!Requests
<1>7. CASE OpenTemporary \/ FillTemporary
  <2>1. Steady
    BY <1>7 DEF Steady, Progress, OpenTemporary, FillTemporary
  <2>. QED
    BY <2>1, SteadyStutters
<1>8. CASE Rename
  <2>1. /\ file' = draft /\ Sound(draft) /\ stage = "renaming" /\ stage' = "renamed"
        /\ Upgraded(file)' = draft /\ UNCHANGED <<server, queue, pc, result, faults>>
    BY <1>8, RenameWrites, SoundStays DEF Rename
  <2>2. CASE server = "starting" /\ draft = Upgraded(file)
    <3>1. Steady
      BY <2>1, <2>2 DEF Steady, Progress, AtHead
    <3>. QED
      BY <3>1, SteadyStutters
  <2>3. CASE /\ server = "up" /\ queue # <<>> /\ Head(queue) \in Requests
             /\ Sound(file) /\ Succeeds(Head(queue), file)
             /\ draft = Effect(Head(queue), file)
    <3>. DEFINE t == Head(queue)
    <3>1. Upgraded(file) = file /\ AtHead(t)
      BY <2>3, SoundStays DEF AtHead
    <3>2. Progress(t) = "open" /\ Progress(t)' = "applied"
      BY <1>0, <2>1, <3>1 DEF Progress, AtHead
    <3>3. \A u \in Requests \ {t} : Progress(u)' = Progress(u)
      BY <2>1 DEF Progress, AtHead
    <3>4. Contract!Apply(t)
      BY <2>1, <2>3, <3>1, <3>2, <3>3, OneMoves, SameEffects DEF Contract!Apply
    <3>. QED
      BY <2>3, <3>4 DEF Contract!Next, Contract!Requests
  <2>. QED
    BY <1>8, <2>2, <2>3, RenameWrites
<1>9. CASE Start
  <2>1. Steady
    BY <1>9 DEF Start, Load, Upgrade, FinishUpgrade, RefuseFile, Steady, Progress, AtHead,
                StoreInv
  <2>. QED
    BY <2>1, SteadyStutters
<1>10. CASE UpgradeFails
  <2>1. /\ \A t \in Requests : Progress(t)' = Progress(t)
        /\ UNCHANGED <<file, result>> /\ faults' = faults + 1
    BY <1>10 DEF UpgradeFails, Progress, AtHead
  <2>2. Contract!StartFails
    BY <2>1 DEF Contract!StartFails
  <2>. QED
    BY <2>2 DEF Contract!Next
<1>11. CASE Crash
  <2>. DEFINE T == {t \in Requests : pc[t] = "queued"}
  <2>1. /\ UNCHANGED <<file, result, faults>> /\ server' = "down"
        /\ pc' = [t \in Requests |-> IF pc[t] = "queued" THEN "lost" ELSE pc[t]]
    BY <1>11 DEF Crash
  <2>2. \A t \in T : Progress(t) \in {"open", "applied"}
    BY DEF Progress
  <2>3. \A t \in Requests : Progress(t)' = IF t \in T THEN "lost" ELSE Progress(t)
    BY <1>0, <2>1 DEF Progress, AtHead
  <2>4. Contract!Lose(T)
    BY <2>1, <2>2, <2>3 DEF Contract!Lose, Contract!Requests
  <2>. QED
    BY <2>4 DEF Contract!Next, Contract!Requests
<1>12. CASE Rest
  BY <1>1, <1>12 DEF Rest
<1>. QED
  BY <1>1, <1>2, <1>3, <1>4, <1>5, <1>6, <1>7, <1>8, <1>9, <1>10, <1>11, <1>12,
     SteadyStutters DEF Next, Mutate, Persist

\* JsonStore implements AtomicStore: a mutation takes effect once, completely, at
\* the rename; a restart, whatever it has to repair, changes nothing.
THEOREM StoreImplementsContract == Spec => ImplementsContract
<1>1. Init => Contract!Init
  <2>. SUFFICES ASSUME Init PROVE Contract!Init
    OBVIOUS
  <2>1. Upgraded(file) \in Contents
    BY StoreAssumption, UpgradedIsContents DEF Init
  <2>2. \A t \in Requests : Progress(t) = "open"
    BY DEF Init, Progress, AtHead
  <2>. QED
    BY <2>1, <2>2, SameEffects DEF Init, Contract!Init, Contract!Requests
<1>. QED
  BY <1>1, ContractStep, StoreInvariant, PTL DEF Spec, ImplementsContract, Contract!Spec
=============================================================================
