-------------------------- MODULE EntitlementLedger --------------------------
(***************************************************************************)
(* The contents of the database file and what the mutations do to them.    *)
(* The Entitlement ledger is kept with its history: each <<Principal,      *)
(* Resource>> pair has a set of numbered generations.  The other           *)
(* collections (agents, messages, runs, receipts) are one set of notes,    *)
(* each written by one request of another service.                         *)
(***************************************************************************)
EXTENDS Naturals

CONSTANTS
  Pairs,      \* the <<Principal, Resource>> pairs that requests name
  Registered, \* those whose Resource is in the server's Registry
  Matrix,     \* those that the demo policy lets be granted
  Inventory,  \* the pair that was added to the policy after version 2
  Grants, Revokes,  \* requests to the Entitlement service
  Notes,      \* mutations by the other services
  Unfit,      \* those of them that would leave data the schema rejects
  PairOf,     \* what a grant or revoke names
  Absent,     \* there is no file
  Torn        \* a file whose write has begun and not ended, or unparsable

Requests == Grants \cup Revokes \cup Notes

ASSUME LedgerAssumption ==
  /\ Matrix \subseteq Pairs
  /\ Inventory \in Matrix
  /\ Unfit \subseteq Notes
  /\ PairOf \in [Grants \cup Revokes -> Pairs]
  /\ Grants \cap Revokes = {}
  /\ Notes \cap (Grants \cup Revokes) = {}

Entries == [gen : Nat \ {0}, status : {"active", "revoked"}]

\* Sets of entries that have a latest one, as all finite sets do.
Histories ==
  {h \in SUBSET Entries : h = {} \/ \E e \in h : \A f \in h : f.gen <= e.gen}

\* What a file can hold once it parses.
Contents ==
  [version : {1, 2}, notes : SUBSET Notes, ledger : [Pairs -> Histories]]

\* Version 1 had no Entitlements, and no collection that the schema looks into
\* once the Agents have their owner.
FitsVersion1(c) == c.notes \cap Unfit = {} /\ c.ledger = [p \in Pairs |-> {}]

ASSUME NoSuchContents == Absent \notin Contents /\ Torn \notin Contents /\ Absent # Torn

-----------------------------------------------------------------------------
(* One pair's history *)

Current(history) == CHOOSE e \in history : \A f \in history : f.gen <= e.gen

IsActive(history) == history # {} /\ Current(history).status = "active"

LatestGeneration(history) == IF history = {} THEN 0 ELSE Current(history).gen

Granted(history) ==
  IF IsActive(history) THEN history
  ELSE history \cup {[gen |-> LatestGeneration(history) + 1, status |-> "active"]}

Revoked(history) ==
  IF IsActive(history)
  THEN (history \ {Current(history)})
         \cup {[Current(history) EXCEPT !.status = "revoked"]}
  ELSE history

\* The schema of one history: a generation occurs once, and only the latest
\* may be active.
Unambiguous(history) ==
  \A e, f \in history : /\ e.gen = f.gen => e = f
                        /\ e.status = "active" => f.gen <= e.gen

-----------------------------------------------------------------------------
(* The whole file *)

First == {[gen |-> 1, status |-> "active"]}
Seeded == [p \in Pairs |-> IF p \in Matrix THEN First ELSE {}]

EmptyDatabase == [version |-> 2, notes |-> {}, ledger |-> Seeded]

Migrated(c) == [version |-> 2, notes |-> c.notes, ledger |-> Seeded]

\* Mutant: restores a revoked pair, as if only an active entry were history.
BackfilledUnlessActive(c) ==
  IF IsActive(c.ledger[Inventory]) THEN c
  ELSE [c EXCEPT !.ledger[Inventory] = First]

Backfilled(c) ==
  IF c.ledger[Inventory] # {} THEN c
  ELSE [c EXCEPT !.ledger[Inventory] = First]

SchemaAccepts(c) ==
  /\ c.version = 2
  /\ c.notes \cap Unfit = {}
  /\ \A p \in Pairs : /\ Unambiguous(c.ledger[p])
                      /\ c.ledger[p] # {} => p \in Matrix

Readable(file) ==
  /\ file # Torn
  /\ file # Absent => file.version = 1 \/ SchemaAccepts(file)

\* What initialize makes of the file it reads.
Upgraded(file) ==
  IF file \in {Absent, Torn} THEN EmptyDatabase
  ELSE IF file.version = 1 THEN Migrated(file) ELSE Backfilled(file)

-----------------------------------------------------------------------------
(* The mutations *)

\* Refused by the service before it reaches the store.
Forbidden(t) ==
  \/ t \in Grants /\ PairOf[t] \notin Registered \cap Matrix
  \/ t \in Revokes /\ PairOf[t] \notin Registered

Throws(t, c) == t \in Revokes /\ c.ledger[PairOf[t]] = {}

Effect(t, c) ==
  CASE t \in Grants  -> [c EXCEPT !.ledger[PairOf[t]] = Granted(@)]
    [] t \in Revokes -> [c EXCEPT !.ledger[PairOf[t]] = Revoked(@)]
    [] OTHER         -> [c EXCEPT !.notes = @ \cup {t}]

Succeeds(t, c) == ~Throws(t, c) /\ SchemaAccepts(Effect(t, c))

\* The generation a grant or revoke answers with.
Answer(t, c) == IF t \in Notes THEN 0 ELSE LatestGeneration(c.ledger[PairOf[t]])
=============================================================================
