------------------------------ MODULE OrmProofs ------------------------------
(***************************************************************************)
(* What commits make of rows that exist, and what the migration commands   *)
(* record, for all rows, adapters, versions, commands and statements.      *)
(*                                                                         *)
(* Updates: the inductive invariant relates every item to its snapshot and *)
(* its change set, by what was done to it since its last commit.           *)
(* Migrations: it says of each version that all commands at it go the same *)
(* way, that at most one of them has begun, and how far it has come; and   *)
(* of a migration that is passed over that it came late.                   *)
(***************************************************************************)
EXTENDS EntityUpdates, Migrations, FiniteSetTheorems, FunctionTheorems, TLAPS

------------------------------------------------------------------------------
(* Finite sets of numbers have a largest and a smallest one: the sets of   *)
(* members beyond a member are well-founded by inclusion.                  *)
LEMMA Extremes ==
  ASSUME NEW S, S \subseteq Nat, IsFiniteSet(S), S # {}
  PROVE  /\ \E x \in S : \A y \in S : y <= x
         /\ \E x \in S : \A y \in S : x <= y
<1>1. IsWellFoundedOn(StrictSubsetOrdering(S), SUBSET S)
  <2>1. FiniteSubsetsOf(S) = SUBSET S
    BY FS_FiniteSubsetsOfFinite
  <2>2. IsWellFoundedOn(StrictSubsetOrdering(S), FiniteSubsetsOf(S))
    BY FS_StrictSubsetOrderingWellFounded
  <2> QED BY <2>1, <2>2
<1>2. ASSUME NEW beyond \in [S -> SUBSET S]
      PROVE  \E x \in S : \A y \in S : <<beyond[y], beyond[x]>> \notin StrictSubsetOrdering(S)
  <2> DEFINE family == {beyond[x] : x \in S}
  <2>1. family \subseteq SUBSET S /\ family # {}
    OBVIOUS
  <2> HIDE DEF family
  <2>2. \E u \in family : \A v \in family : <<v, u>> \notin StrictSubsetOrdering(S)
    BY <1>1, <2>1, WFMin
  <2> QED BY <2>2 DEF family
<1>3. ASSUME NEW u \in SUBSET S, NEW v \in SUBSET S, <<u, v>> \notin StrictSubsetOrdering(S),
             \A z \in S : z \in u => z \in v
      PROVE  \A z \in S : z \in v => z \in u
  <2>1. ~ (u \subseteq v /\ u # v)
    BY <1>3, Zenon DEF StrictSubsetOrdering
  <2> QED BY <1>3, <2>1
<1>4. \A x, y, z \in S : x <= x /\ (x <= y /\ y <= z => x <= z) /\ (x <= y \/ y <= x) /\ (x <= y /\ y <= x => x = y)
  OBVIOUS
<1>5. \E x \in S : \A y \in S : y <= x
  <2> DEFINE above == [x \in S |-> {y \in S : x <= y}]
  <2>1. above \in [S -> SUBSET S] /\ \A x, y \in S : y \in above[x] <=> x <= y
    OBVIOUS
  <2> HIDE DEF above
  <2>2. PICK x \in S : \A y \in S : <<above[y], above[x]>> \notin StrictSubsetOrdering(S)
    BY <1>2, <2>1
  <2>3. ASSUME NEW y \in S, ~ (y <= x) PROVE FALSE
    <3>1. \A z \in S : z \in above[y] => z \in above[x]
      BY <1>4, <2>1, <2>3
    <3>2. x \in above[x] /\ x \notin above[y]
      BY <1>4, <2>1, <2>3
    <3>3. above[y] \in SUBSET S /\ above[x] \in SUBSET S
      BY <2>1
    <3> QED BY <1>3, <2>2, <3>1, <3>2, <3>3
  <2> QED BY <2>3
<1>6. \E x \in S : \A y \in S : x <= y
  <2> DEFINE below == [x \in S |-> {y \in S : y <= x}]
  <2>1. below \in [S -> SUBSET S] /\ \A x, y \in S : y \in below[x] <=> y <= x
    OBVIOUS
  <2> HIDE DEF below
  <2>2. PICK x \in S : \A y \in S : <<below[y], below[x]>> \notin StrictSubsetOrdering(S)
    BY <1>2, <2>1
  <2>3. ASSUME NEW y \in S, ~ (x <= y) PROVE FALSE
    <3>1. \A z \in S : z \in below[y] => z \in below[x]
      BY <1>4, <2>1, <2>3
    <3>2. x \in below[x] /\ x \notin below[y]
      BY <1>4, <2>1, <2>3
    <3>3. below[y] \in SUBSET S /\ below[x] \in SUBSET S
      BY <2>1
    <3> QED BY <1>3, <2>2, <3>1, <3>2, <3>3
  <2> QED BY <2>3
<1> QED BY <1>5, <1>6

------------------------------------------------------------------------------
(* Updates.                                                                *)
ChangeSets == [inc : {Null, 1}, set : UNION {[D -> Value] : D \in SUBSET Field}]

(* The shapes of the variables. *)
Shapes ==
  /\ adapter \in Adapter
  /\ row \in [Key -> [Field -> Value]]
  /\ item \in [Key -> [Field -> Value] \union {Unknown}]
  /\ snapshot \in [Key -> [Field -> Value] \union {Unknown}]
  /\ changeSet \in [Key -> ChangeSets \union {Null}]
  /\ edited \in [Key -> SUBSET Field] /\ refreshed \in [Key -> SUBSET Field]
  /\ increments \in [Key -> Nat] /\ spoiled \in [Key -> BOOLEAN]

(* What can be added to is a number. Only the memory adapter writes nulls  *)
(* into the rows, for fields of references that nobody loaded.             *)
NumberOrNull == IF adapter = "memory" THEN Nat \union {Null} ELSE Nat

RowIsFull(i) == row[i]["n"] \in NumberOrNull /\ row[i]["t"] # Unset

(* A field that is not hydrated was never set, and its snapshot is null.   *)
ItemIsRead(i) ==
  Known(i) =>
    /\ item[i]["n"] \in NumberOrNull \union {Unset}
    /\ snapshot[i] # Unknown
    /\ \A f \in Field : snapshot[i][f] # Unset /\ (item[i][f] = Unset => snapshot[i][f] = Null)
    /\ \A f \in edited[i] : item[i][f] # Unset

(* What is unknown was not changed.                                        *)
UnknownIsUntouched(i) ==
  ~ Known(i) => edited[i] = {} /\ increments[i] = 0 /\ refreshed[i] = {} /\ changeSet[i] = Null

(* A field that differs from its snapshot was edited, increased, or        *)
(* brought up to date.                                                     *)
DiffersIfTouched(i) ==
  Known(i) => \A f \in Field \ (edited[i] \union refreshed[i]) :
    (f = "n" => increments[i] = 0) => Snapshot(item[i])[f] = snapshot[i][f]

Base(i) == IF changeSet[i] = Null THEN NoChanges ELSE changeSet[i]

(* The change set of an item has what it was increased by, and nothing     *)
(* else unless a commit failed.                                            *)
ChangesAreIncrements(i) ==
  /\ Base(i).inc # Null => increments[i] > 0
  /\ \A f \in DOMAIN Base(i).set : Base(i).set[f] # Unset /\ (f = "n" => Base(i).set[f] \in NumberOrNull)
  /\ ~ spoiled[i] =>
       /\ DOMAIN Base(i).set = {}
       /\ increments[i] > 0 => Base(i).inc = increments[i]

RowInv(i) ==
  /\ RowIsFull(i) /\ ItemIsRead(i) /\ UnknownIsUntouched(i)
  /\ DiffersIfTouched(i) /\ ChangesAreIncrements(i)

UpdatesInv == Shapes /\ \A i \in Key : RowInv(i)

------------------------------------------------------------------------------
(* Snapshots have all fields, with null where the item has nothing.       *)
LEMMA SnapshotTyped ==
  ASSUME NEW fields \in [Field -> Value]
  PROVE  /\ Snapshot(fields) \in [Field -> Value]
         /\ \A f \in Field : Snapshot(fields)[f] = IF fields[f] = Unset THEN Null ELSE fields[f]
<1>1. Null \in Value
  BY DEF Value
<1>. QED
  BY <1>1 DEF Snapshot

(* The empty function is a set of changes.                                 *)
LEMMA Untouched ==
  /\ <<>> \in UNION {[D -> Value] : D \in SUBSET Field}
  /\ DOMAIN <<>> = {}
<1>1. <<>> \in [{} -> Value]
  OBVIOUS
<1>. QED
  BY <1>1

(* So is what a change set has at first, and after an increase().          *)
LEMMA NothingChanged ==
  NoChanges \in ChangeSets /\ NoChanges.inc = Null /\ DOMAIN NoChanges.set = {}
<1>. DEFINE Sets == UNION {[D -> Value] : D \in SUBSET Field}
<1>1. \A set \in Sets : [inc |-> Null, set |-> set] \in ChangeSets
  BY DEF ChangeSets
<1>. HIDE DEF Sets
<1>2. NoChanges.inc = Null /\ NoChanges.set = <<>>
  BY DEF NoChanges
<1>3. NoChanges \in ChangeSets
  BY <1>1, Untouched DEF NoChanges, Sets
<1>. QED
  BY <1>2, <1>3, Untouched

LEMMA OneIncrement ==
  /\ [inc |-> 1, set |-> <<>>] \in ChangeSets
  /\ [inc |-> 1, set |-> <<>>].inc = 1 /\ DOMAIN [inc |-> 1, set |-> <<>>].set = {}
<1>. DEFINE Sets == UNION {[D -> Value] : D \in SUBSET Field}
<1>1. \A set \in Sets : [inc |-> 1, set |-> set] \in ChangeSets
  BY DEF ChangeSets
<1>. HIDE DEF Sets
<1>2. [inc |-> 1, set |-> <<>>].inc = 1 /\ [inc |-> 1, set |-> <<>>].set = <<>>
  OBVIOUS
<1>3. [inc |-> 1, set |-> <<>>] \in ChangeSets
  BY <1>1, Untouched DEF Sets
<1>. QED
  BY <1>2, <1>3, Untouched

(* What an item without a change set begins with is one, too.              *)
LEMMA BaseTyped ==
  ASSUME Shapes, NEW i \in Key
  PROVE  Base(i) \in ChangeSets
BY NothingChanged DEF Base, Shapes

Changed(i) == {f \in Field : ~ (f = "n" /\ Base(i).inc # Null) /\ snapshot[i][f] # Snapshot(item[i])[f]}

(* The detector keeps what the change set has and adds what differs. *)
LEMMA DetectedIs ==
  ASSUME Shapes, NEW i \in Key, Known(i)
  PROVE  /\ Detected(i) \in ChangeSets
         /\ Detected(i).inc = Base(i).inc
         /\ DOMAIN Detected(i).set = Changed(i) \union DOMAIN Base(i).set
         /\ \A f \in Changed(i) : Detected(i).set[f] = item[i][f]
         /\ \A f \in DOMAIN Base(i).set \ Changed(i) : Detected(i).set[f] = Base(i).set[f]
<1>. DEFINE base == Base(i)
            changed == Changed(i)
            set == [f \in changed \union DOMAIN base.set |-> IF f \in changed THEN item[i][f] ELSE base.set[f]]
<1>1. base \in ChangeSets
  BY BaseTyped
<1>2. item[i] \in [Field -> Value]
  BY DEF Shapes, Known
<1>3. PICK D \in SUBSET Field : base.set \in [D -> Value]
  BY <1>1 DEF ChangeSets
<1>4. changed \in SUBSET Field
  BY DEF Changed
<1>5. set \in [changed \union D -> Value] /\ changed \union D \in SUBSET Field
  BY <1>2, <1>3, <1>4
<1>6. Detected(i) = [base EXCEPT !.set = set]
  BY DEF Detected, Base, Changed
<1>. HIDE DEF base, changed
<1>7. set \in UNION {[E -> Value] : E \in SUBSET Field}
  BY <1>5
<1>8. DOMAIN set = changed \union DOMAIN base.set
  OBVIOUS
<1>9. (\A f \in changed : set[f] = item[i][f]) /\ \A f \in DOMAIN base.set \ changed : set[f] = base.set[f]
  OBVIOUS
<1>. HIDE DEF set
<1>10. [base EXCEPT !.set = set] = [inc |-> base.inc, set |-> set]
  BY <1>1 DEF ChangeSets
<1>11. [inc |-> base.inc, set |-> set] \in ChangeSets
  BY <1>1, <1>7 DEF ChangeSets
<1>. QED
  BY <1>6, <1>8, <1>9, <1>10, <1>11 DEF base, changed

------------------------------------------------------------------------------
(* The batches of a list hold what is in the list. *)
(* The number of the batch an item is in is one of those there are.        *)
LEMMA EachIsInABatch ==
  ASSUME NEW size \in Nat \ {0}, NEW n \in Nat, NEW k \in 1 .. n
  PROVE  (k - 1) \div size + 1 \in 1 .. (n + size - 1) \div size
OBVIOUS

(* No batch is empty, of whatever size the adapter makes them.             *)
LEMMA SizeOfBatches ==
  ASSUME NEW s, Len(s) \in Nat \ {0}
  PROVE  (IF adapter = "mongo" \/ adapter = "memory" THEN Len(s) ELSE BatchSize) \in Nat \ {0}
BY UpdatesAssumption

Together(batches) == UNION {batches[b] : b \in 1 .. Len(batches)}

Members(s, n) == {s[k] : k \in 1 .. n}

LEMMA BatchesHoldAll ==
  ASSUME NEW S, NEW n \in Nat \ {0}, NEW s \in [1 .. n -> S]
  PROVE  Len(Batches(s)) \in Nat /\ Together(Batches(s)) = Members(s, n)
<1>. DEFINE size == IF adapter = "mongo" \/ adapter = "memory" THEN Len(s) ELSE BatchSize
            count == (n + size - 1) \div size
            batch(b) == {s[k] : k \in {k \in 1 .. n : (k - 1) \div size = b - 1}}
<1>1. Len(s) = n
  OBVIOUS
<1>2. size \in Nat \ {0}
  BY <1>1, SizeOfBatches
<1>3. Batches(s) = [b \in 1 .. count |-> batch(b)]
  BY <1>1 DEF Batches
<1>. HIDE DEF size
<1>4. count \in Nat
  BY <1>2
<1>. HIDE DEF count
<1>5. Len(Batches(s)) = count
  BY <1>3, <1>4
<1>6. \A b \in 1 .. count : Batches(s)[b] = batch(b)
  BY <1>3
<1>7. ASSUME NEW k \in 1 .. n
      PROVE  \E b \in 1 .. count : s[k] \in batch(b)
  <2>1. (k - 1) \div size + 1 \in 1 .. count
    BY <1>2, EachIsInABatch DEF count
  <2>2. (k - 1) \div size = ((k - 1) \div size + 1) - 1
    BY <1>2
  <2>. QED
    BY <2>1, <2>2
<1>8. \A b \in 1 .. count : Batches(s)[b] \subseteq Members(s, n)
  BY <1>6 DEF Members
<1>9. \A x \in Members(s, n) : \E b \in 1 .. count : x \in Batches(s)[b]
  <2>1. \A k \in 1 .. n : \E b \in 1 .. count : s[k] \in Batches(s)[b]
    <3>. HIDE DEF batch
    <3>. QED
      BY <1>6, <1>7
  <2>. SUFFICES ASSUME NEW x \in Members(s, n)
                PROVE  \E b \in 1 .. count : x \in Batches(s)[b]
    OBVIOUS
  <2>2. PICK k \in 1 .. n : x = s[k]
    BY DEF Members
  <2>. QED
    BY <2>1, <2>2
<1>. HIDE DEF batch
<1>. QED
  <2>1. \A x : x \in Together(Batches(s)) <=> \E b \in 1 .. count : x \in Batches(s)[b]
    BY <1>5, Zenon DEF Together
  <2>2. \A x : x \in Together(Batches(s)) <=> x \in Members(s, n)
    BY <1>8, <1>9, <2>1, Zenon
  <2>. QED
    BY <1>4, <1>5, <2>2

(* A list of the items of a finite set has all of them. *)
LEMMA ListsHoldAll ==
  ASSUME NEW S, IsFiniteSet(S), NEW s \in SetToSeqs(S)
  PROVE  /\ Cardinality(S) \in Nat
         /\ s \in [1 .. Cardinality(S) -> S]
         /\ Members(s, Cardinality(S)) = S
<1>1. Cardinality(S) \in Nat
  BY FS_CardinalityType
<1>2. s \in [1 .. Cardinality(S) -> S] /\ \A i, j \in 1 .. Cardinality(S) : s[i] = s[j] => i = j
  BY DEF SetToSeqs
<1>3. s \in Injection(1 .. Cardinality(S), S)
  BY <1>2, Fun_IsInj
<1>4. Cardinality(1 .. Cardinality(S)) = Cardinality(S)
  BY <1>1, FS_Interval, FS_CardinalityType
<1>5. s \in Surjection(1 .. Cardinality(S), S)
  BY <1>3, <1>4, FS_Injection
<1>6. \A x \in S : \E k \in 1 .. Cardinality(S) : s[k] = x
  BY <1>5 DEF Surjection
<1>. QED
  BY <1>1, <1>2, <1>6 DEF Members

------------------------------------------------------------------------------
(* The invariant holds at the beginning, and the steps of one row keep it. *)
(* The marks for nothing and for null, and what rows have of them.         *)
LEMMA Marks ==
  /\ Null \in Value /\ Unset \in Value /\ Nat \subseteq Value /\ Text \subseteq Value
  /\ Null # Unset /\ Null \notin Nat /\ Unset \notin Nat /\ Null \notin Text /\ Unset \notin Text
  /\ Unset \notin NumberOrNull /\ NumberOrNull \subseteq Nat \union {Null} /\ Nat \subseteq NumberOrNull
BY UpdatesAssumption DEF Value, NumberOrNull

(* What has fields is not the mark of what is not in the identity map.     *)
LEMMA ItemsAreKnown ==
  ASSUME NEW fields \in [Field -> Value]
  PROVE  fields # Unknown
BY UpdatesAssumption

LEMMA UpdatesBegin == UpdatesInit => UpdatesInv
<1>. SUFFICES ASSUME UpdatesInit PROVE UpdatesInv
  OBVIOUS
<1>. DEFINE text == CHOOSE v \in Text : TRUE
<1>1. text \in Text
  BY UpdatesAssumption
<1>2. /\ row = [i \in Key |-> [n |-> 0, t |-> text]]
      /\ [n |-> 0, t |-> text] \in [Field -> Value]
      /\ [n |-> 0, t |-> text]["n"] = 0 /\ [n |-> 0, t |-> text]["t"] = text
  BY <1>1, Marks DEF UpdatesInit, Field
<1>. HIDE DEF text
<1>3. Shapes
  BY <1>2 DEF UpdatesInit, Shapes
<1>4. ASSUME NEW i \in Key
      PROVE  RowInv(i)
  <2>1. row[i]["n"] = 0 /\ row[i]["t"] = text
    BY <1>2
  <2>2. RowIsFull(i)
    BY <1>1, <2>1, Marks DEF RowIsFull
  <2>3. ~ Known(i) /\ edited[i] = {} /\ increments[i] = 0 /\ refreshed[i] = {} /\ changeSet[i] = Null
    BY DEF UpdatesInit, Known
  <2>4. Base(i).inc = Null /\ DOMAIN Base(i).set = {}
    BY <2>3, NothingChanged DEF Base
  <2>. QED
    BY <2>2, <2>3, <2>4 DEF RowInv, ItemIsRead, UnknownIsUntouched, DiffersIfTouched, ChangesAreIncrements
<1>. QED
  BY <1>3, <1>4 DEF UpdatesInv

Same(i) ==
  /\ row'[i] = row[i] /\ item'[i] = item[i] /\ snapshot'[i] = snapshot[i] /\ changeSet'[i] = changeSet[i]
  /\ edited'[i] = edited[i] /\ increments'[i] = increments[i]
  /\ refreshed'[i] = refreshed[i] /\ spoiled'[i] = spoiled[i]

(* A step that leaves a row, its item and its change set alone keeps what  *)
(* is said of them.                                                        *)
LEMMA RowsApart ==
  ASSUME NEW i \in Key, RowInv(i), adapter' = adapter, Same(i)
  PROVE  RowInv(i)'
<1>1. RowIsFull(i)'
  BY DEF Same, RowInv, RowIsFull, NumberOrNull
<1>2. Known(i)' = Known(i)
  BY DEF Same, Known
<1>3. ItemIsRead(i)'
  BY <1>2 DEF Same, RowInv, ItemIsRead, NumberOrNull
<1>4. UnknownIsUntouched(i)' /\ DiffersIfTouched(i)'
  BY <1>2 DEF Same, RowInv, UnknownIsUntouched, DiffersIfTouched, Snapshot
<1>5. Base(i)' = Base(i)
  BY DEF Same, Base
<1>6. ChangesAreIncrements(i)'
  BY <1>5 DEF Same, RowInv, ChangesAreIncrements, NumberOrNull
<1>. QED
  BY <1>1, <1>3, <1>4, <1>6 DEF RowInv

(* Load: the snapshot of what is read is what is read.                     *)
LEMMA LoadInv ==
  ASSUME UpdatesInv, NEW i \in Key, Load(i)
  PROVE  UpdatesInv'
<1>1. row[i] \in [Field -> Value] /\ RowInv(i)
  BY DEF UpdatesInv, Shapes
<1>2. item'[i] = row[i] /\ snapshot'[i] = row[i]
  BY DEF Load, UpdatesInv, Shapes
<1>3. Shapes'
  BY <1>1 DEF Load, UpdatesInv, Shapes, ghostVars
<1>4. \A j \in Key \ {i} : Same(j)
  BY DEF Load, UpdatesInv, Shapes, Same, ghostVars
<1>5. \A f \in Field : row[i][f] # Unset
  BY <1>1, Marks DEF RowInv, RowIsFull, Field
<1>6. /\ row' = row /\ changeSet' = changeSet /\ edited' = edited /\ refreshed' = refreshed
      /\ increments' = increments /\ spoiled' = spoiled /\ adapter' = adapter
  BY DEF Load, ghostVars
<1>7. RowInv(i)'
  <2>1. RowIsFull(i)'
    BY <1>1, <1>6 DEF RowInv, RowIsFull, NumberOrNull
  <2>2. Known(i)' /\ ~ Known(i)
    BY <1>1, <1>2, ItemsAreKnown DEF Known, Load
  <2>3. edited[i] = {} /\ increments[i] = 0 /\ refreshed[i] = {}
    BY <1>1, <2>2 DEF RowInv, UnknownIsUntouched
  <2>4. ItemIsRead(i)'
    BY <1>1, <1>2, <1>5, <1>6, <2>2, <2>3, ItemsAreKnown DEF RowInv, RowIsFull, ItemIsRead, NumberOrNull
  <2>5. UnknownIsUntouched(i)'
    BY <2>2 DEF UnknownIsUntouched
  <2>6. DiffersIfTouched(i)'
    BY <1>1, <1>2, <1>5, SnapshotTyped DEF DiffersIfTouched
  <2>7. ChangesAreIncrements(i)'
    BY <1>1, <1>6 DEF RowInv, ChangesAreIncrements, Base, NumberOrNull
  <2>. QED
    BY <2>1, <2>4, <2>5, <2>6, <2>7 DEF RowInv
<1>8. \A j \in Key \ {i} : RowInv(j)'
  BY <1>4, <1>6, RowsApart DEF UpdatesInv
<1>. QED
  BY <1>3, <1>7, <1>8 DEF UpdatesInv

(* Refer: nothing is set, and the snapshot is null everywhere.             *)
LEMMA ReferInv ==
  ASSUME UpdatesInv, NEW i \in Key, Refer(i)
  PROVE  UpdatesInv'
<1>. DEFINE blank == [f \in Field |-> Unset]
            nulls == [f \in Field |-> Null]
<1>1. blank \in [Field -> Value] /\ nulls \in [Field -> Value] /\ RowInv(i)
  BY Marks DEF UpdatesInv
<1>2. item'[i] = blank /\ snapshot'[i] = nulls
  BY DEF Refer, UpdatesInv, Shapes
<1>3. Shapes'
  BY <1>1 DEF Refer, UpdatesInv, Shapes, ghostVars
<1>4. \A j \in Key \ {i} : Same(j)
  BY DEF Refer, UpdatesInv, Shapes, Same, ghostVars
<1>5. /\ row' = row /\ changeSet' = changeSet /\ edited' = edited /\ refreshed' = refreshed
      /\ increments' = increments /\ spoiled' = spoiled /\ adapter' = adapter
  BY DEF Refer, ghostVars
<1>6. RowInv(i)'
  <2>1. RowIsFull(i)'
    BY <1>1, <1>5 DEF RowInv, RowIsFull, NumberOrNull
  <2>2. Known(i)' /\ ~ Known(i) /\ snapshot'[i] # Unknown
    BY <1>1, <1>2, ItemsAreKnown DEF Known, Refer
  <2>3. edited[i] = {} /\ increments[i] = 0 /\ refreshed[i] = {}
    BY <1>1, <2>2 DEF RowInv, UnknownIsUntouched
  <2>4. ItemIsRead(i)'
    BY <1>2, <1>5, <2>2, <2>3, Marks DEF ItemIsRead, Field
  <2>5. UnknownIsUntouched(i)'
    BY <2>2 DEF UnknownIsUntouched
  <2>6. DiffersIfTouched(i)'
    BY <1>2 DEF DiffersIfTouched, Snapshot
  <2>7. ChangesAreIncrements(i)'
    BY <1>1, <1>5 DEF RowInv, ChangesAreIncrements, Base, NumberOrNull
  <2>. QED
    BY <2>1, <2>4, <2>5, <2>6, <2>7 DEF RowInv
<1>7. \A j \in Key \ {i} : RowInv(j)'
  BY <1>4, <1>5, RowsApart DEF UpdatesInv
<1>. QED
  BY <1>3, <1>6, <1>7 DEF UpdatesInv

(* FindReference: it assigns nothing.                                      *)
LEMMA FindReferenceInv ==
  ASSUME UpdatesInv, NEW i \in Key, FindReference(i)
  PROVE  UpdatesInv'
<1>1. UNCHANGED <<adapter, row, item, snapshot, changeSet, edited, increments, refreshed, spoiled>>
  BY DEF FindReference, ghostVars
<1>2. Shapes' /\ \A j \in Key : Same(j)
  BY <1>1 DEF UpdatesInv, Shapes, Same
<1>. QED
  BY <1>1, <1>2, RowsApart DEF UpdatesInv

(* Edit: the field is edited from now on.                                  *)
LEMMA EditInv ==
  ASSUME UpdatesInv, NEW i \in Key, Edit(i)
  PROVE  UpdatesInv'
<1>0. PICK f \in Field : \E v \in (IF f = "n" THEN {MaxN} ELSE Text) :
        /\ v # item[i][f]
        /\ item' = [item EXCEPT ![i][f] = v]
        /\ edited' = [edited EXCEPT ![i] = @ \union {f}]
  BY DEF Edit
<1>1. PICK v \in (IF f = "n" THEN {MaxN} ELSE Text) :
        /\ v # item[i][f]
        /\ item' = [item EXCEPT ![i][f] = v]
        /\ edited' = [edited EXCEPT ![i] = @ \union {f}]
  BY <1>0
<1>2. v \in Value /\ v # Unset /\ (f = "n" => v \in Nat)
  BY <1>1, Marks, UpdatesAssumption
<1>3. /\ UNCHANGED <<adapter, row, snapshot, changeSet, increments, refreshed, spoiled>>
      /\ Known(i)
  BY DEF Edit
<1>4. item[i] \in [Field -> Value] /\ edited[i] \in SUBSET Field /\ RowInv(i)
  BY <1>3 DEF UpdatesInv, Shapes, Known
<1>5. /\ item'[i] = [item[i] EXCEPT ![f] = v] /\ item'[i] \in [Field -> Value]
      /\ edited'[i] = edited[i] \union {f}
  BY <1>1, <1>2, <1>4 DEF UpdatesInv, Shapes
<1>6. Shapes'
  <2>1. item' = [item EXCEPT ![i] = item'[i]]
    BY <1>1, <1>5 DEF UpdatesInv, Shapes
  <2>2. item' \in [Key -> [Field -> Value] \union {Unknown}]
    BY <2>1, <1>5 DEF UpdatesInv, Shapes
  <2>3. edited' \in [Key -> SUBSET Field]
    BY <1>1, <1>4 DEF UpdatesInv, Shapes
  <2>. QED
    BY <2>2, <2>3, <1>3 DEF UpdatesInv, Shapes
<1>7. \A j \in Key \ {i} : Same(j)
  BY <1>1, <1>3 DEF UpdatesInv, Shapes, Same
<1>8. RowInv(i)'
  <2>1. RowIsFull(i)'
    BY <1>3, <1>4 DEF RowInv, RowIsFull, NumberOrNull
  <2>2. Known(i)'
    BY <1>5, ItemsAreKnown DEF Known
  <2>3. \A g \in Field : item'[i][g] = IF g = f THEN v ELSE item[i][g]
    BY <1>4, <1>5
  <2>4. ItemIsRead(i)'
    <3>1. item'[i]["n"] \in NumberOrNull' \union {Unset}
      BY <1>2, <1>3, <1>4, <2>3, Marks DEF RowInv, ItemIsRead, NumberOrNull, Field
    <3>2. snapshot'[i] = snapshot[i] /\ snapshot[i] # Unknown
      BY <1>3, <1>4 DEF RowInv, ItemIsRead
    <3>3. \A g \in Field : snapshot'[i][g] # Unset /\ (item'[i][g] = Unset => snapshot'[i][g] = Null)
      BY <1>2, <1>3, <1>4, <2>3, <3>2 DEF RowInv, ItemIsRead
    <3>4. \A g \in edited'[i] : item'[i][g] # Unset
      BY <1>2, <1>3, <1>4, <1>5, <2>3 DEF RowInv, ItemIsRead
    <3>. QED
      BY <3>1, <3>2, <3>3, <3>4 DEF ItemIsRead
  <2>5. UnknownIsUntouched(i)'
    BY <2>2 DEF UnknownIsUntouched
  <2>6. DiffersIfTouched(i)'
    BY <1>3, <1>4, <1>5, <2>3 DEF RowInv, DiffersIfTouched, Snapshot
  <2>7. ChangesAreIncrements(i)'
    BY <1>3, <1>4 DEF RowInv, ChangesAreIncrements, Base, NumberOrNull
  <2>. QED
    BY <2>1, <2>4, <2>5, <2>6, <2>7 DEF RowInv
<1>9. \A j \in Key \ {i} : RowInv(j)'
  BY <1>3, <1>7, RowsApart DEF UpdatesInv
<1>. QED
  BY <1>6, <1>8, <1>9 DEF UpdatesInv

(* Increase: one more, unless the change set it replaces had one already.  *)
LEMMA IncreaseInv ==
  ASSUME UpdatesInv, NEW i \in Key, Increase(i)
  PROVE  UpdatesInv'
<1>1. /\ UNCHANGED <<adapter, row, snapshot, edited, refreshed>>
      /\ Known(i) /\ \A f \in Field : item[i][f] # Unset
      /\ item[i]["n"] # Null
  BY DEF Increase, Loaded
<1>2. item[i] \in [Field -> Value] /\ RowInv(i)
  BY <1>1 DEF UpdatesInv, Shapes, Known
<1>3. item[i]["n"] \in Nat
  BY <1>1, <1>2 DEF RowInv, ItemIsRead, NumberOrNull, Field
<1>. DEFINE more == [inc |-> 1, set |-> <<>>]
            n == item[i]["n"] + 1
<1>4. /\ item' = [item EXCEPT ![i] = [item[i] EXCEPT !["n"] = n]]
      /\ changeSet' = [changeSet EXCEPT ![i] = more]
      /\ increments' = [increments EXCEPT ![i] = increments[i] + 1]
      /\ spoiled' = [spoiled EXCEPT ![i] = spoiled[i] \/ increments[i] > 0]
  BY <1>1 DEF Increase
<1>5. n \in Nat /\ n \in Value /\ n # Unset
  BY <1>3, Marks
<1>6. more \in ChangeSets /\ more.inc = 1 /\ DOMAIN more.set = {} /\ more # Null
  BY OneIncrement, UpdatesAssumption
<1>. HIDE DEF n, more
<1>7. /\ item'[i] = [item[i] EXCEPT !["n"] = n] /\ item'[i] \in [Field -> Value]
      /\ changeSet'[i] = more
      /\ increments[i] \in Nat /\ increments'[i] = increments[i] + 1
      /\ spoiled'[i] = (spoiled[i] \/ increments[i] > 0)
  BY <1>2, <1>4, <1>5 DEF UpdatesInv, Shapes
<1>8. Shapes'
  <2>1. item' \in [Key -> [Field -> Value] \union {Unknown}]
    BY <1>2, <1>4, <1>5 DEF UpdatesInv, Shapes
  <2>2. changeSet' \in [Key -> ChangeSets \union {Null}]
    BY <1>4, <1>6 DEF UpdatesInv, Shapes
  <2>3. increments' \in [Key -> Nat] /\ spoiled' \in [Key -> BOOLEAN]
    BY <1>4 DEF UpdatesInv, Shapes
  <2>. QED
    BY <1>1, <2>1, <2>2, <2>3 DEF UpdatesInv, Shapes
<1>9. \A j \in Key \ {i} : Same(j)
  BY <1>1, <1>4 DEF UpdatesInv, Shapes, Same
<1>10. RowInv(i)'
  <2>1. RowIsFull(i)'
    BY <1>1, <1>2 DEF RowInv, RowIsFull, NumberOrNull
  <2>2. Known(i)'
    BY <1>7, ItemsAreKnown DEF Known
  <2>3. \A g \in Field : item'[i][g] = IF g = "n" THEN n ELSE item[i][g]
    BY <1>2, <1>7
  <2>4. ItemIsRead(i)'
    <3>1. item'[i]["n"] \in NumberOrNull'
      BY <1>1, <1>5, <2>3, Marks DEF NumberOrNull, Field
    <3>2. snapshot'[i] = snapshot[i] /\ snapshot[i] # Unknown /\ \A g \in Field : snapshot[i][g] # Unset
      BY <1>1, <1>2 DEF RowInv, ItemIsRead
    <3>3. \A g \in Field : item'[i][g] # Unset
      BY <1>1, <1>5, <2>3
    <3>4. edited'[i] \subseteq Field
      BY <1>1 DEF UpdatesInv, Shapes
    <3>. QED
      BY <3>1, <3>2, <3>3, <3>4 DEF ItemIsRead
  <2>5. UnknownIsUntouched(i)'
    BY <2>2 DEF UnknownIsUntouched
  <2>6. DiffersIfTouched(i)'
    BY <1>1, <1>2, <1>7, <2>3 DEF RowInv, DiffersIfTouched, Snapshot
  <2>7. Base(i)' = more
    BY <1>6, <1>7 DEF Base
  <2>8. ChangesAreIncrements(i)'
    <3>0. ~ spoiled'[i] => ~ (increments[i] > 0)
      BY <1>7, Zenon
    <3>1. increments'[i] > 0 /\ (~ spoiled'[i] => increments'[i] = 1)
      BY <1>7, <3>0
    <3>2. Base(i)'.inc = 1 /\ DOMAIN Base(i)'.set = {}
      BY <1>6, <2>7
    <3>. QED
      BY <3>1, <3>2 DEF ChangesAreIncrements
  <2>. QED
    BY <2>1, <2>4, <2>5, <2>6, <2>8 DEF RowInv
<1>11. \A j \in Key \ {i} : RowInv(j)'
  BY <1>1, <1>9, RowsApart DEF UpdatesInv
<1>. QED
  BY <1>8, <1>10, <1>11 DEF UpdatesInv

(* What a patch by query makes of a row. *)
LEMMA PatchedIs ==
  ASSUME UpdatesInv, NEW i \in Key, row[i].n # Null, NEW changes \in Change
  PROVE  /\ Patched(i, changes) \in [Field -> Value]
         /\ Patched(i, changes)["n"] \in Nat
         /\ Patched(i, changes)["t"] # Unset
         /\ DOMAIN changes.set \subseteq Field
<1>1. /\ row[i] \in [Field -> Value] /\ row[i]["n"] = row[i].n
      /\ row[i]["n"] \in Nat /\ row[i]["t"] # Unset
  BY DEF UpdatesInv, Shapes, RowInv, RowIsFull, NumberOrNull, Field
<1>2. CASE changes = [NoChanges EXCEPT !.inc = 1]
  <2>1. changes.inc = 1 /\ DOMAIN changes.set = {} /\ changes.inc # Null
    BY <1>2, NothingChanged, Marks DEF NoChanges
  <2>2. Patched(i, changes) = [f \in Field |-> IF f = "n" THEN row[i].n + 1 ELSE row[i][f]]
    BY <2>1 DEF Patched
  <2>. QED
    BY <1>1, <2>1, <2>2, Marks DEF Field
<1>3. CASE \E v \in Text : changes = [NoChanges EXCEPT !.set = [f \in {"t"} |-> v]]
  <2>1. PICK v \in Text : changes = [NoChanges EXCEPT !.set = [f \in {"t"} |-> v]]
    BY <1>3
  <2>2. changes.inc = Null /\ changes.set = [f \in {"t"} |-> v]
    BY <2>1 DEF NoChanges
  <2>3. Patched(i, changes) = [f \in Field |-> IF f = "t" THEN v ELSE row[i][f]]
    BY <2>2 DEF Patched
  <2>. QED
    BY <1>1, <2>2, <2>3, Marks DEF Field
<1>. QED
  BY <1>2, <1>3 DEF Change

(* OtherPatch: items know nothing of it.                                   *)
LEMMA OtherPatchInv ==
  ASSUME UpdatesInv, NEW i \in Key, OtherPatch(i)
  PROVE  UpdatesInv'
<1>1. PICK changes \in Change : row' = [row EXCEPT ![i] = Patched(i, changes)]
  BY DEF OtherPatch
<1>2. UNCHANGED <<adapter, item, snapshot, changeSet, edited, increments, refreshed, spoiled>> /\ row[i].n # Null
  BY DEF OtherPatch, itemVars, ghostVars
<1>. DEFINE new == Patched(i, changes)
<1>3. new \in [Field -> Value] /\ new["n"] \in Nat /\ new["t"] # Unset
  BY <1>2, PatchedIs
<1>. HIDE DEF new
<1>4. row' = [row EXCEPT ![i] = new]
  BY <1>1 DEF new
<1>5. Shapes'
  BY <1>2, <1>3, <1>4 DEF UpdatesInv, Shapes
<1>6. \A j \in Key \ {i} : Same(j)
  BY <1>2, <1>4 DEF UpdatesInv, Shapes, Same
<1>7. RowInv(i)'
  <2>1. row'[i] = new
    BY <1>4 DEF UpdatesInv, Shapes
  <2>2. RowIsFull(i)'
    BY <1>2, <1>3, <2>1, Marks DEF RowIsFull, NumberOrNull
  <2>3. RowInv(i) /\ Known(i)' = Known(i) /\ Base(i)' = Base(i) /\ NumberOrNull' = NumberOrNull
    BY <1>2 DEF UpdatesInv, Known, Base, NumberOrNull
  <2>4. ItemIsRead(i)' /\ UnknownIsUntouched(i)'
    BY <1>2, <2>3 DEF RowInv, ItemIsRead, UnknownIsUntouched
  <2>5. DiffersIfTouched(i)' /\ ChangesAreIncrements(i)'
    BY <1>2, <2>3 DEF RowInv, DiffersIfTouched, ChangesAreIncrements, Snapshot
  <2>. QED
    BY <2>2, <2>4, <2>5 DEF RowInv
<1>8. \A j \in Key \ {i} : RowInv(j)'
  BY <1>2, <1>6, RowsApart DEF UpdatesInv
<1>. QED
  BY <1>5, <1>7, <1>8 DEF UpdatesInv

(* Patch: what it brings up to date is noted.                              *)
LEMMA PatchInv ==
  ASSUME UpdatesInv, NEW i \in Key, Patch(i)
  PROVE  UpdatesInv'
<1>. DEFINE Assigned(changes, events) ==
              IF ~ events \/ ~ Known(i) THEN {}
              ELSE DOMAIN changes.set \union (IF changes.inc # Null /\ adapter # "memory" THEN {"n"} ELSE {})
<1>1. PICK changes \in Change, events \in BOOLEAN :
        /\ row' = [row EXCEPT ![i] = Patched(i, changes)]
        /\ item' = IF Assigned(changes, events) = {} THEN item
                   ELSE [item EXCEPT ![i] = [f \in Field |-> IF f \in Assigned(changes, events) THEN Patched(i, changes)[f]
                                                             ELSE @[f]]]
        /\ refreshed' = [refreshed EXCEPT ![i] = @ \union Assigned(changes, events)]
  BY DEF Patch
<1>2. UNCHANGED <<adapter, snapshot, changeSet, edited, increments, spoiled>> /\ row[i].n # Null
  BY DEF Patch
<1>. DEFINE new == Patched(i, changes)
            assigned == Assigned(changes, events)
<1>3. new \in [Field -> Value] /\ new["n"] \in Nat /\ new["t"] # Unset /\ DOMAIN changes.set \subseteq Field
  BY <1>2, PatchedIs
<1>4. assigned \subseteq Field /\ (~ Known(i) => assigned = {})
  BY <1>3 DEF Field
<1>5. /\ row' = [row EXCEPT ![i] = new]
      /\ item' = IF assigned = {} THEN item
                 ELSE [item EXCEPT ![i] = [f \in Field |-> IF f \in assigned THEN new[f] ELSE item[i][f]]]
      /\ refreshed' = [refreshed EXCEPT ![i] = refreshed[i] \union assigned]
  <2>. HIDE DEF Assigned, new
  <2>. QED
    BY <1>1 DEF UpdatesInv, Shapes, new
<1>. HIDE DEF new, assigned
<1>6. Known(i) => item[i] \in [Field -> Value]
  BY DEF UpdatesInv, Shapes, Known
<1>7. Shapes'
  <2>1. item' \in [Key -> [Field -> Value] \union {Unknown}]
    BY <1>3, <1>4, <1>5, <1>6 DEF UpdatesInv, Shapes
  <2>2. row' \in [Key -> [Field -> Value]] /\ refreshed' \in [Key -> SUBSET Field]
    BY <1>3, <1>4, <1>5 DEF UpdatesInv, Shapes
  <2>. QED
    BY <1>2, <2>1, <2>2 DEF UpdatesInv, Shapes
<1>8. \A j \in Key \ {i} : Same(j)
  BY <1>2, <1>5 DEF UpdatesInv, Shapes, Same
<1>9. RowInv(i)'
  <2>1. row'[i] = new /\ refreshed'[i] = refreshed[i] \union assigned
    BY <1>5 DEF UpdatesInv, Shapes
  <2>2. RowIsFull(i)'
    BY <1>2, <1>3, <2>1, Marks DEF RowIsFull, NumberOrNull
  <2>3. RowInv(i) /\ Base(i)' = Base(i) /\ NumberOrNull' = NumberOrNull
    BY <1>2 DEF UpdatesInv, Base, NumberOrNull
  <2>4. Known(i) => \A f \in Field : item'[i][f] = IF f \in assigned THEN new[f] ELSE item[i][f]
    BY <1>5, <1>6 DEF UpdatesInv, Shapes
  <2>5. Known(i)' = Known(i)
    <3>1. CASE assigned = {}
      BY <3>1, <1>5 DEF Known
    <3>2. CASE assigned # {}
      <4>1. item'[i] \in [Field -> Value]
        BY <3>2, <1>3, <1>4, <1>5, <1>6 DEF UpdatesInv, Shapes
      <4>. QED
        BY <3>2, <4>1, <1>4, ItemsAreKnown DEF Known
    <3>. QED
      BY <3>1, <3>2
  <2>6. \A f \in assigned : new[f] # Unset
    BY <1>3, <1>4, Marks DEF Field
  <2>7. ItemIsRead(i)'
    <3>. SUFFICES ASSUME Known(i) PROVE ItemIsRead(i)'
      BY <2>5 DEF ItemIsRead
    <3>1. item'[i]["n"] \in NumberOrNull \union {Unset}
      BY <1>3, <2>3, <2>4, Marks DEF RowInv, ItemIsRead, Field
    <3>2. snapshot'[i] = snapshot[i] /\ snapshot[i] # Unknown
      BY <1>2, <2>3 DEF RowInv, ItemIsRead
    <3>3. \A g \in Field : snapshot'[i][g] # Unset /\ (item'[i][g] = Unset => snapshot'[i][g] = Null)
      BY <2>3, <2>4, <2>6, <3>2 DEF RowInv, ItemIsRead
    <3>4. \A g \in edited'[i] : item'[i][g] # Unset
      BY <1>2, <2>3, <2>4, <2>6 DEF RowInv, ItemIsRead, UpdatesInv, Shapes
    <3>. QED
      BY <2>3, <3>1, <3>2, <3>3, <3>4 DEF ItemIsRead
  <2>8. UnknownIsUntouched(i)'
    BY <1>2, <1>4, <2>1, <2>3, <2>5 DEF RowInv, UnknownIsUntouched
  <2>9. DiffersIfTouched(i)'
    BY <1>2, <2>1, <2>3, <2>4, <2>5 DEF RowInv, DiffersIfTouched, Snapshot
  <2>10. ChangesAreIncrements(i)'
    BY <1>2, <2>3 DEF RowInv, ChangesAreIncrements
  <2>. QED
    BY <2>2, <2>7, <2>8, <2>9, <2>10 DEF RowInv
<1>10. \A j \in Key \ {i} : RowInv(j)'
  BY <1>2, <1>8, RowsApart DEF UpdatesInv
<1>. QED
  BY <1>7, <1>9, <1>10 DEF UpdatesInv

------------------------------------------------------------------------------
(* A commit: what it detects, what it writes, what it reads back.          *)
ToWrite == {i \in Key : ~ IsEmpty(AllChanges[i])}

ReadBack == {i \in ToWrite : AllChanges[i].inc # Null}

RowsWritten(keys) == row' = [i \in Key |-> IF i \in keys THEN Updated(i, AllChanges[i]) ELSE row[i]]

ItemsRead(returned) ==
  item' = [i \in Key |-> IF i \in returned THEN [item[i] EXCEPT !["n"] = Updated(i, AllChanges[i])["n"]] ELSE item[i]]

Succeeds ==
  /\ outcome' = "written" /\ RowsWritten(ToWrite) /\ ItemsRead(ReadBack)
  /\ snapshot' = [i \in Key |-> IF Known(i) THEN Persisted(i, item'[i]) ELSE snapshot[i]]
  /\ changeSet' = [i \in Key |-> IF changeSet[i] = Null THEN Null ELSE NoChanges]
  /\ edited' = [i \in Key |-> {}] /\ increments' = [i \in Key |-> 0]
  /\ refreshed' = [i \in Key |-> {}] /\ spoiled' = [i \in Key |-> FALSE]

Fails ==
  /\ outcome' # "written"
  /\ \E keys \in SUBSET ToWrite, returned \in SUBSET ReadBack : RowsWritten(keys) /\ ItemsRead(returned)
  /\ changeSet' = [i \in Key |-> IF changeSet[i] = Null THEN Null ELSE AllChanges[i]]
  /\ spoiled' = [i \in Key |-> spoiled[i] \/ changeSet[i] # Null]
  /\ UNCHANGED <<snapshot, edited, increments, refreshed>>

(* Only known items are written.                                           *)
LEMMA ChangesOfKnown ==
  ASSUME NEW i \in ToWrite
  PROVE  i \in Key /\ Known(i) /\ AllChanges[i] = Detected(i)
<1>1. i \in Key /\ ~ IsEmpty(AllChanges[i])
  BY DEF ToWrite
<1>2. AllChanges[i] = IF Known(i) THEN Detected(i) ELSE NoChanges
  BY <1>1 DEF AllChanges
<1>3. IsEmpty(NoChanges)
  BY NothingChanged DEF IsEmpty
<1>. QED
  BY <1>1, <1>2, <1>3

(* Batches that hold what changed are written in whole, or the commit      *)
(* fails; in both cases it reads back what it wrote.                       *)
LEMMA WrittenOrNot ==
  ASSUME NEW batches, Len(batches) \in Nat, NEW bad \in Nat,
         Together(batches) = ToWrite,
         WriteBatches(AllChanges, batches, bad)
  PROVE  Succeeds \/ Fails
<1>. DEFINE all == AllChanges
            ends == {b \in 1 .. Len(batches) : b = bad \/ ~ (Updates(batches[b], all).accepted /\ Updates(batches[b], all).readsBack)}
            last == IF ends = {} THEN Len(batches) ELSE Min(ends)
            wrote == {b \in 1 .. last : b # bad /\ Updates(batches[b], all).accepted}
            readable == {b \in wrote : Updates(batches[b], all).readsBack}
            keys == UNION {batches[b] : b \in wrote}
            read == UNION {batches[b] : b \in readable}
            returned == {i \in read : all[i].inc # Null}
<1>1. /\ row' = [i \in Key |-> IF i \in keys THEN Updated(i, all[i]) ELSE row[i]]
      /\ item' = [i \in Key |-> IF i \in returned THEN [item[i] EXCEPT !.n = Updated(i, all[i]).n] ELSE item[i]]
      /\ ends = {} => /\ outcome' = "written"
                      /\ snapshot' = [i \in Key |-> IF Known(i) THEN Persisted(i, item'[i]) ELSE snapshot[i]]
                      /\ changeSet' = [i \in Key |-> IF changeSet[i] = Null THEN Null ELSE NoChanges]
                      /\ edited' = [i \in Key |-> {}] /\ increments' = [i \in Key |-> 0]
                      /\ refreshed' = [i \in Key |-> {}] /\ spoiled' = [i \in Key |-> FALSE]
      /\ ends # {} => /\ outcome' \in {"thrown", "refused"}
                      /\ changeSet' = [i \in Key |-> IF changeSet[i] = Null THEN Null ELSE all[i]]
                      /\ spoiled' = [i \in Key |-> spoiled[i] \/ changeSet[i] # Null]
                      /\ UNCHANGED <<snapshot, edited, increments, refreshed>>
  BY DEF WriteBatches
<1>2. last \in Nat /\ last <= Len(batches)
  <2>1. ends \subseteq 1 .. Len(batches) /\ ends \subseteq Nat
    OBVIOUS
  <2>2. CASE ends = {}
    BY <2>2
  <2>3. CASE ends # {}
    <3>. HIDE DEF ends
    <3>1. IsFiniteSet(1 .. Len(batches))
      BY FS_Interval
    <3>2. IsFiniteSet(ends)
      BY <2>1, <3>1, FS_Subset
    <3>3. \E n \in ends : \A m \in ends : n <= m
      BY <2>1, <2>3, <3>2, Extremes
    <3>4. Min(ends) \in ends
      BY <3>3 DEF Min
    <3>5. last = Min(ends)
      BY <2>3
    <3>6. last \in 1 .. Len(batches)
      BY <2>1, <3>4, <3>5
    <3>. HIDE DEF last
    <3>. QED
      BY <3>6
  <2>. QED
    BY <2>2, <2>3
<1>3. keys \subseteq ToWrite /\ read \subseteq keys
  <2>1. wrote \subseteq 1 .. Len(batches) /\ readable \subseteq wrote
    <3>. HIDE DEF last
    <3>. QED
      BY <1>2
  <2>. HIDE DEF wrote, readable
  <2>. QED
    BY <2>1 DEF Together
<1>4. returned \subseteq ReadBack
  <2>. HIDE DEF keys, read
  <2>. QED
    BY <1>3 DEF ReadBack
<1>5. RowsWritten(keys) /\ ItemsRead(returned)
  <2>. HIDE DEF keys, returned
  <2>1. RowsWritten(keys)
    BY <1>1 DEF RowsWritten
  <2>2. \A i \in Key : [item[i] EXCEPT !.n = Updated(i, all[i]).n] = [item[i] EXCEPT !["n"] = Updated(i, all[i])["n"]]
    OBVIOUS
  <2>. QED
    BY <1>1, <2>1, <2>2 DEF ItemsRead
<1>6. CASE ends = {}
  <2>1. \A b \in 1 .. Len(batches) : b # bad /\ Updates(batches[b], all).accepted /\ Updates(batches[b], all).readsBack
    BY <1>6
  <2>2. last = Len(batches)
    BY <1>6
  <2>3. wrote = 1 .. Len(batches) /\ readable = wrote
    <3>. HIDE DEF last
    <3>. QED
      BY <2>1, <2>2
  <2>4. keys = ToWrite /\ read = ToWrite
    <3>. HIDE DEF wrote, readable
    <3>. QED
      BY <2>3 DEF Together
  <2>5. returned = ReadBack
    <3>. HIDE DEF read
    <3>. QED
      BY <2>4 DEF ReadBack
  <2>. HIDE DEF keys, returned, ends
  <2>6. Succeeds
    BY <1>1, <1>5, <1>6, <2>4, <2>5 DEF Succeeds
  <2>. QED
    BY <2>6
<1>7. CASE ends # {}
  <2>. HIDE DEF keys, returned, ends, read
  <2>1. outcome' # "written"
    BY <1>1, <1>7
  <2>2. Fails
    BY <1>1, <1>3, <1>4, <1>5, <1>7, <2>1 DEF Fails
  <2>. QED
    BY <2>2
<1>. QED
  BY <1>6, <1>7

(* A commit writes the batches of all that changed, or fails.              *)
LEMMA CommitIs ==
  ASSUME Commit
  PROVE  adapter' = adapter /\ (Succeeds \/ Fails)
<1>1. PICK s \in SetToSeqs(ToWrite) :
        /\ s # <<>>
        /\ \E bad \in (IF failures < MaxFailures THEN 0 .. Len(Batches(s)) ELSE {0}) :
             WriteBatches(AllChanges, Batches(s), bad)
  BY DEF Commit, ToWrite
<1>. DEFINE many == Cardinality(ToWrite)
<1>2. many \in Nat /\ s \in [1 .. many -> ToWrite] /\ Members(s, many) = ToWrite
  <2>1. IsFiniteSet(ToWrite)
    BY UpdatesAssumption, FS_Subset DEF ToWrite
  <2>. QED
    BY <2>1, ListsHoldAll
<1>. HIDE DEF many
<1>3. many \in Nat \ {0}
  <2>1. many # 0
    <3>. SUFFICES ASSUME many = 0 PROVE FALSE
      OBVIOUS
    <3>1. s \in [{} -> ToWrite]
      BY <1>2
    <3>. QED
      BY <1>1, <3>1
  <2>. QED
    BY <1>2, <2>1
<1>4. Len(Batches(s)) \in Nat /\ Together(Batches(s)) = ToWrite
  BY <1>2, <1>3, BatchesHoldAll
<1>5. PICK bad \in Nat : WriteBatches(AllChanges, Batches(s), bad)
  BY <1>1, <1>4
<1>6. Succeeds \/ Fails
  BY <1>4, <1>5, WrittenOrNot
<1>. QED
  BY <1>6 DEF Commit

(* What the change sets hold can be written. *)
LEMMA DetectedValues ==
  ASSUME UpdatesInv, NEW i \in Key, Known(i)
  PROVE  /\ DOMAIN Detected(i).set \subseteq Field
         /\ \A f \in DOMAIN Detected(i).set :
              /\ Detected(i).set[f] \in Value /\ Detected(i).set[f] # Unset
              /\ f = "n" => Detected(i).set[f] \in NumberOrNull
<1>1. Shapes /\ RowInv(i) /\ item[i] \in [Field -> Value]
  BY DEF UpdatesInv, Shapes, Known
<1>2. /\ Detected(i) \in ChangeSets
      /\ DOMAIN Detected(i).set = Changed(i) \union DOMAIN Base(i).set
      /\ \A f \in Changed(i) : Detected(i).set[f] = item[i][f]
      /\ \A f \in DOMAIN Base(i).set \ Changed(i) : Detected(i).set[f] = Base(i).set[f]
  BY <1>1, DetectedIs
<1>3. \A f \in Changed(i) : f \in Field /\ item[i][f] # Unset
  <2>1. \A f \in Field : item[i][f] = Unset => Snapshot(item[i])[f] = Null /\ snapshot[i][f] = Null
    BY <1>1, SnapshotTyped DEF RowInv, ItemIsRead
  <2>. QED
    BY <2>1 DEF Changed
<1>4. \A f \in Changed(i) : f = "n" => item[i][f] \in NumberOrNull
  BY <1>1, <1>3 DEF RowInv, ItemIsRead
<1>5. PICK D \in SUBSET Field : Detected(i).set \in [D -> Value]
  BY <1>2 DEF ChangeSets
<1>6. D = DOMAIN Detected(i).set
  BY <1>5
<1>7. \A f \in DOMAIN Base(i).set : Base(i).set[f] # Unset /\ (f = "n" => Base(i).set[f] \in NumberOrNull)
  BY <1>1 DEF RowInv, ChangesAreIncrements
<1>. QED
  BY <1>2, <1>3, <1>4, <1>5, <1>6, <1>7

(* What an update makes of a row is a row.                                 *)
LEMMA UpdatedIs ==
  ASSUME UpdatesInv, NEW i \in Key, Known(i)
  PROVE  /\ Updated(i, Detected(i)) \in [Field -> Value]
         /\ Updated(i, Detected(i))["n"] \in NumberOrNull
         /\ Updated(i, Detected(i))["t"] # Unset
<1>1. /\ Shapes /\ RowInv(i)
      /\ item[i] \in [Field -> Value] /\ row[i] \in [Field -> Value]
      /\ item[i]["n"] \in NumberOrNull \union {Unset} /\ row[i]["n"] \in NumberOrNull /\ row[i]["t"] # Unset
  BY DEF UpdatesInv, Shapes, Known, RowInv, ItemIsRead, RowIsFull
<1>. DEFINE d == Detected(i)
<1>2. d \in ChangeSets /\ d.inc \in {Null, 1}
  BY <1>1, DetectedIs DEF ChangeSets
<1>3. /\ DOMAIN d.set \subseteq Field
      /\ \A f \in DOMAIN d.set : d.set[f] \in Value /\ d.set[f] # Unset /\ (f = "n" => d.set[f] \in NumberOrNull)
  BY DetectedValues
<1>. HIDE DEF d
<1>4. CASE adapter = "memory"
  <2>1. Updated(i, d) = Snapshot(item[i])
    BY <1>4 DEF Updated
  <2>2. NumberOrNull = Nat \union {Null}
    BY <1>4 DEF NumberOrNull
  <2>3. Snapshot(item[i])["n"] \in NumberOrNull /\ Snapshot(item[i])["t"] # Unset
    BY <1>1, <2>2, SnapshotTyped, Marks DEF Field
  <2>. QED
    BY <1>1, <2>1, <2>3, SnapshotTyped DEF d
<1>5. CASE adapter # "memory"
  <2>1. Updated(i, d) = [f \in Field |-> IF f = "n" /\ d.inc # Null THEN row[i]["n"] + d.inc
                                         ELSE IF f \in DOMAIN d.set THEN d.set[f] ELSE row[i][f]]
    BY <1>5 DEF Updated
  <2>2. NumberOrNull = Nat
    BY <1>5 DEF NumberOrNull
  <2>3. d.inc # Null => row[i]["n"] + d.inc \in Nat
    BY <1>1, <1>2, <2>2
  <2>4. \A f \in Field : Updated(i, d)[f] = IF f = "n" /\ d.inc # Null THEN row[i]["n"] + d.inc
                                         ELSE IF f \in DOMAIN d.set THEN d.set[f] ELSE row[i][f]
    BY <2>1
  <2>5. Updated(i, d)["n"] \in Nat /\ Updated(i, d)["n"] \in NumberOrNull
    BY <1>1, <1>3, <2>2, <2>3, <2>4 DEF Field
  <2>6. Updated(i, d)["t"] # Unset /\ Updated(i, d)["t"] \in Value
    BY <1>1, <1>3, <2>4 DEF Field
  <2>7. Updated(i, d) \in [Field -> Value]
    BY <2>1, <2>5, <2>6, Marks DEF Field
  <2>. QED
    BY <2>5, <2>6, <2>7 DEF d
<1>. QED
  BY <1>4, <1>5

(* The shapes of what a commit writes, whether it fails or not. *)
LEMMA CommitWrites ==
  ASSUME UpdatesInv, NEW keys \in SUBSET ToWrite, NEW returned \in SUBSET ReadBack,
         RowsWritten(keys), ItemsRead(returned), adapter' = adapter
  PROVE  /\ row' \in [Key -> [Field -> Value]]
         /\ item' \in [Key -> [Field -> Value] \union {Unknown}]
         /\ \A i \in Key :
              /\ RowIsFull(i)'
              /\ Known(i)' = Known(i)
              /\ Known(i) =>
                   /\ item[i] \in [Field -> Value] /\ item'[i] \in [Field -> Value]
                   /\ \A f \in Field : item'[i][f] # item[i][f] => f = "n" /\ i \in returned
                   /\ i \in returned => item'[i]["n"] \in NumberOrNull
<1>1. NumberOrNull' = NumberOrNull
  BY DEF NumberOrNull
<1>2. ASSUME NEW i \in Key
      PROVE  /\ row'[i] \in [Field -> Value] /\ row'[i]["n"] \in NumberOrNull /\ row'[i]["t"] # Unset
  <2>1. CASE i \in keys
    <3>1. Known(i) /\ AllChanges[i] = Detected(i)
      BY <2>1, ChangesOfKnown
    <3>2. row'[i] = Updated(i, Detected(i))
      BY <2>1, <3>1 DEF RowsWritten
    <3>. QED
      BY <3>1, <3>2, UpdatedIs
  <2>2. CASE i \notin keys
    <3>1. row'[i] = row[i]
      BY <2>2 DEF RowsWritten
    <3>. QED
      BY <3>1 DEF UpdatesInv, Shapes, RowInv, RowIsFull
  <2>. QED
    BY <2>1, <2>2
<1>3. ASSUME NEW i \in Key
      PROVE  /\ item'[i] \in [Field -> Value] \union {Unknown}
             /\ Known(i)' = Known(i)
             /\ Known(i) =>
                   /\ item[i] \in [Field -> Value] /\ item'[i] \in [Field -> Value]
                   /\ \A f \in Field : item'[i][f] # item[i][f] => f = "n" /\ i \in returned
                   /\ i \in returned => item'[i]["n"] \in NumberOrNull
  <2>1. item[i] \in [Field -> Value] \union {Unknown}
    BY DEF UpdatesInv, Shapes
  <2>2. CASE i \in returned
    <3>1. i \in ToWrite /\ Known(i) /\ AllChanges[i] = Detected(i)
      BY <2>2, ChangesOfKnown DEF ReadBack
    <3>. DEFINE n == Updated(i, AllChanges[i])["n"]
    <3>2. n \in NumberOrNull /\ n \in Value
      BY <3>1, UpdatedIs, Marks
    <3>3. item'[i] = [item[i] EXCEPT !["n"] = n]
      BY <2>2 DEF ItemsRead
    <3>. HIDE DEF n
    <3>4. item[i] \in [Field -> Value]
      BY <2>1, <3>1 DEF Known
    <3>5. item'[i] \in [Field -> Value] /\ item'[i]["n"] = n /\ \A f \in Field : f # "n" => item'[i][f] = item[i][f]
      BY <3>2, <3>3, <3>4 DEF Field
    <3>6. Known(i)'
      BY <3>5, ItemsAreKnown DEF Known
    <3>. QED
      BY <2>2, <3>1, <3>2, <3>4, <3>5, <3>6
  <2>3. CASE i \notin returned
    <3>1. item'[i] = item[i]
      BY <2>3 DEF ItemsRead
    <3>. QED
      BY <2>1, <2>3, <3>1 DEF Known
  <2>. QED
    BY <2>2, <2>3
<1>4. row' = [i \in Key |-> row'[i]]
  BY DEF RowsWritten
<1>5. item' = [i \in Key |-> item'[i]]
  BY DEF ItemsRead
<1>6. \A i \in Key : RowIsFull(i)'
  BY <1>1, <1>2 DEF RowIsFull
<1>7. row' \in [Key -> [Field -> Value]]
  BY <1>2, <1>4
<1>8. item' \in [Key -> [Field -> Value] \union {Unknown}]
  BY <1>3, <1>5
<1>. QED
  BY <1>3, <1>6, <1>7, <1>8

(* A commit that succeeds starts every item anew.                          *)
LEMMA SucceedsInv ==
  ASSUME UpdatesInv, Succeeds, adapter' = adapter
  PROVE  UpdatesInv'
<1>1. /\ row' \in [Key -> [Field -> Value]]
      /\ item' \in [Key -> [Field -> Value] \union {Unknown}]
      /\ \A i \in Key :
           /\ RowIsFull(i)'
           /\ Known(i)' = Known(i)
           /\ Known(i) =>
                /\ item[i] \in [Field -> Value] /\ item'[i] \in [Field -> Value]
                /\ \A f \in Field : item'[i][f] # item[i][f] => f = "n" /\ i \in ReadBack
                /\ i \in ReadBack => item'[i]["n"] \in NumberOrNull
  BY CommitWrites DEF Succeeds
<1>2. \A i \in Key :
        /\ snapshot'[i] = IF Known(i) THEN Snapshot(item'[i]) ELSE snapshot[i]
        /\ changeSet'[i] = IF changeSet[i] = Null THEN Null ELSE NoChanges
        /\ edited'[i] = {} /\ increments'[i] = 0 /\ refreshed'[i] = {} /\ spoiled'[i] = FALSE
  BY DEF Succeeds, Persisted
<1>3. Shapes'
  <2>1. snapshot' \in [Key -> [Field -> Value] \union {Unknown}]
    <3>1. snapshot' = [i \in Key |-> snapshot'[i]]
      BY DEF Succeeds
    <3>2. ASSUME NEW i \in Key
          PROVE  snapshot'[i] \in [Field -> Value] \union {Unknown}
      <4>1. CASE Known(i)
        <5>1. item'[i] \in [Field -> Value]
          BY <1>1, <4>1
        <5>2. Snapshot(item'[i]) \in [Field -> Value]
          BY <5>1, SnapshotTyped
        <5>. QED
          BY <1>2, <4>1, <5>2
      <4>2. CASE ~ Known(i)
        <5>1. snapshot[i] \in [Field -> Value] \union {Unknown}
          BY DEF UpdatesInv, Shapes
        <5>. QED
          BY <1>2, <4>2, <5>1
      <4>. QED
        BY <4>1, <4>2
    <3>. QED
      BY <3>1, <3>2
  <2>2. changeSet' \in [Key -> ChangeSets \union {Null}]
    BY NothingChanged DEF Succeeds
  <2>3. /\ edited' \in [Key -> SUBSET Field] /\ refreshed' \in [Key -> SUBSET Field]
        /\ increments' \in [Key -> Nat] /\ spoiled' \in [Key -> BOOLEAN]
    BY DEF Succeeds
  <2>. QED
    BY <1>1, <2>1, <2>2, <2>3 DEF UpdatesInv, Shapes
<1>4. ASSUME NEW i \in Key
      PROVE  RowInv(i)'
  <2>1. NumberOrNull' = NumberOrNull
    BY DEF NumberOrNull
  <2>2. RowInv(i)
    BY DEF UpdatesInv
  <2>3. ItemIsRead(i)'
    <3>. SUFFICES ASSUME Known(i) PROVE ItemIsRead(i)'
      BY <1>1 DEF ItemIsRead
    <3>1. item'[i]["n"] \in NumberOrNull \union {Unset}
      BY <1>1, <2>2 DEF RowInv, ItemIsRead, Field
    <3>2. snapshot'[i] = Snapshot(item'[i]) /\ snapshot'[i] # Unknown
      BY <1>1, <1>2, SnapshotTyped, ItemsAreKnown
    <3>3. \A f \in Field : snapshot'[i][f] # Unset /\ (item'[i][f] = Unset => snapshot'[i][f] = Null)
      BY <1>1, <3>2, SnapshotTyped, Marks
    <3>. QED
      BY <1>2, <2>1, <3>1, <3>2, <3>3 DEF ItemIsRead
  <2>4. UnknownIsUntouched(i)'
    BY <1>1, <1>2, <2>2 DEF RowInv, UnknownIsUntouched
  <2>5. DiffersIfTouched(i)'
    BY <1>1, <1>2 DEF DiffersIfTouched, Snapshot
  <2>6. Base(i)' = NoChanges
    BY <1>2 DEF Base
  <2>7. ChangesAreIncrements(i)'
    BY <1>2, <2>6, NothingChanged DEF ChangesAreIncrements
  <2>. QED
    BY <1>1, <2>3, <2>4, <2>5, <2>7 DEF RowInv
<1>. QED
  BY <1>3, <1>4 DEF UpdatesInv

(* One that fails leaves what it detected in the change sets.              *)
LEMMA FailsInv ==
  ASSUME UpdatesInv, Fails, adapter' = adapter
  PROVE  UpdatesInv'
<1>1. PICK keys \in SUBSET ToWrite, returned \in SUBSET ReadBack : RowsWritten(keys) /\ ItemsRead(returned)
  BY DEF Fails
<1>2. /\ row' \in [Key -> [Field -> Value]]
      /\ item' \in [Key -> [Field -> Value] \union {Unknown}]
      /\ \A i \in Key :
           /\ RowIsFull(i)'
           /\ Known(i)' = Known(i)
           /\ Known(i) =>
                /\ item[i] \in [Field -> Value] /\ item'[i] \in [Field -> Value]
                /\ \A f \in Field : item'[i][f] # item[i][f] => f = "n" /\ i \in returned
                /\ i \in returned => item'[i]["n"] \in NumberOrNull
  BY <1>1, CommitWrites
<1>3. /\ \A i \in Key :
           /\ changeSet'[i] = IF changeSet[i] = Null THEN Null ELSE AllChanges[i]
           /\ spoiled'[i] = (spoiled[i] \/ changeSet[i] # Null)
      /\ UNCHANGED <<snapshot, edited, increments, refreshed>>
  BY DEF Fails
<1>4. \A i \in Key : changeSet[i] # Null => Known(i) /\ AllChanges[i] = Detected(i)
  BY DEF UpdatesInv, RowInv, UnknownIsUntouched, AllChanges
<1>5. Shapes'
  <2>1. \A i \in Key : changeSet'[i] \in ChangeSets \union {Null}
    BY <1>3, <1>4, DetectedIs DEF UpdatesInv
  <2>2. changeSet' \in [Key -> ChangeSets \union {Null}]
    <3>1. changeSet' = [i \in Key |-> changeSet'[i]]
      BY DEF Fails
    <3>. QED
      BY <2>1, <3>1
  <2>3. spoiled' \in [Key -> BOOLEAN]
    BY DEF Fails
  <2>. QED
    BY <1>2, <1>3, <2>2, <2>3 DEF UpdatesInv, Shapes
<1>6. ASSUME NEW i \in Key
      PROVE  RowInv(i)'
  <2>1. NumberOrNull' = NumberOrNull
    BY DEF NumberOrNull
  <2>2. RowInv(i) /\ Shapes
    BY DEF UpdatesInv
  <2>3. ItemIsRead(i)'
    <3>. SUFFICES ASSUME Known(i) PROVE ItemIsRead(i)'
      BY <1>2 DEF ItemIsRead
    <3>1. item'[i]["n"] \in NumberOrNull \union {Unset}
      BY <1>2, <2>2 DEF RowInv, ItemIsRead, Field
    <3>2. snapshot'[i] = snapshot[i] /\ edited'[i] = edited[i]
      BY <1>3
    <3>3. \A f \in Field : item'[i][f] = Unset => item[i][f] = Unset
      BY <1>2, Marks
    <3>4. edited[i] \subseteq Field
      BY <2>2 DEF Shapes
    <3>. QED
      BY <2>1, <2>2, <3>1, <3>2, <3>3, <3>4 DEF RowInv, ItemIsRead
  <2>4. UnknownIsUntouched(i)'
    BY <1>2, <1>3, <2>2 DEF RowInv, UnknownIsUntouched
  <2>5. i \in returned => increments[i] > 0
    <3>. SUFFICES ASSUME i \in returned PROVE increments[i] > 0
      OBVIOUS
    <3>1. Known(i) /\ AllChanges[i] = Detected(i) /\ AllChanges[i].inc # Null
      BY ChangesOfKnown DEF ReadBack
    <3>2. Base(i).inc # Null
      BY <2>2, <3>1, DetectedIs
    <3>. QED
      BY <2>2, <3>2 DEF RowInv, ChangesAreIncrements
  <2>6. DiffersIfTouched(i)'
    <3>. SUFFICES ASSUME Known(i), NEW f \in Field \ (edited[i] \union refreshed[i]), f = "n" => increments[i] = 0
                  PROVE  Snapshot(item'[i])[f] = snapshot[i][f]
      BY <1>2, <1>3 DEF DiffersIfTouched, Snapshot
    <3>1. item'[i][f] = item[i][f]
      BY <1>2, <2>5
    <3>2. Snapshot(item'[i])[f] = Snapshot(item[i])[f]
      BY <1>2, <3>1, SnapshotTyped
    <3>. QED
      BY <2>2, <3>2 DEF RowInv, DiffersIfTouched
  <2>7. ChangesAreIncrements(i)'
    <3>1. CASE changeSet[i] = Null
      <4>1. Base(i)' = Base(i) /\ increments'[i] = increments[i] /\ (~ spoiled'[i] => ~ spoiled[i])
        BY <1>3, <3>1 DEF Base
      <4>. QED
        BY <2>1, <2>2, <4>1 DEF RowInv, ChangesAreIncrements
    <3>2. CASE changeSet[i] # Null
      <4>1. Known(i) /\ changeSet'[i] = Detected(i) /\ spoiled'[i] /\ increments'[i] = increments[i]
        BY <1>3, <1>4, <3>2
      <4>2. Detected(i).inc = Base(i).inc
        BY <2>2, <4>1, DetectedIs
      <4>3. Base(i)' = Detected(i) \/ Base(i)' = NoChanges
        BY <4>1 DEF Base
      <4>4. \A f \in DOMAIN Detected(i).set : Detected(i).set[f] # Unset /\ (f = "n" => Detected(i).set[f] \in NumberOrNull)
        BY <4>1, DetectedValues
      <4>5. CASE Base(i)' = Detected(i)
        BY <2>1, <2>2, <4>1, <4>2, <4>4, <4>5 DEF RowInv, ChangesAreIncrements
      <4>6. CASE Base(i)' = NoChanges
        BY <4>1, <4>6, NothingChanged DEF ChangesAreIncrements
      <4>. QED
        BY <4>3, <4>5, <4>6
    <3>. QED
      BY <3>1, <3>2
  <2>. QED
    BY <1>2, <2>3, <2>4, <2>6, <2>7 DEF RowInv
<1>. QED
  BY <1>5, <1>6 DEF UpdatesInv

(* Every step keeps the invariant.                                         *)
LEMMA UpdatesKeep == UpdatesInv /\ [UpdatesNext]_entityVars => UpdatesInv'
<1>. SUFFICES ASSUME UpdatesInv, [UpdatesNext]_entityVars PROVE UpdatesInv'
  OBVIOUS
<1>1. CASE UNCHANGED entityVars
  <2>1. UNCHANGED <<adapter, row, item, snapshot, changeSet, edited, increments, refreshed, spoiled>>
    BY <1>1 DEF entityVars, itemVars, ghostVars
  <2>2. Shapes' /\ \A j \in Key : Same(j)
    BY <2>1 DEF UpdatesInv, Shapes, Same
  <2>. QED
    BY <2>1, <2>2, RowsApart DEF UpdatesInv
<1>2. CASE Commit
  BY <1>2, CommitIs, SucceedsInv, FailsInv
<1>. QED
  BY <1>1, <1>2, LoadInv, ReferInv, FindReferenceInv, EditInv, IncreaseInv, OtherPatchInv, PatchInv DEF UpdatesNext

------------------------------------------------------------------------------
(* For any rows, texts, adapters and sizes of batches, and however often   *)
(* anybody edits, patches, commits and fails, what an item differs by from *)
(* its snapshot was done to it since its last commit, and its change set   *)
(* says what it was increased by.                                          *)
THEOREM UpdatesInvariance == UpdatesSpec => []UpdatesInv
<1>. QED
  BY UpdatesBegin, UpdatesKeep, PTL DEF UpdatesSpec

(* The snapshots of items without pending edits are their values:          *)
(* identity-map.ts:74 "the last known values known to be in the database". *)
THEOREM SnapshotsAreItems == UpdatesSpec => []SnapshotsFollow
<1>1. UpdatesInv => SnapshotsFollow
  <2>. SUFFICES ASSUME UpdatesInv, NEW i \in Key,
                       Loaded(i), edited[i] = {}, increments[i] = 0, refreshed[i] = {}
                PROVE  snapshot[i] = item[i]
    BY DEF SnapshotsFollow
  <2>1. item[i] \in [Field -> Value] /\ Known(i) /\ \A f \in Field : item[i][f] # Unset
    BY DEF Loaded, Known, UpdatesInv, Shapes
  <2>2. snapshot[i] \in [Field -> Value]
    BY <2>1 DEF UpdatesInv, Shapes, RowInv, ItemIsRead
  <2>3. \A f \in Field : Snapshot(item[i])[f] = item[i][f]
    BY <2>1, SnapshotTyped
  <2>4. \A f \in Field : snapshot[i][f] = item[i][f]
    BY <2>1, <2>3 DEF UpdatesInv, RowInv, DiffersIfTouched
  <2>. QED
    BY <2>1, <2>2, <2>4
<1>. QED
  BY <1>1, UpdatesInvariance, PTL

(* A commit that succeeds merges what its session did into the rows as     *)
(* they are by then, whoever else wrote them, on every adapter but that of *)
(* the memory database.                                                    *)
THEOREM CommitsAreMerges == UpdatesSpec => CommitsMerge
<1>1. UpdatesInv /\ [UpdatesNext]_entityVars =>
        [(Commit /\ outcome' = "written" /\ adapter # "memory") => \A i \in Key : spoiled[i] \/ Merged(i)]_entityVars
  <2>. SUFFICES ASSUME UpdatesInv, Commit, outcome' = "written", adapter # "memory", NEW i \in Key, ~ spoiled[i]
                PROVE  Merged(i)
    BY Zenon
  <2>1. Succeeds
    BY CommitIs DEF Fails
  <2>2. Shapes /\ RowInv(i)
    BY DEF UpdatesInv
  <2>3. /\ Base(i).inc # Null => increments[i] > 0
        /\ DOMAIN Base(i).set = {}
        /\ increments[i] > 0 => Base(i).inc = increments[i]
        /\ increments[i] \in Nat
    BY <2>2 DEF RowInv, ChangesAreIncrements, Shapes
  <2>4. CASE i \notin ToWrite
    <3>1. row'[i] = row[i]
      BY <2>1, <2>4 DEF Succeeds, RowsWritten
    <3>2. AllChanges[i].inc = Null /\ DOMAIN AllChanges[i].set = {}
      BY <2>4 DEF ToWrite, IsEmpty
    <3>3. ~ Known(i) => edited[i] = {} /\ increments[i] = 0
      BY <2>2 DEF RowInv, UnknownIsUntouched
    <3>4. Known(i) => Base(i).inc = Null /\ Changed(i) = {}
      BY <2>2, <3>2, DetectedIs DEF AllChanges
    <3>5. increments[i] = 0
      BY <2>3, <3>3, <3>4, Marks
    <3>6. ASSUME NEW f \in edited[i], item[i][f] # snapshot[i][f]
          PROVE  FALSE
      <4>1. Known(i) /\ f \in Field
        BY <2>2, <3>3 DEF Shapes
      <4>2. item[i][f] # Unset /\ item[i] \in [Field -> Value]
        BY <2>2, <4>1 DEF RowInv, ItemIsRead, Shapes, Known
      <4>3. Snapshot(item[i])[f] = item[i][f]
        BY <4>1, <4>2, SnapshotTyped
      <4>. QED
        BY <3>4, <3>6, <4>1, <4>3 DEF Changed
    <3>. QED
      BY <3>1, <3>5, <3>6 DEF Merged
  <2>5. CASE i \in ToWrite
    <3>. DEFINE d == Detected(i)
    <3>1. Known(i) /\ AllChanges[i] = d
      BY <2>5, ChangesOfKnown
    <3>2. d.inc = Base(i).inc /\ DOMAIN d.set = Changed(i) /\ \A f \in Changed(i) : d.set[f] = item[i][f]
      BY <2>2, <2>3, <3>1, DetectedIs
    <3>. HIDE DEF d
    <3>3. row'[i] = [f \in Field |-> IF f = "n" /\ d.inc # Null THEN row[i].n + d.inc
                                     ELSE IF f \in DOMAIN d.set THEN d.set[f] ELSE row[i][f]]
      BY <2>1, <2>5, <3>1 DEF Succeeds, RowsWritten, Updated
    <3>4. item[i] \in [Field -> Value] /\ edited[i] \subseteq Field
      BY <2>2, <3>1 DEF Shapes, Known
    <3>5. ASSUME NEW f \in Field \ refreshed[i], f \notin edited[i], f = "n" => increments[i] = 0
          PROVE  row'[i][f] = row[i][f]
      <4>1. Snapshot(item[i])[f] = snapshot[i][f]
        BY <2>2, <3>1, <3>5 DEF RowInv, DiffersIfTouched
      <4>2. f \notin Changed(i)
        BY <4>1 DEF Changed
      <4>3. ~ (f = "n" /\ d.inc # Null)
        BY <2>3, <3>2, <3>5
      <4>. QED
        BY <3>2, <3>3, <4>2, <4>3
    <3>6. ASSUME NEW f \in edited[i], item[i][f] # snapshot[i][f], f = "n" => increments[i] = 0
          PROVE  row'[i][f] = item[i][f]
      <4>1. item[i][f] # Unset /\ f \in Field
        BY <2>2, <3>1, <3>4 DEF RowInv, ItemIsRead
      <4>2. Snapshot(item[i])[f] = item[i][f]
        BY <3>4, <4>1, SnapshotTyped
      <4>3. ~ (f = "n" /\ Base(i).inc # Null)
        BY <2>3, <3>6
      <4>4. f \in Changed(i)
        BY <3>6, <4>1, <4>2, <4>3 DEF Changed
      <4>. QED
        BY <3>2, <3>3, <4>1, <4>3, <4>4
    <3>7. ASSUME increments[i] > 0
          PROVE  row'[i].n = row[i].n + increments[i] /\ item'[i].n = row'[i].n
      <4>1. d.inc = increments[i] /\ d.inc # Null
        BY <2>3, <3>2, <3>7, Marks
      <4>2. row'[i].n = row[i].n + increments[i]
        BY <3>3, <4>1 DEF Field
      <4>3. i \in ReadBack
        BY <2>5, <3>1, <4>1 DEF ReadBack
      <4>4. row'[i] = Updated(i, AllChanges[i])
        BY <2>1, <2>5 DEF Succeeds, RowsWritten
      <4>5. item'[i] = [item[i] EXCEPT !["n"] = row'[i]["n"]]
        BY <2>1, <4>3, <4>4 DEF Succeeds, ItemsRead
      <4>6. item'[i].n = row'[i].n
        BY <3>4, <4>5 DEF Field
      <4>. QED
        BY <4>2, <4>6
    <3>. QED
      BY <3>5, <3>6, <3>7 DEF Merged
  <2>. QED
    BY <2>4, <2>5
<1>. QED
  BY <1>1, UpdatesInvariance, PTL DEF UpdatesSpec, CommitsMerge

------------------------------------------------------------------------------
(* Migrations.                                                             *)
At(v) == {c \in Command : run[c].op # "idle" /\ run[c].version = v}
Begun(c) == ~ run[c].fake /\ run[c].at > 1

(* The statements in effect when c is about to run its next one.           *)
InEffect(c) == IF run[c].op = "up" THEN run[c].at - 1 ELSE Statements - run[c].at + 1

OneWay(v) == \A c, d \in At(v) : run[c].op = run[d].op
InHand(v) ==
    \A c \in At(v) : Begun(c) =>
      /\ applied[v] = InEffect(c)
      /\ v \in recorded <=> run[c].op = "down"
      /\ \A d \in At(v) : Begun(d) => d = c
Whole(v) ==
    (\A c \in At(v) : ~ Begun(c)) => applied[v] = IF v \in recorded THEN Statements ELSE 0

Book(v) == v \notin faked \cup cut => OneWay(v) /\ InHand(v) /\ Whole(v)

HaveFiles ==
    /\ recorded \subseteq files
    /\ \A c \in Command : run[c].op # "idle" => run[c].version \in files

(* What a command, or what is recorded, passes over came late.             *)
PassedOver ==
    \A v \in files \ recorded : Higher(v) # {} \/ v < Latest(recorded) => v \in late

MInv == TypeOK /\ HaveFiles /\ PassedOver /\ \A v \in Version : Book(v)

USE MigrationsAssumption

(* The latest version is the highest one recorded.                         *)
LEMMA LatestIsHighest ==
  ASSUME NEW S, S \subseteq Version
  PROVE  /\ Latest(S) \in Nat
         /\ S = {} => Latest(S) = 0
         /\ S # {} => Latest(S) \in S
         /\ \A v \in S : v <= Latest(S)
<1>1. S \subseteq Nat /\ IsFiniteSet(S)
  BY FS_Subset
<1>2. CASE S = {}
  BY <1>2 DEF Latest
<1>3. CASE S # {}
  <2>1. Max(S) \in S /\ \A v \in S : Max(S) >= v
    <3>1. \E x \in S : \A y \in S : x >= y
      <4>1. PICK x \in S : \A y \in S : y <= x
        BY <1>1, <1>3, Extremes
      <4> QED BY <1>1, <4>1
    <3> QED BY <3>1 DEF Max
  <2> QED BY <1>1, <1>3, <2>1 DEF Latest
<1> QED BY <1>2, <1>3

(* migration:up goes on with the lowest version above the latest.          *)
LEMMA NextIsLowest ==
  ASSUME TypeOK, NextVersion # {}
  PROVE  Min(NextVersion) \in NextVersion /\ \A v \in NextVersion : Min(NextVersion) <= v
<1>1. NextVersion \subseteq Nat /\ IsFiniteSet(NextVersion)
  BY FS_Subset DEF NextVersion, TypeOK
<1>2. \E x \in NextVersion : \A y \in NextVersion : x <= y
  BY <1>1, Extremes
<1> QED BY <1>2 DEF Min
-----------------------------------------------------------------------------
(* What a command is at.                                                   *)
LEMMA Tasks ==
  ASSUME TypeOK, NEW c \in Command
  PROVE  /\ run[c].op \in {"up", "down", "idle"}
         /\ run[c].op = "idle" => run[c] = Idle
         /\ run[c].op # "idle" =>
              /\ run[c] \in Task /\ run[c].version \in Version
              /\ run[c].fake \in BOOLEAN /\ run[c].at \in 1 .. Statements + 1
         /\ \A v : c \in At(v) <=> run[c].op # "idle" /\ run[c].version = v
BY DEF TypeOK, Task, Idle, At

(* The book of a version that a step leaves alone.                         *)
LEMMA OtherBook ==
  ASSUME NEW v \in Version, Book(v), faked \subseteq faked', cut \subseteq cut',
         \A c \in Command : c \in At(v)' <=> c \in At(v),
         \A c \in At(v) : run'[c] = run[c],
         applied'[v] = applied[v], v \in recorded' <=> v \in recorded
  PROVE  Book(v)'
<1>1. At(v)' = At(v)
  BY DEF At
<1>2. \A c \in At(v) : (Begun(c)' <=> Begun(c)) /\ InEffect(c)' = InEffect(c)
  BY DEF Begun, InEffect
<1>3. v \notin faked' \cup cut' => OneWay(v) /\ InHand(v) /\ Whole(v)
  BY DEF Book
<1>4. OneWay(v) => OneWay(v)'
  BY <1>1 DEF OneWay
<1>5. InHand(v) => InHand(v)'
  BY <1>1, <1>2 DEF InHand
<1>6. Whole(v) => Whole(v)'
  BY <1>1, <1>2 DEF Whole
<1> QED BY <1>3, <1>4, <1>5, <1>6 DEF Book

(* A command that ends, before its first statement or with a trace.        *)
LEMMA EndedBooks ==
  ASSUME MInv, NEW c \in Command, run[c].op # "idle", run' = [run EXCEPT ![c] = Idle],
         UNCHANGED <<applied, recorded>>, faked \subseteq faked', cut \subseteq cut',
         Begun(c) => run[c].version \in faked' \cup cut'
  PROVE  \A v \in Version : Book(v)'
<1> SUFFICES ASSUME NEW v \in Version PROVE Book(v)'
  OBVIOUS
<1>1. TypeOK /\ Book(v)
  BY DEF MInv
<1>2. run'[c] = Idle /\ \A d \in Command : d # c => run'[d] = run[d]
  BY <1>1 DEF TypeOK
<1>3. At(v)' = At(v) \ {c}
  BY <1>2 DEF At, Idle
<1>4. CASE v # run[c].version
  <2>1. c \notin At(v)
    BY <1>4 DEF At
  <2> QED BY <1>1, <1>2, <1>3, <2>1, OtherBook DEF At
<1>5. CASE v = run[c].version
  <2> SUFFICES ASSUME v \notin faked' \cup cut' PROVE (OneWay(v) /\ InHand(v) /\ Whole(v))'
    BY DEF Book
  <2>1. OneWay(v) /\ InHand(v) /\ Whole(v) /\ ~ Begun(c)
    BY <1>1, <1>5 DEF Book
  <2>2. \A d \in At(v)' : d \in At(v) /\ (Begun(d)' <=> Begun(d)) /\ InEffect(d)' = InEffect(d) /\ run'[d] = run[d]
    BY <1>2, <1>3 DEF Begun, InEffect, At
  <2>3. OneWay(v)'
    BY <2>1, <2>2 DEF OneWay
  <2>4. InHand(v)'
    BY <2>1, <2>2 DEF InHand
  <2>5. Whole(v)'
    BY <1>3, <2>1, <2>2 DEF Whole
  <2> QED BY <2>3, <2>4, <2>5
<1> QED BY <1>4, <1>5

LEMMA CreateInv ==
  ASSUME MInv, NEW v \in Version, Create(v)
  PROVE  MInv'
<1>1. TypeOK /\ HaveFiles /\ PassedOver
  BY DEF MInv
<1>2. TypeOK'
  BY <1>1 DEF Create, TypeOK
<1>3. HaveFiles'
  BY <1>1 DEF Create, HaveFiles
<1>4. PassedOver'
  <2>1. /\ UNCHANGED <<recorded, run>> /\ files' = files \cup {v} /\ late \subseteq late'
        /\ v <= Latest(recorded) \/ Higher(v) # {} => v \in late'
    BY DEF Create
  <2>2. \A u : Higher(u)' = Higher(u)
    BY <2>1 DEF Higher
  <2>3. v < Latest(recorded) => v <= Latest(recorded)
    <3>1. Latest(recorded) \in Nat
      BY <1>1, LatestIsHighest DEF TypeOK
    <3> QED BY <3>1
  <2> QED BY <1>1, <2>1, <2>2, <2>3 DEF PassedOver
<1>5. \A u \in Version : Book(u)'
  BY OtherBook DEF MInv, Create, At
<1> QED BY <1>2, <1>3, <1>4, <1>5 DEF MInv

(* What a new command reads.                                               *)
LEMMA ReadInv ==
  ASSUME MInv, NEW c \in Command, NEW op \in {"up", "down"}, NEW fake \in BOOLEAN,
         NEW v \in files, Read(c, op, v, fake), UNCHANGED recorded,
         op = "up" => \A u \in files \ recorded : u < v => u \in late
  PROVE  MInv'
<1>1. TypeOK /\ HaveFiles /\ PassedOver /\ v \in Version
  BY DEF MInv, TypeOK
<1> DEFINE task == [op |-> op, version |-> v, fake |-> fake, at |-> 1]
<1>2. task \in Task
  BY <1>1 DEF Task
<1>3. /\ run[c] = Idle /\ run'[c] = task /\ \A d \in Command : d # c => run'[d] = run[d]
      /\ UNCHANGED <<files, recorded, applied, faked, late>> /\ cut \subseteq cut'
  BY <1>1 DEF Read, TypeOK
<1>4. TypeOK'
  BY <1>1, <1>2 DEF Read, TypeOK
<1>5. HaveFiles'
  BY <1>1, <1>3 DEF HaveFiles
<1>6. PassedOver'
  <2> SUFFICES ASSUME NEW u \in files \ recorded, Higher(u)' # {} PROVE u \in late
    BY <1>1, <1>3 DEF PassedOver
  <2>1. PICK d \in Command : run'[d].op = "up" /\ run'[d].version > u
    BY DEF Higher
  <2>2. CASE d = c
    BY <1>1, <1>3, <2>1, <2>2 DEF TypeOK
  <2>3. CASE d # c
    BY <1>1, <1>3, <2>1, <2>3 DEF PassedOver, Higher
  <2> QED BY <2>2, <2>3
<1>7. ASSUME NEW u \in Version PROVE Book(u)'
  <2>1. Book(u)
    BY DEF MInv
  <2>2. c \notin At(u) /\ \A d \in Command : d # c => (d \in At(u)' <=> d \in At(u))
    BY <1>3 DEF At, Idle
  <2>3. CASE u # v
    <3>1. c \notin At(u)'
      BY <1>3, <2>3 DEF At
    <3>2. \A d \in At(u) : d \in Command /\ run'[d] = run[d]
      BY <1>3, <2>2 DEF At
    <3> QED BY <1>3, <2>1, <2>2, <3>1, <3>2, OtherBook
  <2>4. CASE u = v
    <3> SUFFICES ASSUME u \notin faked' \cup cut' PROVE (OneWay(u) /\ InHand(u) /\ Whole(u))'
      BY DEF Book
    <3>1. OneWay(u) /\ InHand(u) /\ Whole(u)
      BY <1>3, <2>1 DEF Book
    <3>2. \A d \in At(u) : run[d].op = op
      <4>1. \A d \in Command : run[d].op \notin {"idle", op} => run[d].version # v
        BY <1>1, <2>4 DEF Read
      <4> QED BY <2>4, <4>1 DEF At
    <3>3. \A d \in At(u)' : d = c \/ (d \in At(u) /\ run'[d] = run[d] /\ d # c)
      BY <1>3, <2>2 DEF At
    <3>4. ~ Begun(c)' /\ run'[c].op = op
      BY <1>3 DEF Begun
    <3>5. \A d \in At(u) : d \in At(u)' /\ d # c /\ (Begun(d)' <=> Begun(d)) /\ InEffect(d)' = InEffect(d)
      BY <1>3, <2>2 DEF At, Begun, InEffect
    <3>6. OneWay(u)'
      BY <3>2, <3>3, <3>4 DEF OneWay
    <3>7. InHand(u)'
      BY <1>3, <3>1, <3>3, <3>4, <3>5 DEF InHand
    <3>8. Whole(u)'
      BY <1>3, <3>1, <3>5 DEF Whole
    <3> QED BY <3>6, <3>7, <3>8
  <2> QED BY <2>3, <2>4
<1> QED BY <1>4, <1>5, <1>6, <1>7 DEF MInv

LEMMA UpInv ==
  ASSUME MInv, NEW c \in Command, NEW fake \in BOOLEAN, Up(c, fake)
  PROVE  MInv'
<1> DEFINE v == Min(NextVersion)
<1>1. TypeOK /\ HaveFiles /\ PassedOver
  BY DEF MInv
<1>2. NextVersion # {} /\ Read(c, "up", v, fake)
  BY DEF Up
<1>3. v \in NextVersion /\ \A u \in NextVersion : v <= u
  BY <1>1, <1>2, NextIsLowest
<1> HIDE DEF v
<1>4. ASSUME NEW u \in files \ recorded, u < v PROVE u \in late
  <2>1. u \in Nat /\ u > 0 /\ v \in Nat
    BY <1>1, <1>3 DEF TypeOK, NextVersion
  <2>2. ~ (u > Latest(recorded))
    BY <1>3, <1>4, <2>1 DEF NextVersion
  <2>3. u < Latest(recorded)
    <3>1. Latest(recorded) \in Nat /\ (Latest(recorded) # 0 => Latest(recorded) \in recorded)
      BY <1>1, LatestIsHighest DEF TypeOK
    <3>2. u # Latest(recorded)
      BY <2>1, <2>2, <3>1
    <3> QED BY <2>1, <2>2, <3>1, <3>2
  <2> QED BY <1>1, <2>3 DEF PassedOver
<1>5. v \in files /\ UNCHANGED recorded
  BY <1>2, <1>3 DEF Read, NextVersion
<1> QED BY <1>2, <1>4, <1>5, ReadInv

LEMMA DownInv ==
  ASSUME MInv, NEW c \in Command, NEW fake \in BOOLEAN, Down(c, fake)
  PROVE  MInv'
BY ReadInv DEF Down, Read

(* One statement more or less, or the end of the command.                  *)
LEMMA StatementInv ==
  ASSUME MInv, NEW c \in Command, Statement(c)
  PROVE  MInv'
<1> DEFINE v == run[c].version
<1>1. TypeOK /\ HaveFiles /\ PassedOver
  BY DEF MInv
<1>2. /\ run[c].op \in {"up", "down"} /\ ~ run[c].fake /\ run[c].at \in 1 .. Statements
      /\ run[c] \in Task /\ v \in Version
      /\ UNCHANGED <<files, recorded, commands, faked, late>>
  BY <1>1, Tasks DEF Statement
<1>3. CASE applied[v] # InEffect(c)
  <2>1. /\ run' = [run EXCEPT ![c] = Idle] /\ UNCHANGED applied
        /\ cut' = IF run[c].at > 1 THEN cut \cup {v} ELSE cut
    BY <1>3 DEF Statement, InEffect
  <2>2. TypeOK'
    BY <1>1, <1>2, <2>1 DEF TypeOK
  <2>3. run'[c].op = "idle" /\ \A d \in Command : d # c => run'[d] = run[d]
    BY <1>1, <2>1 DEF TypeOK, Idle
  <2>4. HaveFiles' /\ PassedOver'
    <3>1. \A u : Higher(u)' \subseteq Higher(u)
      BY <2>3 DEF Higher
    <3> QED BY <1>1, <1>2, <2>3, <3>1 DEF HaveFiles, PassedOver
  <2>5. \A u \in Version : Book(u)'
    BY <1>2, <2>1, EndedBooks DEF Begun
  <2> QED BY <2>2, <2>4, <2>5 DEF MInv
<1>4. CASE applied[v] = InEffect(c)
  <2>1. /\ applied' = [applied EXCEPT ![v] = IF run[c].op = "up" THEN @ + 1 ELSE @ - 1]
        /\ run' = [run EXCEPT ![c].at = @ + 1] /\ UNCHANGED cut
    BY <1>4 DEF Statement, InEffect
  <2>2. /\ run'[c].op = run[c].op /\ run'[c].version = v /\ run'[c].fake = run[c].fake
        /\ run'[c].at = run[c].at + 1 /\ run'[c] \in Task
        /\ \A d \in Command : d # c => run'[d] = run[d]
    BY <1>1, <1>2, <2>1 DEF TypeOK, Task
  <2>3. applied[v] \in 0 .. Statements /\ applied[v] = IF run[c].op = "up" THEN run[c].at - 1 ELSE Statements - run[c].at + 1
    BY <1>1, <1>2, <1>4 DEF TypeOK, InEffect
  <2>4. /\ applied'[v] = IF run[c].op = "up" THEN run[c].at ELSE Statements - run[c].at
        /\ \A u \in Version : u # v => applied'[u] = applied[u]
    BY <1>1, <1>2, <2>1, <2>3 DEF TypeOK
  <2>5. TypeOK'
    <3>1. applied' \in [Version -> 0 .. Statements]
      BY <1>1, <1>2, <2>1, <2>3 DEF TypeOK
    <3>2. run' \in [Command -> Task \cup {Idle}]
      BY <1>1, <2>1, <2>2 DEF TypeOK
    <3> QED BY <1>1, <1>2, <2>1, <3>1, <3>2 DEF TypeOK
  <2>6. HaveFiles' /\ PassedOver'
    <3>1. \A u : Higher(u)' = Higher(u)
      BY <2>2 DEF Higher
    <3> QED BY <1>1, <1>2, <2>2, <3>1 DEF HaveFiles, PassedOver
  <2>7. ASSUME NEW u \in Version PROVE Book(u)'
    <3>1. Book(u) /\ \A d \in Command : d \in At(u)' <=> d \in At(u)
      BY <2>2 DEF MInv, At
    <3>2. CASE u # v
      <4>1. \A d \in At(u) : run'[d] = run[d]
        BY <2>2, <3>2 DEF At
      <4> QED BY <1>2, <2>1, <2>4, <3>1, <3>2, <4>1, OtherBook
    <3>3. CASE u = v
      <4> SUFFICES ASSUME u \notin faked' \cup cut' PROVE (OneWay(u) /\ InHand(u) /\ Whole(u))'
        BY DEF Book
      <4>1. OneWay(u) /\ InHand(u) /\ Whole(u) /\ c \in At(u)
        BY <1>2, <2>1, <3>1, <3>3 DEF Book, At
      <4>2. Begun(c)' /\ InEffect(c)' = applied'[v]
        BY <1>2, <2>2, <2>4 DEF Begun, InEffect
      <4>3. \A d \in At(u) : d # c => ~ Begun(d)
        <5> SUFFICES ASSUME NEW d \in At(u), d # c, Begun(d) PROVE FALSE
          OBVIOUS
        <5>1. ~ Begun(c) /\ applied[u] = InEffect(d) /\ run[d].op = run[c].op
          BY <4>1 DEF InHand, OneWay
        <5>2. run[c].at = 1
          BY <1>2, <5>1 DEF Begun
        <5>3. run[d].at \in 2 .. Statements + 1
          BY <1>1, Tasks DEF Begun, At
        <5> QED BY <1>2, <2>3, <3>3, <5>1, <5>2, <5>3 DEF InEffect
      <4>4. u \in recorded <=> run[c].op = "down"
        <5>1. CASE Begun(c)
          BY <4>1, <5>1 DEF InHand
        <5>2. CASE ~ Begun(c)
          <6>1. applied[u] = IF u \in recorded THEN Statements ELSE 0
            BY <4>1, <4>3, <5>2 DEF Whole
          <6>2. run[c].at = 1
            BY <1>2, <5>2 DEF Begun
          <6> QED BY <1>2, <2>3, <3>3, <6>1, <6>2
        <5> QED BY <5>1, <5>2
      <4>5. \A d \in At(u)' : d \in At(u) /\ (d # c => ~ Begun(d)') /\ run'[d].op = run[d].op
        BY <2>2, <3>1, <4>3 DEF At, Begun
      <4>6. OneWay(u)'
        BY <4>1, <4>5 DEF OneWay
      <4>7. InHand(u)'
        BY <1>2, <2>2, <3>3, <4>2, <4>4, <4>5 DEF InHand
      <4>8. Whole(u)'
        BY <3>1, <4>1, <4>2 DEF Whole, At
      <4> QED BY <4>6, <4>7, <4>8
    <3> QED BY <3>2, <3>3
  <2> QED BY <2>5, <2>6, <2>7 DEF MInv
<1> QED BY <1>3, <1>4

(* A command that has run all its statements, or none of them by --fake,   *)
(* settles the book of its version.                                        *)
LEMMA SettledBooks ==
  ASSUME MInv, NEW c \in Command, Ran(c), run' = [run EXCEPT ![c] = Idle],
         UNCHANGED <<applied, cut>>,
         faked' = IF run[c].fake THEN faked \cup {run[c].version} ELSE faked,
         \A v \in Version : v \in recorded' <=> IF v = run[c].version THEN run[c].op = "up" ELSE v \in recorded
  PROVE  \A v \in Version : Book(v)'
<1> SUFFICES ASSUME NEW v \in Version PROVE Book(v)'
  OBVIOUS
<1>1. /\ TypeOK /\ Book(v) /\ run[c].op \in {"up", "down"} /\ run[c] \in Task
      /\ run[c].at \in 1 .. Statements + 1 /\ (run[c].fake \/ run[c].at = Statements + 1)
  BY Tasks DEF MInv, Ran
<1>2. run'[c] = Idle /\ \A d \in Command : d # c => run'[d] = run[d]
  BY <1>1 DEF TypeOK
<1>3. At(v)' = At(v) \ {c}
  BY <1>2 DEF At, Idle
<1>4. CASE v # run[c].version
  <2>1. c \notin At(v)
    BY <1>4 DEF At
  <2> QED BY <1>1, <1>2, <1>3, <1>4, <2>1, OtherBook DEF At
<1>5. CASE v = run[c].version
  <2> SUFFICES ASSUME v \notin faked' \cup cut' PROVE (OneWay(v) /\ InHand(v) /\ Whole(v))'
    BY DEF Book
  <2>1. OneWay(v) /\ InHand(v) /\ Whole(v) /\ ~ run[c].fake /\ run[c].at = Statements + 1 /\ c \in At(v)
    BY <1>1, <1>5 DEF Book, At
  <2>2. applied[v] = IF run[c].op = "up" THEN Statements ELSE 0
    <3>1. CASE Begun(c)
      BY <1>1, <2>1, <3>1 DEF InHand, InEffect
    <3>2. CASE ~ Begun(c)
      BY <1>1, <2>1, <3>2 DEF Begun, TypeOK
    <3> QED BY <3>1, <3>2
  <2>3. \A d \in At(v)' : d \in At(v) /\ d # c /\ run'[d] = run[d]
    BY <1>2, <1>3 DEF At
  <2>4. \A d \in At(v)' : ~ Begun(d)'
    <3>1. CASE Begun(c)
      BY <2>1, <2>3, <3>1 DEF InHand, Begun
    <3>2. CASE ~ Begun(c)
      <4>1. Statements = 0
        BY <1>1, <2>1, <3>2 DEF Begun
      <4>2. \A d \in At(v) : run[d].at \in 1 .. Statements + 1
        BY <1>1, Tasks DEF At
      <4> QED BY <2>3, <4>1, <4>2 DEF Begun
    <3> QED BY <3>1, <3>2
  <2>5. OneWay(v)'
    BY <2>1, <2>3 DEF OneWay
  <2>6. InHand(v)' /\ Whole(v)'
    BY <1>1, <1>5, <2>2, <2>4 DEF InHand, Whole
  <2> QED BY <2>5, <2>6
<1> QED BY <1>4, <1>5

LEMMA RecordInv ==
  ASSUME MInv, NEW c \in Command, Record(c)
  PROVE  MInv'
<1> DEFINE w == run[c].version
<1>1. TypeOK /\ HaveFiles /\ PassedOver
  BY DEF MInv
<1>2. /\ run[c].op = "up" /\ run[c] \in Task /\ w \in Version /\ w \in files
      /\ recorded' = recorded \cup {w} /\ run' = [run EXCEPT ![c] = Idle]
      /\ UNCHANGED <<files, applied, commands, cut, late>>
  BY <1>1, Tasks DEF Record, HaveFiles
<1>3. run'[c].op = "idle" /\ \A d \in Command : d # c => run'[d] = run[d]
  BY <1>1, <1>2 DEF TypeOK, Idle
<1>4. TypeOK'
  BY <1>1, <1>2 DEF Record, TypeOK
<1>5. HaveFiles'
  BY <1>1, <1>2, <1>3 DEF HaveFiles
<1>6. PassedOver'
  <2> SUFFICES ASSUME NEW u \in files, u \notin recorded', Higher(u)' # {} \/ u < Latest(recorded)'
               PROVE  u \in late
    BY <1>2 DEF PassedOver
  <2>1. CASE Higher(u)' # {}
    <3>1. Higher(u) # {}
      BY <1>3, <2>1 DEF Higher
    <3> QED BY <1>1, <1>2, <3>1 DEF PassedOver
  <2>2. CASE u < Latest(recorded)'
    <3>1. Latest(recorded)' \in recorded' /\ recorded' \subseteq Version
      <4>1. recorded' \subseteq Version /\ recorded' # {}
        BY <1>1, <1>2 DEF TypeOK
      <4> QED BY <4>1, LatestIsHighest
    <3>2. CASE Latest(recorded)' = w
      <4>1. c \in Higher(u)
        BY <1>1, <1>2, <2>2, <3>2 DEF Higher, TypeOK
      <4> QED BY <1>1, <1>2, <4>1 DEF PassedOver
    <3>3. CASE Latest(recorded)' \in recorded
      <4>1. u < Latest(recorded)
        <5>1. Latest(recorded)' <= Latest(recorded) /\ Latest(recorded) \in Nat
          BY <1>1, <3>3, LatestIsHighest DEF TypeOK
        <5>2. u \in Nat /\ Latest(recorded)' \in Nat
          BY <1>1, <3>1 DEF TypeOK
        <5> QED BY <2>2, <5>1, <5>2
      <4> QED BY <1>1, <1>2, <4>1 DEF PassedOver
    <3> QED BY <1>2, <3>1, <3>2, <3>3
  <2> QED BY <2>1, <2>2
<1>7. \A v \in Version : Book(v)'
  BY <1>2, SettledBooks DEF Record
<1> QED BY <1>4, <1>5, <1>6, <1>7 DEF MInv

LEMMA RemoveInv ==
  ASSUME MInv, NEW c \in Command, RemoveVersion(c)
  PROVE  MInv'
<1> DEFINE w == run[c].version
<1>1. TypeOK /\ HaveFiles /\ PassedOver
  BY DEF MInv
<1>2. /\ run[c].op = "down" /\ run[c] \in Task /\ w \in Version
      /\ recorded' = recorded \ {w} /\ run' = [run EXCEPT ![c] = Idle]
      /\ late \subseteq late' /\ (Higher(w) # {} \/ w < Latest(recorded) => w \in late')
      /\ UNCHANGED <<files, applied, commands, cut>>
  BY <1>1, Tasks DEF RemoveVersion
<1>3. run'[c].op = "idle" /\ \A d \in Command : d # c => run'[d] = run[d]
  BY <1>1, <1>2 DEF TypeOK, Idle
<1>4. TypeOK'
  BY <1>1, <1>2 DEF RemoveVersion, TypeOK
<1>5. HaveFiles'
  BY <1>1, <1>2, <1>3 DEF HaveFiles
<1>6. PassedOver'
  <2> SUFFICES ASSUME NEW u \in files, u \notin recorded', Higher(u)' # {} \/ u < Latest(recorded)'
               PROVE  u \in late'
    BY <1>2 DEF PassedOver
  <2>1. Higher(u) # {} \/ u < Latest(recorded)
    <3>1. CASE Higher(u)' # {}
      BY <1>3, <3>1 DEF Higher
    <3>2. CASE u < Latest(recorded)'
      <4>1. recorded' \subseteq Version /\ recorded' \subseteq recorded
        BY <1>1, <1>2 DEF TypeOK
      <4>2. Latest(recorded)' \in Nat /\ Latest(recorded) \in Nat /\ u \in Nat /\ u > 0
        <5>1. u \in Nat /\ u > 0
          BY <1>1 DEF TypeOK
        <5>2. Latest(recorded)' \in Nat
          BY <4>1, LatestIsHighest
        <5>3. Latest(recorded) \in Nat
          BY <1>1, LatestIsHighest DEF TypeOK
        <5> QED BY <5>1, <5>2, <5>3
      <4>3. recorded' # {}
        BY <3>2, <4>1, <4>2, LatestIsHighest
      <4>4. Latest(recorded)' <= Latest(recorded)
        BY <1>1, <4>1, <4>3, LatestIsHighest DEF TypeOK
      <4> QED BY <3>2, <4>2, <4>4
    <3> QED BY <3>1, <3>2
  <2> QED BY <1>1, <1>2, <2>1 DEF PassedOver
<1>7. \A v \in Version : Book(v)'
  BY <1>2, SettledBooks DEF RemoveVersion
<1> QED BY <1>4, <1>5, <1>6, <1>7 DEF MInv

LEMMA CrashInv ==
  ASSUME MInv, NEW c \in Command, Crash(c)
  PROVE  MInv'
<1>1. TypeOK /\ HaveFiles /\ PassedOver
  BY DEF MInv
<1>2. /\ run[c].op # "idle" /\ run[c].version \in Version /\ run' = [run EXCEPT ![c] = Idle]
      /\ cut' = cut \cup {run[c].version}
      /\ UNCHANGED <<files, recorded, applied, commands, faked, late>>
  BY <1>1, Tasks DEF Crash
<1>3. TypeOK'
  BY <1>1, <1>2 DEF TypeOK
<1>4. run'[c].op = "idle" /\ \A d \in Command : d # c => run'[d] = run[d]
  BY <1>1, <1>2 DEF TypeOK, Idle
<1>5. HaveFiles' /\ PassedOver'
  <2>1. \A u : Higher(u)' \subseteq Higher(u)
    BY <1>4 DEF Higher
  <2> QED BY <1>1, <1>2, <1>4, <2>1 DEF HaveFiles, PassedOver
<1>6. \A v \in Version : Book(v)'
  BY <1>2, EndedBooks
<1> QED BY <1>3, <1>5, <1>6 DEF MInv
-----------------------------------------------------------------------------
LEMMA MigrationsInit == Init => MInv
<1> SUFFICES ASSUME Init PROVE MInv
  OBVIOUS
<1>1. TypeOK
  BY DEF Init, TypeOK
<1>2. HaveFiles /\ PassedOver
  BY DEF Init, HaveFiles, PassedOver, Idle
<1>3. ASSUME NEW v \in Version PROVE Book(v)
  <2>1. At(v) = {}
    BY DEF Init, At, Idle
  <2> QED BY <2>1 DEF Init, Book, OneWay, InHand, Whole
<1> QED BY <1>1, <1>2, <1>3 DEF MInv

LEMMA MigrationsNext == MInv /\ [Next]_vars => MInv'
<1> SUFFICES ASSUME MInv, [Next]_vars PROVE MInv'
  OBVIOUS
<1>1. CASE UNCHANGED vars
  BY <1>1 DEF vars, MInv, TypeOK, HaveFiles, PassedOver, Higher, Book, OneWay, InHand, Whole,
     At, Begun, InEffect
<1> QED BY <1>1, CreateInv, UpInv, DownInv, StatementInv, RecordInv, RemoveInv, CrashInv DEF Next

(* The inductive invariant: types, files, what was passed over, and the    *)
(* books of all versions with the commands at them.                        *)
THEOREM MigrationsInvariance == Spec => []MInv
BY MigrationsInit, MigrationsNext, PTL DEF Spec

(* The records of versions agree with the statements in effect, and what   *)
(* was passed over came late (migration-up-command.ts,                     *)
(* migration-down-command.ts, SqlMigrationHandler).                        *)
THEOREM BooksAreRight == Spec => []BooksMatch
<1>1. ASSUME MInv PROVE BooksMatch
  <2>1. ASSUME NEW v \in Version \ (faked \cup cut), ~ UnderWay(v)
        PROVE  applied[v] = IF v \in recorded THEN Statements ELSE 0
    <3>1. Book(v) /\ At(v) = {}
      BY <1>1, <2>1 DEF MInv, UnderWay, At
    <3> QED BY <2>1, <3>1 DEF Book, Whole
  <2> QED BY <1>1, <2>1 DEF MInv, PassedOver, BooksMatch
<1> QED BY <1>1, MigrationsInvariance, PTL

(* Of the commands that run at the same time for one version at most one   *)
(* gets past its first statement, unless one was cut short, met one in the *)
(* other direction, or --fake was used: the others fail at their first.    *)
OneRunsStatements ==
  \A c, d \in Command :
    /\ run[c].op # "idle" /\ run[d].op # "idle" /\ run[c].version = run[d].version
    /\ run[c].version \notin faked \cup cut
    /\ Begun(c) /\ Begun(d)
    => c = d
(* Two commands never share the statements of a version: nothing locks the *)
(* table of migrations, the failure of a statement keeps them apart.       *)
THEOREM OneAtATime == Spec => []OneRunsStatements
<1>1. ASSUME MInv PROVE OneRunsStatements
  <2>1. ASSUME NEW c \in Command, run[c].op # "idle" PROVE run[c].version \in Version
    BY <1>1, <2>1, Tasks DEF MInv
  <2> QED BY <1>1, <2>1 DEF MInv, Book, InHand, At, OneRunsStatements
<1> QED BY <1>1, MigrationsInvariance, PTL
=============================================================================
