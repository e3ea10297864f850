----------------------------- MODULE PeopleProofs -----------------------------
(***************************************************************************)
(* Proofs about Rosters, for any addresses, names and accounts, rosters of *)
(* any size and any number of requests waiting at once: whose account a    *)
(* row has, that one person is one row under one name, and that the mirror *)
(* of a symmetric session is exact.  And the theorems of WorkspaceAccounts *)
(* on the behaviours of PeopleMC that are its own.                         *)
(***************************************************************************)
EXTENDS PeopleMC, FiniteSetTheorems, FunctionTheorems, TLAPS

-----------------------------------------------------------------------------
(* Finite sets of numbers have a greatest, a least and an n-th element.    *)
After(S, i) == {j \in S : j > i}
Before(S, i) == {j \in S : j < i}

(* Of the parts of S in a non-empty family, one has no smaller in it.      *)
LEMMA SmallestPart ==
  ASSUME NEW S, IsFiniteSet(S), NEW parts, parts # {}, \A T \in parts : T \subseteq S
  PROVE  \E T \in parts : \A U \in parts : U \subseteq T => U = T
<1>1. parts \subseteq FiniteSubsetsOf(S)
  BY FS_FiniteSubsetsOfFinite
<1>2. PICK T \in parts : \A U \in parts : ~(<<U, T>> \in StrictSubsetOrdering(S))
  BY <1>1, FS_StrictSubsetOrderingWellFounded, WFMin
<1>3. ASSUME NEW U \in parts, U \subseteq T, U # T PROVE FALSE
  <2>1. <<U, T>> \in StrictSubsetOrdering(S)
    BY <1>3 DEF StrictSubsetOrdering
  <2> QED
    BY <1>2, <2>1
<1> QED
  BY <1>3

LEMMA GreatestExists ==
  ASSUME NEW S \in SUBSET Nat, IsFiniteSet(S), S # {}
  PROVE  \E m \in S : \A j \in S : j <= m
<1> DEFINE parts == {After(S, i) : i \in S}
<1>1. parts # {} /\ \A T \in parts : T \subseteq S
  BY DEF After
<1>2. PICK m \in S : \A j \in S : After(S, j) \subseteq After(S, m) => After(S, j) = After(S, m)
  <2>1. PICK T \in parts : \A U \in parts : U \subseteq T => U = T
    <3> HIDE DEF parts
    <3> QED
      BY <1>1, SmallestPart
  <2> QED
    BY <2>1
<1>3. ASSUME NEW j \in S, j > m PROVE FALSE
  <2> SUFFICES ASSUME NEW i \in After(S, j) PROVE i \in After(S, m)
    <3>1. j \in After(S, m) /\ j \notin After(S, j)
      BY <1>3 DEF After
    <3> QED
      BY <1>2, <3>1
  <2>1. i \in Nat /\ j \in Nat /\ m \in Nat /\ i \in S
    BY DEF After
  <2> QED
    BY <1>3, <2>1 DEF After
<1>4. \A j \in S : j <= m
  BY <1>3
<1> QED
  BY <1>4

LEMMA LeastIsLeast ==
  ASSUME NEW S \in SUBSET Nat, IsFiniteSet(S), S # {}
  PROVE  Least(S) \in S /\ \A j \in S : Least(S) <= j
<1> DEFINE parts == {Before(S, i) : i \in S}
<1>1. parts # {} /\ \A T \in parts : T \subseteq S
  BY DEF Before
<1>2. PICK m \in S : \A j \in S : Before(S, j) \subseteq Before(S, m) => Before(S, j) = Before(S, m)
  <2>1. PICK T \in parts : \A U \in parts : U \subseteq T => U = T
    <3> HIDE DEF parts
    <3> QED
      BY <1>1, SmallestPart
  <2> QED
    BY <2>1
<1>3. ASSUME NEW j \in S, j < m PROVE FALSE
  <2> SUFFICES ASSUME NEW i \in Before(S, j) PROVE i \in Before(S, m)
    <3>1. j \in Before(S, m) /\ j \notin Before(S, j)
      BY <1>3 DEF Before
    <3> QED
      BY <1>2, <3>1
  <2>1. i \in Nat /\ j \in Nat /\ m \in Nat /\ i \in S
    BY DEF Before
  <2> QED
    BY <1>3, <2>1 DEF Before
<1>4. \A j \in S : m <= j
  BY <1>3
<1> QED
  BY <1>4 DEF Least

(* The element with k others below it: the least with at least k.          *)
LEMMA NthExists ==
  ASSUME NEW S \in SUBSET Nat, IsFiniteSet(S), NEW k \in Nat, k < Cardinality(S)
  PROVE  \E e \in S : Cardinality(Before(S, e)) = k
<1> DEFINE far == {e \in S : Cardinality(Before(S, e)) >= k}
<1>1. \A e \in S : /\ Before(S, e) \in SUBSET Nat /\ Before(S, e) \in SUBSET S
                   /\ IsFiniteSet(Before(S, e)) /\ Cardinality(Before(S, e)) \in Nat
  <2>1. \A e \in S : Before(S, e) \in SUBSET S
    BY DEF Before
  <2> QED
    BY <2>1, FS_Subset, FS_CardinalityType
<1>2. S # {} /\ Cardinality(S) \in Nat
  BY FS_EmptySet, FS_CardinalityType
<1>3. PICK m \in S : \A j \in S : j <= m
  BY <1>2, GreatestExists
<1>4. m \in far
  <2>1. Before(S, m) = S \ {m}
    <3>1. \A j \in S : j < m <=> j # m
      BY <1>3
    <3> QED
      BY <3>1 DEF Before
  <2>2. Cardinality(S \ {m}) = Cardinality(S) - 1
    BY FS_RemoveElement
  <2> QED
    BY <1>2, <2>1, <2>2
<1>5. far \in SUBSET Nat /\ IsFiniteSet(far) /\ far # {}
  <2>1. far \in SUBSET S
    OBVIOUS
  <2> QED
    BY <1>4, <2>1, FS_Subset
<1>6. PICK e \in far : \A f \in far : e <= f
  <2> HIDE DEF far
  <2> QED
    BY <1>5, LeastIsLeast
<1>7. ASSUME Cardinality(Before(S, e)) > k PROVE FALSE
  <2>1. Before(S, e) # {}
    BY <1>1, <1>7, FS_EmptySet
  <2>2. PICK g \in Before(S, e) : \A j \in Before(S, e) : j <= g
    BY <1>1, <2>1, GreatestExists
  <2>3. Before(S, g) = Before(S, e) \ {g}
    <3>1. \A j \in S : j < g <=> j < e /\ j # g
      BY <2>2 DEF Before
    <3> QED
      BY <3>1 DEF Before
  <2>4. Cardinality(Before(S, g)) = Cardinality(Before(S, e)) - 1
    <3>1. IsFiniteSet(Before(S, e))
      BY <1>1
    <3> QED
      BY <2>2, <2>3, <3>1, FS_RemoveElement
  <2>5. g \in S /\ g < e
    BY <2>2 DEF Before
  <2>6. g \in far
    BY <1>1, <1>7, <2>4, <2>5
  <2> QED
    BY <1>6, <2>5, <2>6
<1> QED
  BY <1>1, <1>6, <1>7

-----------------------------------------------------------------------------
(* The mirror's map, with names for its parts.                             *)
LEMMA RowsAre ==
  ASSUME NEW rows
  PROVE  rows \in RosterRows <=> DOMAIN rows \in SUBSET Ids /\ rows \in [DOMAIN rows -> Row]
  BY DEF RosterRows

LEMMA SomeIds ==
  ASSUME RostersAssumption, NEW ids \in SUBSET Ids
  PROVE  /\ ids \in SUBSET Nat /\ IsFiniteSet(ids)
         /\ Cardinality(ids) \in Nat /\ Cardinality(ids) <= MaxRows
<1>1. IsFiniteSet(Ids) /\ Cardinality(Ids) = MaxRows
  BY FS_Interval DEF Ids, RostersAssumption
<1>2. IsFiniteSet(ids) /\ Cardinality(ids) <= Cardinality(Ids)
  BY <1>1, FS_Subset
<1>3. Cardinality(ids) \in Nat
  BY <1>2, FS_CardinalityType
<1>4. ids \in SUBSET Nat
  BY DEF Ids
<1> QED
  BY <1>1, <1>2, <1>3, <1>4

AddressesDiffer(rows) ==
  \A i, j \in DOMAIN rows : i # j => rows[i].address # rows[j].address

LEMMA MirrorIsExact ==
  ASSUME RostersAssumption, NEW reviewers \in RosterRows, NEW reviewees \in RosterRows, NEW links,
         AddressesDiffer(reviewers), NEW map, map = MirrorMap(reviewers, reviewees, links)
  PROVE  /\ DOMAIN map \subseteq Ids
         /\ map \in [DOMAIN map -> DOMAIN reviewers]
         /\ \A r \in DOMAIN reviewers : \E e \in DOMAIN map : map[e] = r
         /\ \A e, f \in DOMAIN map : map[e] = map[f] => e = f
<1> DEFINE kept == Links(reviewers, reviewees, links)
           linked == {r \in DOMAIN reviewers : \E e \in DOMAIN kept : kept[e] = r}
           first(r) == Least({e \in DOMAIN kept : kept[e] = r})
           adopter == {r \in DOMAIN reviewers \ linked : Adopts(reviewers, reviewees, kept, r) # {}}
           old(r) == IF r \in linked THEN first(r) ELSE Least(Adopts(reviewers, reviewees, kept, r))
           taken == {old(r) : r \in linked \cup adopter}
           new == DOMAIN reviewers \ (linked \cup adopter)
           slot(r) == CHOOSE e \in Ids \ taken :
               Cardinality({f \in Ids \ taken : f < e}) = Cardinality({s \in new : s < r})
<1>1. map = [e \in taken \cup {slot(r) : r \in new} |->
                CHOOSE r \in DOMAIN reviewers : IF r \in new THEN slot(r) = e ELSE old(r) = e]
  BY DEF MirrorMap
<1>2. DOMAIN kept \in SUBSET Ids /\ DOMAIN kept \subseteq DOMAIN reviewees
  BY RowsAre DEF Links, Restrict
<1>3. \A r \in linked : first(r) \in DOMAIN kept /\ kept[first(r)] = r
  <2> SUFFICES ASSUME NEW r \in linked PROVE first(r) \in {e \in DOMAIN kept : kept[e] = r}
    OBVIOUS
  <2>1. {e \in DOMAIN kept : kept[e] = r} # {} /\ {e \in DOMAIN kept : kept[e] = r} \in SUBSET Ids
    BY <1>2
  <2> HIDE DEF kept
  <2> QED
    BY <2>1, SomeIds, LeastIsLeast
<1>4. \A r \in adopter : /\ old(r) \in DOMAIN reviewees \ DOMAIN kept
                         /\ reviewees[old(r)].address = reviewers[r].address
  <2> SUFFICES ASSUME NEW r \in adopter
               PROVE  Least(Adopts(reviewers, reviewees, kept, r)) \in Adopts(reviewers, reviewees, kept, r)
    BY DEF Adopts
  <2>1. /\ Adopts(reviewers, reviewees, kept, r) # {}
        /\ Adopts(reviewers, reviewees, kept, r) \in SUBSET Ids
    BY RowsAre DEF Adopts
  <2> HIDE DEF kept
  <2> QED
    BY <2>1, SomeIds, LeastIsLeast
<1>5. \A r, s \in linked \cup adopter : old(r) = old(s) => r = s
  <2> HIDE DEF kept
  <2>1. \A r \in linked : old(r) \in DOMAIN kept /\ kept[old(r)] = r
    BY <1>3
  <2> HIDE DEF old, linked, adopter
  <2>2. linked \cup adopter \subseteq DOMAIN reviewers
    BY DEF linked, adopter
  <2> QED
    BY <1>4, <2>1, <2>2 DEF AddressesDiffer
<1>6. taken \in SUBSET Ids
  <2>1. DOMAIN reviewees \in SUBSET Ids
    BY RowsAre
  <2>2. \A r \in linked : old(r) = first(r)
    OBVIOUS
  <2> HIDE DEF kept, linked, adopter, old, first
  <2> QED
    BY <1>2, <1>3, <1>4, <2>1, <2>2
<1> DEFINE free == Ids \ taken
<1>7. /\ new \in SUBSET Ids /\ free \in SUBSET Ids
      /\ Cardinality(new) <= Cardinality(free)
  <2> DEFINE placed == linked \cup adopter
  <2>1. placed \subseteq DOMAIN reviewers /\ new = DOMAIN reviewers \ placed /\ DOMAIN reviewers \in SUBSET Ids
    BY RowsAre
  <2>2. taken = {old(r) : r \in placed}
    OBVIOUS
  <2> HIDE DEF placed, new, old, taken
  <2>3. Cardinality(taken) <= Cardinality(placed)
    <3>1. [r \in placed |-> old(r)] \in Surjection(placed, taken)
      BY <2>2 DEF Surjection
    <3> QED
      BY <2>1, <3>1, SomeIds, FS_Surjection
  <2>4. Cardinality(new) = Cardinality(DOMAIN reviewers) - Cardinality(placed)
    <3>1. DOMAIN reviewers \cap placed = placed
      BY <2>1
    <3> QED
      BY <2>1, <3>1, SomeIds, FS_Difference
  <2>5. Cardinality(free) = MaxRows - Cardinality(taken)
    <3>1. Ids \cap taken = taken /\ Ids \in SUBSET Ids
      BY <1>6
    <3>2. Cardinality(Ids) = MaxRows
      BY FS_Interval DEF Ids, RostersAssumption
    <3> QED
      BY <3>1, <3>2, SomeIds, FS_Difference
  <2>6. /\ new \in SUBSET Ids /\ free \in SUBSET Ids
        /\ placed \in SUBSET Ids /\ taken \in SUBSET Ids
    BY <1>6, <2>1
  <2>7. /\ Cardinality(DOMAIN reviewers) \in Nat /\ Cardinality(DOMAIN reviewers) <= MaxRows
        /\ Cardinality(placed) \in Nat /\ Cardinality(taken) \in Nat
    BY <2>1, <2>6, SomeIds
  <2> QED
    BY <2>3, <2>4, <2>5, <2>6, <2>7 DEF RostersAssumption
<1>8. \A r \in new : slot(r) \in free /\ Cardinality(Before(free, slot(r))) = Cardinality(Before(new, r))
  <2> SUFFICES ASSUME NEW r \in new
               PROVE  slot(r) \in free /\ Cardinality(Before(free, slot(r))) = Cardinality(Before(new, r))
    OBVIOUS
  <2>1. slot(r) = CHOOSE e \in free : Cardinality(Before(free, e)) = Cardinality(Before(new, r))
    BY DEF Before
  <2> HIDE DEF slot, new, free
  <2>2. /\ Before(new, r) \in SUBSET new /\ r \in new \ Before(new, r)
    BY <1>7 DEF Before, Ids
  <2>3. Cardinality(Before(new, r)) \in Nat /\ Cardinality(Before(new, r)) < Cardinality(new)
    <3>1. Cardinality(Before(new, r)) <= Cardinality(new) /\ Cardinality(Before(new, r)) # Cardinality(new)
      BY <1>7, <2>2, SomeIds, FS_Subset
    <3>2. Cardinality(Before(new, r)) \in Nat /\ Cardinality(new) \in Nat
      BY <1>7, <2>2, SomeIds
    <3> QED
      BY <3>1, <3>2
  <2>4. Cardinality(Before(new, r)) < Cardinality(free)
    BY <1>7, <2>3, SomeIds
  <2>5. \E e \in free : Cardinality(Before(free, e)) = Cardinality(Before(new, r))
    BY <1>7, <2>3, <2>4, SomeIds, NthExists
  <2> QED
    BY <2>1, <2>5
<1>9. \A r, s \in new : slot(r) = slot(s) => r = s
  <2> HIDE DEF slot, new, free
  <2>1. ASSUME NEW r \in new, NEW s \in new, r < s
        PROVE  Cardinality(Before(new, r)) # Cardinality(Before(new, s))
    <3>1. Before(new, r) \in SUBSET Before(new, s) /\ Before(new, s) \in SUBSET Ids
      <4>1. \A f \in new : f \in Int /\ (f < r => f < s)
        BY <1>7, <2>1 DEF Ids
      <4> QED
        BY <1>7, <4>1 DEF Before
    <3>2. r \in Before(new, s) /\ r \notin Before(new, r)
      BY <1>7, <2>1 DEF Before, Ids
    <3> QED
      BY <3>1, <3>2, SomeIds, FS_Subset
  <2>2. \A r, s \in new : r # s => r < s \/ s < r
    BY <1>7 DEF Ids
  <2> QED
    BY <1>8, <2>1, <2>2
(* Whom a reviewee mirrors: every reviewer has a place, and no two one.    *)
<1> DEFINE place(r) == IF r \in new THEN slot(r) ELSE old(r)
<1>10. /\ \A r \in DOMAIN reviewers : place(r) \in taken \cup {slot(s) : s \in new}
       /\ \A e \in taken \cup {slot(s) : s \in new} : \E r \in DOMAIN reviewers : place(r) = e
  <2>1. linked \cup adopter \subseteq DOMAIN reviewers /\ new = DOMAIN reviewers \ (linked \cup adopter)
    OBVIOUS
  <2> HIDE DEF slot, old, linked, adopter, new
  <2> QED
    BY <2>1
<1>11. \A r, s \in DOMAIN reviewers : place(r) = place(s) => r = s
  <2>1. \A r \in DOMAIN reviewers \ new : place(r) = old(r) /\ old(r) \in taken /\ r \in linked \cup adopter
    OBVIOUS
  <2>2. \A r \in new : place(r) = slot(r)
    OBVIOUS
  <2> HIDE DEF slot, old, linked, adopter, new, taken, place
  <2> QED
    BY <1>5, <1>8, <1>9, <2>1, <2>2
<1> DEFINE places == taken \cup {slot(s) : s \in new}
<1>12. DOMAIN map = places /\ \A e \in places : map[e] \in DOMAIN reviewers /\ place(map[e]) = e
  <2> DEFINE at(r, e) == IF r \in new THEN slot(r) = e ELSE old(r) = e
  <2>1. map = [e \in places |-> CHOOSE r \in DOMAIN reviewers : at(r, e)]
    BY <1>1
  <2>2. \A r, e : at(r, e) <=> place(r) = e
    OBVIOUS
  <2>3. \A e \in places : \E r \in DOMAIN reviewers : at(r, e)
    <3> HIDE DEF at, place, slot, new, taken
    <3> QED
      BY <1>10, <2>2
  <2> HIDE DEF at, place, places
  <2>4. \A e \in places : (CHOOSE r \in DOMAIN reviewers : at(r, e)) \in DOMAIN reviewers
                          /\ at(CHOOSE r \in DOMAIN reviewers : at(r, e), e)
    BY <2>3
  <2> QED
    BY <2>1, <2>2, <2>4
<1>13. places \in SUBSET Ids
  <2> HIDE DEF slot, new, taken
  <2> QED
    BY <1>6, <1>7, <1>8
<1> QED
  <2>1. \A r \in DOMAIN reviewers : place(r) \in places /\ map[place(r)] = r
    <3>1. \A r \in DOMAIN reviewers : place(r) \in places
      BY <1>10 DEF places
    <3> HIDE DEF place, places
    <3> QED
      BY <1>11, <1>12, <3>1
  <2>2. map = [e \in DOMAIN map |-> map[e]]
    BY <1>1
  <2> HIDE DEF place, places
  <2> QED
    BY <1>12, <1>13, <2>1, <2>2

-----------------------------------------------------------------------------
(* What each waiting request read, and what of it still holds: an account  *)
(* it was answered was given; what it saw is so while nothing raced it.    *)
Given(answers, known) ==
  \A a \in DOMAIN answers : AccountOf(answers[a]) # None => AccountOf(answers[a]) \in known[a]

(* No row of the other roster has a file's address under another name.     *)
FileAgrees(k, file, rosters, mirrored) ==
  \A o \in Kinds \ (IF k = "reviewers" /\ mirrored THEN Kinds ELSE {k}) :
    \A i \in DOMAIN rosters[o] : rosters[o][i].address \in DOMAIN file =>
        rosters[o][i].name = file[rosters[o][i].address]

EditHolds(r, rosters, mirrored) ==
  /\ r.id \in DOMAIN rosters[r.kind]
  /\ r.kind = "reviewees" => ~mirrored
  /\ ~r.raced => r.seen = rosters[r.kind][r.id]
DeletionHolds(r, mirrored) == ~r.raced => ~mirrored
UploadHolds(r, rosters, mirrored, known) ==
  /\ Given(r.answers, known)
  /\ Cardinality(DOMAIN r.file) <= MaxRows
  /\ ~r.raced => FileAgrees(r.kind, r.file, rosters, mirrored)

Holds(r, rosters, mirrored, known) ==
  r # None => /\ r.op = "edit" => EditHolds(r, rosters, mirrored)
              /\ r.op = "delete_all" => DeletionHolds(r, mirrored)
              /\ r.op \in Modes => UploadHolds(r, rosters, mirrored, known)
              /\ r.op = "recheck" => Given(r.answers, known)

RequestsHold == \A q \in Requests : Holds(request[q], roster, symmetric, answered)

RequestTypes == Edits \cup Deletions \cup Uploads \cup Rechecks

LEMMA RequestKinds ==
  ASSUME NEW r \in RequestTypes
  PROVE  /\ r.op = "edit" => r \in Edits
         /\ r.op = "delete_all" => r \in Deletions
         /\ r.op \in Modes => /\ r \in Uploads /\ r.kind \in Kinds /\ r.file \in Files
                              /\ r.answers \in Lookups(DOMAIN r.file) /\ r.raced \in BOOLEAN
         /\ r.op = "recheck" => /\ r \in Rechecks /\ r.kind \in Kinds
                                /\ DOMAIN r.answers \subseteq Addresses
                                /\ r.answers \in Lookups(DOMAIN r.answers)
         /\ [r EXCEPT !.raced = TRUE] \in RequestTypes
<1>1. r \in Edits \/ r \in Deletions \/ r \in Uploads \/ r \in Rechecks
  BY DEF RequestTypes
<1>2. CASE r \in Edits
  BY <1>2 DEF Edits, Modes, RequestTypes
<1>3. CASE r \in Deletions
  BY <1>3 DEF Deletions, Modes, RequestTypes
<1>4. CASE r \in Uploads
  <2>1. PICK f \in Files : r \in [op : Modes, kind : Kinds, file : {f}, answers : Lookups(DOMAIN f), raced : BOOLEAN]
    BY <1>4 DEF Uploads
  <2>2. [r EXCEPT !.raced = TRUE] \in
          [op : Modes, kind : Kinds, file : {f}, answers : Lookups(DOMAIN f), raced : BOOLEAN]
    BY <2>1
  <2>3. [r EXCEPT !.raced = TRUE] \in Uploads
    BY <2>2 DEF Uploads
  <2> QED
    BY <1>4, <2>1, <2>3 DEF Modes, RequestTypes
<1>5. CASE r \in Rechecks
  <2>1. PICK as \in SUBSET Addresses :
          r \in [op : {"recheck"}, kind : Kinds, answers : Lookups(as), raced : BOOLEAN]
    BY <1>5 DEF Rechecks
  <2>2. [r EXCEPT !.raced = TRUE] \in
          [op : {"recheck"}, kind : Kinds, answers : Lookups(as), raced : BOOLEAN]
    BY <2>1
  <2>3. [r EXCEPT !.raced = TRUE] \in Rechecks
    BY <2>2 DEF Rechecks
  <2> QED
    BY <1>5, <2>1, <2>3 DEF Modes, RequestTypes, Lookups
<1> QED
  BY <1>1, <1>2, <1>3, <1>4, <1>5

(* A write leaves of the requests that wait what they may still go by.     *)
LEMMA RacedHolds ==
  ASSUME NEW r \in RequestTypes, NEW rosters, NEW mirrored \in BOOLEAN, NEW known,
         NEW rosters2, NEW mirrored2 \in BOOLEAN, NEW known2,
         Holds(r, rosters, mirrored, known), r # None,
         \A a \in Addresses : known[a] \subseteq known2[a],
         mirrored2 => mirrored \/ \A k \in Kinds : DOMAIN rosters2[k] = {},
         r.op = "edit" => r.id \in DOMAIN rosters2[r.kind],
         NEW t, t = [r EXCEPT !.raced = TRUE]
  PROVE  t \in RequestTypes /\ Holds(t, rosters2, mirrored2, known2)
<1>1. t \in RequestTypes
  BY RequestKinds
<1>2. CASE r.op = "edit"
  <2>1. r \in Edits
    BY <1>2, RequestKinds
  <2>2. t.op = "edit" /\ t.kind = r.kind /\ t.id = r.id /\ t.raced = TRUE /\ r.kind \in Kinds
    BY <2>1 DEF Edits
  <2>3. EditHolds(r, rosters, mirrored)
    BY <1>2 DEF Holds
  <2>4. EditHolds(t, rosters2, mirrored2)
    BY <1>2, <2>2, <2>3 DEF EditHolds
  <2> QED
    BY <1>1, <2>2, <2>4 DEF Holds, Modes
<1>3. CASE r.op = "delete_all"
  <2>1. t.op = "delete_all" /\ t.raced = TRUE
    BY <1>3, RequestKinds DEF Deletions
  <2> QED
    BY <1>1, <2>1 DEF Holds, DeletionHolds, Modes
<1>4. CASE r.op \in Modes
  <2>1. r \in Uploads /\ DOMAIN r.answers \subseteq Addresses
    BY <1>4, RequestKinds DEF Lookups, Files
  <2>2. t.op = r.op /\ t.file = r.file /\ t.answers = r.answers /\ t.raced = TRUE
    BY <2>1 DEF Uploads
  <2>3. Given(t.answers, known2) /\ Cardinality(DOMAIN t.file) <= MaxRows
    BY <1>4, <2>1, <2>2 DEF Holds, UploadHolds, Given
  <2> QED
    BY <1>1, <1>4, <2>2, <2>3 DEF Holds, UploadHolds, Modes
<1>5. CASE r.op = "recheck"
  <2>1. r \in Rechecks /\ DOMAIN r.answers \subseteq Addresses
    BY <1>5, RequestKinds
  <2>2. t.op = "recheck" /\ t.answers = r.answers
    BY <2>1 DEF Rechecks
  <2> QED
    BY <1>1, <1>5, <2>1, <2>2 DEF Holds, Given, Modes
<1>6. r.op = "edit" \/ r.op = "delete_all" \/ r.op \in Modes \/ r.op = "recheck"
  BY DEF RequestTypes, Edits, Deletions, Uploads, Rechecks
<1> QED
  BY <1>2, <1>3, <1>4, <1>5, <1>6

(* The requests after a step that writes.                                  *)
Learned == \A a \in Addresses : answered[a] \subseteq answered'[a]
RequestsTyped == request \in [Requests -> {None} \cup RequestTypes]

LEMMA WritingKeepsRequests ==
  ASSUME RequestsTyped, RequestsHold, Learned, symmetric \in BOOLEAN, symmetric' \in BOOLEAN,
         symmetric' => symmetric \/ \A k \in Kinds : DOMAIN roster'[k] = {},
         OthersRaced \/ \E q \in Requests : Finished(q)
  PROVE  RequestsTyped' /\ RequestsHold'
<1>1. /\ request' = [p \in Requests |-> request'[p]]
      /\ \A p \in Requests : request'[p] = None \/ request'[p] = Raced(request[p])
  BY DEF OthersRaced, Finished
<1>2. \A p \in Requests : /\ request[p] = None \/ request[p] \in RequestTypes
                          /\ Holds(request[p], roster, symmetric, answered)
  BY DEF RequestsTyped, RequestsHold
<1>3. ASSUME NEW p \in Requests
      PROVE  /\ request'[p] = None \/ request'[p] \in RequestTypes
             /\ Holds(request'[p], roster', symmetric', answered')
  <2>1. CASE request'[p] = None
    BY <2>1 DEF Holds
  <2>2. CASE request'[p] # None
    <3>1. /\ request[p] # None /\ request[p] \in RequestTypes
          /\ request'[p] = [request[p] EXCEPT !.raced = TRUE]
          /\ request[p].op = "edit" => request[p].id \in DOMAIN roster'[request[p].kind]
      BY <1>1, <1>2, <2>2 DEF Raced
    <3> DEFINE r == request[p]
               t == request'[p]
    <3>2. /\ r \in RequestTypes /\ Holds(r, roster, symmetric, answered) /\ r # None
          /\ r.op = "edit" => r.id \in DOMAIN roster'[r.kind]
          /\ t = [r EXCEPT !.raced = TRUE]
      BY <1>2, <3>1
    <3>3. /\ \A a \in Addresses : answered[a] \subseteq answered'[a]
          /\ symmetric' => symmetric \/ \A k \in Kinds : DOMAIN roster'[k] = {}
      BY DEF Learned
    <3> HIDE DEF r, t
    <3>4. t \in RequestTypes /\ Holds(t, roster', symmetric', answered')
      BY <3>2, <3>3, RacedHolds
    <3> QED
      BY <3>4 DEF t
  <2> QED
    BY <2>1, <2>2
<1> QED
  BY <1>1, <1>3 DEF RequestsTyped, RequestsHold

-----------------------------------------------------------------------------
(* What a write may put on a roster.                                       *)
RowsAnswered(rows, known, old) ==
  \A i \in DOMAIN rows : rows[i].account # None =>
    rows[i].account \in known[rows[i].address] \/ <<rows[i].address, rows[i].account>> \in old

RowsApart(rows, twice) ==
  \A i, j \in DOMAIN rows : i # j =>
    /\ rows[i].address # rows[j].address
    /\ rows[i].account # None => rows[i].account # rows[j].account \/ rows[i].account \in twice

NamesKept(k, rows) ==
  \A i \in DOMAIN rows :
    \/ \E j \in DOMAIN roster[k] :
         roster[k][j].address = rows[i].address /\ roster[k][j].name = rows[i].name
    \/ ~CrossTableConflict(k, rows[i].address, rows[i].name)

MirrorsTyped == mirrors \in UNION {[es -> Ids] : es \in SUBSET Ids}

LEMMA MirrorsAre ==
  ASSUME NEW links
  PROVE  links \in UNION {[es -> Ids] : es \in SUBSET Ids}
           <=> DOMAIN links \in SUBSET Ids /\ links \in [DOMAIN links -> Ids]
  OBVIOUS

(* A write to the reviewers of a symmetric session mirrors them.           *)
LEMMA MirroredWrite ==
  ASSUME RostersAssumption, roster \in [Kinds -> RosterRows], symmetric,
         NEW rows \in RosterRows, AddressesDiffer(rows), Write("reviewers", rows)
  PROVE  /\ roster' \in [Kinds -> RosterRows] /\ roster'["reviewers"] = rows
         /\ MirrorsTyped' /\ InStep' /\ unmirrored' = FALSE
<1> DEFINE map == MirrorMap(rows, roster["reviewees"], mirrors)
<1>1. /\ mirrors' = map /\ unmirrored' = FALSE
      /\ roster' = [reviewers |-> rows, reviewees |-> [e \in DOMAIN map |-> rows[map[e]]]]
  BY DEF Write, SyncReviewees
<1>2. roster["reviewees"] \in RosterRows
  BY DEF Kinds
<1> HIDE DEF map
<1>3. /\ DOMAIN map \subseteq Ids
      /\ map \in [DOMAIN map -> DOMAIN rows]
      /\ \A r \in DOMAIN rows : \E e \in DOMAIN map : map[e] = r
      /\ \A e, f \in DOMAIN map : map[e] = map[f] => e = f
  BY <1>2, MirrorIsExact DEF map
<1>4. /\ roster'["reviewers"] = rows /\ roster'["reviewees"] = [e \in DOMAIN map |-> rows[map[e]]]
      /\ DOMAIN roster' = Kinds
  BY <1>1 DEF Kinds
<1>5. DOMAIN rows \in SUBSET Ids /\ rows \in [DOMAIN rows -> Row]
  BY RowsAre
<1>6. [e \in DOMAIN map |-> rows[map[e]]] \in RosterRows
  <2>1. [e \in DOMAIN map |-> rows[map[e]]] \in [DOMAIN map -> Row]
    BY <1>3, <1>5
  <2> QED
    BY <1>3, <2>1, RowsAre
<1>7. roster' \in [Kinds -> RosterRows]
  <2>1. roster' = [k \in Kinds |-> roster'[k]]
    BY <1>1 DEF Kinds
  <2> QED
    BY <1>4, <1>6, <2>1 DEF Kinds
<1>8. MirrorsTyped'
  BY <1>1, <1>3, <1>5, MirrorsAre DEF MirrorsTyped
<1>9. InStep'
  BY <1>1, <1>3, <1>4 DEF InStep, Range, IsInjective
<1> QED
  BY <1>1, <1>4, <1>7, <1>8, <1>9

LEMMA PlainWrite ==
  ASSUME roster \in [Kinds -> RosterRows], MirrorsTyped, NEW k \in Kinds, ~symmetric,
         NEW rows \in RosterRows, Write(k, rows)
  PROVE  /\ roster' = [roster EXCEPT ![k] = rows] /\ roster' \in [Kinds -> RosterRows]
         /\ roster'[k] = rows /\ MirrorsTyped' /\ DOMAIN mirrors' \subseteq DOMAIN mirrors
<1>1. roster' = [roster EXCEPT ![k] = rows]
  BY DEF Write, SyncReviewees, Kinds
<1>2. mirrors' = mirrors \/ mirrors' = Restrict(mirrors, DOMAIN mirrors \cap DOMAIN rows)
  BY DEF Write, SyncReviewees
<1>3. MirrorsTyped' /\ DOMAIN mirrors' \subseteq DOMAIN mirrors
  <2>1. DOMAIN mirrors \in SUBSET Ids /\ mirrors \in [DOMAIN mirrors -> Ids]
    BY MirrorsAre DEF MirrorsTyped
  <2>2. /\ DOMAIN mirrors' \in SUBSET Ids /\ mirrors' \in [DOMAIN mirrors' -> Ids]
        /\ DOMAIN mirrors' \subseteq DOMAIN mirrors
    BY <1>2, <2>1 DEF Restrict
  <2> QED
    BY <2>2, MirrorsAre DEF MirrorsTyped
<1> QED
  BY <1>1, <1>3
(* A write that keeps to these keeps the rosters.                          *)
HistoryTyped ==
  /\ answered \in [Addresses -> SUBSET Accounts] /\ shared \subseteq Accounts
  /\ split \subseteq Addresses /\ stale \subseteq Addresses \X (Accounts \cup {None})
  /\ unmirrored \in BOOLEAN

Grows == Learned /\ shared \subseteq shared' /\ split \subseteq split' /\ stale \subseteq stale'

Lands(k, rows) ==
  /\ k \in Kinds /\ rows \in RosterRows /\ Write(k, rows)
  /\ symmetric' = symmetric /\ (k = "reviewees" => ~symmetric)
  /\ HistoryTyped' /\ Grows /\ writes' \in 0 .. MaxWrites
  /\ RowsAnswered(rows, answered', stale') /\ RowsApart(rows, shared')
  /\ symmetric \/ NamesKept(k, rows) \/ Disagree(roster') \ Disagree(roster) \subseteq split'
  /\ OthersRaced \/ \E q \in Requests : Finished(q)

LEMMA TypeParts ==
  TypeOK <=> /\ roster \in [Kinds -> RosterRows] /\ MirrorsTyped /\ symmetric \in BOOLEAN
             /\ RequestsTyped /\ HistoryTyped /\ writes \in 0 .. MaxWrites
<1>1. {None} \cup Edits \cup Deletions \cup Uploads \cup Rechecks = {None} \cup RequestTypes
  BY DEF RequestTypes
<1> HIDE DEF RequestTypes
<1> QED
  BY <1>1 DEF TypeOK, MirrorsTyped, RequestsTyped, HistoryTyped

(* The inductive invariant.                                                *)
RosterInv ==
    /\ roster \in [Kinds -> RosterRows] /\ MirrorsTyped /\ symmetric \in BOOLEAN
    /\ RequestsTyped /\ RequestsHold /\ HistoryTyped /\ writes \in 0 .. MaxWrites
    /\ \A k \in Kinds : RowsAnswered(roster[k], answered, stale) /\ RowsApart(roster[k], shared)
    /\ Disagree(roster) \subseteq split
    /\ symmetric => InStep \/ unmirrored
    /\ ~symmetric => DOMAIN mirrors = {}

LEMMA InvariantGives ==
  RosterInv => TypeOK /\ BindingsAreAnswers /\ OnePersonOneName /\ MirrorInStep
<1>1. BindingsAreAnswers <=> \A k \in Kinds : RowsAnswered(roster[k], answered, stale)
  BY DEF BindingsAreAnswers, RowsAnswered
<1>2. OneRowPerPerson <=> \A k \in Kinds : RowsApart(roster[k], shared)
  BY DEF OneRowPerPerson, RowsApart
<1> QED
  BY <1>1, <1>2, TypeParts DEF RosterInv, OnePersonOneName, NamesAgree, MirrorInStep

LEMMA NamesStay ==
  ASSUME roster \in [Kinds -> RosterRows], NEW k \in Kinds, ~symmetric,
         NEW rows \in RosterRows, NEW after, after = [roster EXCEPT ![k] = rows], NamesKept(k, rows)
  PROVE  Disagree(after) \subseteq Disagree(roster)
<1> SUFFICES ASSUME NEW a \in Addresses,
                    NEW i \in DOMAIN after["reviewers"], NEW j \in DOMAIN after["reviewees"],
                    after["reviewers"][i].address = a, after["reviewees"][j].address = a,
                    after["reviewers"][i].name # after["reviewees"][j].name
             PROVE  a \in Disagree(roster)
  BY DEF Disagree
<1>1. CASE k = "reviewers"
  <2>1. after["reviewers"] = rows /\ after["reviewees"] = roster["reviewees"]
    BY <1>1 DEF Kinds
  <2>2. CrossTableConflict(k, rows[i].address, rows[i].name)
    BY <1>1, <2>1 DEF CrossTableConflict, WithMirrors, Kinds
  <2>3. PICK f \in DOMAIN roster[k] :
          roster[k][f].address = rows[i].address /\ roster[k][f].name = rows[i].name
    BY <2>1, <2>2 DEF NamesKept
  <2> QED
    BY <1>1, <2>1, <2>3 DEF Disagree
<1>2. CASE k = "reviewees"
  <2>1. after["reviewees"] = rows /\ after["reviewers"] = roster["reviewers"]
    BY <1>2 DEF Kinds
  <2>2. CrossTableConflict(k, rows[j].address, rows[j].name)
    BY <1>2, <2>1 DEF CrossTableConflict, WithMirrors, Kinds
  <2>3. PICK f \in DOMAIN roster[k] :
          roster[k][f].address = rows[j].address /\ roster[k][f].name = rows[j].name
    BY <2>1, <2>2 DEF NamesKept
  <2> QED
    BY <1>2, <2>1, <2>3 DEF Disagree
<1> QED
  BY <1>1, <1>2 DEF Kinds

(* The reviewees of a mirrored roster are its reviewers.                   *)
Copied(rosters, links) ==
  \A e \in DOMAIN rosters["reviewees"] :
    /\ links[e] \in DOMAIN rosters["reviewers"]
    /\ rosters["reviewees"][e] = rosters["reviewers"][links[e]]
    /\ \A f \in DOMAIN rosters["reviewees"] : e # f => links[e] # links[f]

LEMMA CopiesAreAlike ==
  ASSUME NEW rosters, NEW links, Copied(rosters, links), NEW known, NEW old, NEW twice,
         RowsAnswered(rosters["reviewers"], known, old), RowsApart(rosters["reviewers"], twice)
  PROVE  /\ RowsAnswered(rosters["reviewees"], known, old)
         /\ RowsApart(rosters["reviewees"], twice) /\ Disagree(rosters) = {}
<1>1. RowsAnswered(rosters["reviewees"], known, old)
  BY DEF RowsAnswered, Copied
<1>2. RowsApart(rosters["reviewees"], twice)
  BY DEF RowsApart, Copied
<1>3. Disagree(rosters) = {}
  BY DEF Disagree, RowsApart, Copied
<1> QED
  BY <1>1, <1>2, <1>3

LEMMA LandingKeeps ==
  ASSUME RostersAssumption, RosterInv, NEW k, NEW rows, Lands(k, rows)
  PROVE  RosterInv'
<1>1. /\ roster \in [Kinds -> RosterRows] /\ MirrorsTyped /\ symmetric \in BOOLEAN
      /\ RequestsTyped /\ RequestsHold /\ HistoryTyped /\ Disagree(roster) \subseteq split
      /\ \A o \in Kinds : RowsAnswered(roster[o], answered, stale) /\ RowsApart(roster[o], shared)
  BY DEF RosterInv
<1>2. RequestsTyped' /\ RequestsHold'
  BY <1>1, WritingKeepsRequests DEF Lands, Grows
<1>3. AddressesDiffer(rows)
  BY DEF Lands, RowsApart, AddressesDiffer
<1>4. CASE symmetric
  <2>1. k = "reviewers"
    BY <1>4 DEF Lands, Kinds
  <2>2. /\ roster' \in [Kinds -> RosterRows] /\ roster'["reviewers"] = rows
        /\ MirrorsTyped' /\ InStep' /\ unmirrored' = FALSE
    BY <1>1, <1>3, <1>4, <2>1, MirroredWrite DEF Lands
  <2>3. /\ RowsAnswered(roster'["reviewees"], answered', stale')
        /\ RowsApart(roster'["reviewees"], shared') /\ Disagree(roster') = {}
    <3>1. Copied(roster', mirrors')
      BY <2>2 DEF InStep, Range, IsInjective, Copied
    <3> QED
      BY <2>2, <3>1, CopiesAreAlike DEF Lands
  <2> QED
    BY <1>1, <1>2, <1>4, <2>2, <2>3 DEF Lands, Kinds, RosterInv
<1>5. CASE ~symmetric
  <2>1. /\ roster' = [roster EXCEPT ![k] = rows] /\ roster' \in [Kinds -> RosterRows]
        /\ roster'[k] = rows /\ MirrorsTyped' /\ DOMAIN mirrors' \subseteq DOMAIN mirrors
    BY <1>1, <1>5, PlainWrite DEF Lands
  <2>2. \A o \in Kinds : /\ RowsAnswered(roster'[o], answered', stale')
                         /\ RowsApart(roster'[o], shared')
    <3>1. \A o \in Kinds : RowsAnswered(roster[o], answered', stale') /\ RowsApart(roster[o], shared')
      <4>1. \A o \in Kinds : \A i \in DOMAIN roster[o] : roster[o][i].address \in Addresses
        BY <1>1, RowsAre DEF Row
      <4> QED
        BY <1>1, <4>1 DEF Lands, Grows, Learned, RowsAnswered, RowsApart
    <3>2. \A o \in Kinds : o # k => roster'[o] = roster[o]
      BY <1>1, <2>1
    <3> QED
      BY <2>1, <3>1, <3>2 DEF Lands
  <2>3. Disagree(roster') \subseteq split'
    <3>1. CASE NamesKept(k, rows)
      BY <1>1, <1>5, <2>1, <3>1, NamesStay DEF Lands, Grows
    <3>2. CASE Disagree(roster') \ Disagree(roster) \subseteq split'
      BY <1>1, <3>2 DEF Lands, Grows
    <3> QED
      BY <1>5, <3>1, <3>2 DEF Lands
  <2> QED
    BY <1>1, <1>2, <1>5, <2>1, <2>2, <2>3 DEF Lands, RosterInv
<1> QED
  BY <1>1, <1>4, <1>5
-----------------------------------------------------------------------------
(* What the writes share.                                                  *)
LEMMA CountIs ==
  ASSUME RostersAssumption, writes \in 0 .. MaxWrites, Count
  PROVE  writes' \in 0 .. MaxWrites
BY DEF Count, RostersAssumption

LEMMA LookedIs ==
  ASSUME RostersAssumption, answered \in [Addresses -> SUBSET Accounts],
         NEW answers, DOMAIN answers \subseteq Addresses,
         \A a \in DOMAIN answers : answers[a] \in Outcome, Looked(answers)
  PROVE  /\ answered' \in [Addresses -> SUBSET Accounts] /\ Learned
         /\ Given(answers, answered')
<1>1. \A a \in DOMAIN answers :
        AccountOf(answers[a]) # None => answers[a] = AccountOf(answers[a]) /\ answers[a] \in Accounts
  BY DEF AccountOf, Outcome
<1>2. \A a \in Addresses : answered[a] \subseteq answered'[a]
  BY DEF Looked
<1>3. \A a \in DOMAIN answers : AccountOf(answers[a]) # None => AccountOf(answers[a]) \in answered'[a]
  BY <1>1 DEF Looked
<1>4. answered' \in [Addresses -> SUBSET Accounts]
  BY DEF Looked
<1> QED
  BY <1>2, <1>3, <1>4 DEF Learned, Given

LEMMA Grown ==
  ASSUME NEW rows \in RosterRows, Grows,
         RowsAnswered(rows, answered, stale), RowsApart(rows, shared)
  PROVE  RowsAnswered(rows, answered', stale') /\ RowsApart(rows, shared')
<1>1. \A i \in DOMAIN rows : rows[i].address \in Addresses
  BY RowsAre DEF Row
<1> QED
  BY <1>1 DEF Grows, Learned, RowsAnswered, RowsApart

Puts(rows, id, row, after) ==
  /\ DOMAIN after = DOMAIN rows \cup {id} /\ after[id] = row
  /\ \A i \in DOMAIN rows : after[i] = rows[i]

LEMMA AddedIs ==
  ASSUME RostersAssumption, NEW rows \in RosterRows, Free(rows) # {}, NEW row \in Row,
         NEW after, after = Added(rows, row)
  PROVE  after \in RosterRows /\ \E id \in Ids \ DOMAIN rows : Puts(rows, id, row, after)
<1> DEFINE id == Least(Free(rows))
<1>1. id \in Ids \ DOMAIN rows
  <2>1. Free(rows) \in SUBSET Ids
    BY DEF Free
  <2>2. id \in Free(rows)
    BY <2>1, SomeIds, LeastIsLeast
  <2> QED
    BY <2>2 DEF Free
<1>2. DOMAIN rows \in SUBSET Ids /\ rows \in [DOMAIN rows -> Row]
  BY RowsAre
<1>3. after = [i \in DOMAIN rows \cup {id} |-> IF i \in DOMAIN rows THEN rows[i] ELSE [j \in {id} |-> row][i]]
  BY DEF Added, With
<1> HIDE DEF id
<1>4. /\ DOMAIN after = DOMAIN rows \cup {id} /\ after[id] = row
      /\ \A i \in DOMAIN rows : after[i] = rows[i]
  BY <1>1, <1>3
<1>5. after \in [DOMAIN after -> Row]
  BY <1>1, <1>2, <1>3, <1>4
<1> QED
  BY <1>1, <1>2, <1>4, <1>5, RowsAre DEF Puts

(* One row written, the others as they were.                               *)
LEMMA OneRowPut ==
  ASSUME NEW rows, NEW known, NEW old, NEW twice, RowsAnswered(rows, known, old), RowsApart(rows, twice),
         NEW id, NEW after, DOMAIN after = DOMAIN rows \cup {id},
         \A i \in DOMAIN rows \ {id} : after[i] = rows[i] /\ rows[i].address # after[id].address,
         after[id].account # None =>
           /\ \A i \in DOMAIN rows \ {id} :
                 rows[i].account # after[id].account \/ after[id].account \in twice
           /\ \/ after[id].account \in known[after[id].address]
              \/ <<after[id].address, after[id].account>> \in old
  PROVE  RowsAnswered(after, known, old) /\ RowsApart(after, twice)
<1>1. RowsAnswered(after, known, old)
  BY DEF RowsAnswered
<1>2. RowsApart(after, twice)
  BY DEF RowsApart
<1> QED
  BY <1>1, <1>2

LEMMA CreateLands ==
  ASSUME RostersAssumption, RosterInv, NEW k \in Kinds, NEW a \in Addresses, NEW n \in Names,
         NEW outcome \in Outcome, Count, Free(roster[k]) # {}, k = "reviewees" => ~symmetric,
         \A i \in DOMAIN roster[k] : roster[k][i].address # a,
         ~CrossTableConflict(k, a, n),
         AccountHolder(roster[k], AccountOf(outcome), 0) = {},
         NEW after, after = Added(roster[k], NewRow(a, n, AccountOf(outcome))), Write(k, after),
         Looked([x \in {a} |-> outcome]), OthersRaced,
         UNCHANGED <<symmetric, shared, split, stale>>
  PROVE  Lands(k, after)
<1>1. roster[k] \in RosterRows /\ RowsAnswered(roster[k], answered, stale) /\ RowsApart(roster[k], shared)
  BY DEF RosterInv
<1>2. AccountOf(outcome) \in Accounts \cup {None}
  BY DEF Outcome, AccountOf
<1>3. NewRow(a, n, AccountOf(outcome)) \in Row
  BY <1>2 DEF NewRow, Row
<1> DEFINE rows == roster[k]
           row == NewRow(a, n, AccountOf(outcome))
<1>10. rows \in RosterRows /\ Free(rows) # {} /\ row \in Row /\ after = Added(rows, row)
  BY <1>1, <1>3
<1> HIDE DEF rows, row
<1>4. after \in RosterRows /\ \E id \in Ids \ DOMAIN rows : Puts(rows, id, row, after)
  BY <1>10, AddedIs
<1>5. PICK id \in Ids \ DOMAIN roster[k] :
           /\ DOMAIN after = DOMAIN roster[k] \cup {id} /\ after[id] = NewRow(a, n, AccountOf(outcome))
           /\ \A i \in DOMAIN roster[k] : after[i] = roster[k][i]
  BY <1>4 DEF rows, row, Puts
<1>6. /\ answered' \in [Addresses -> SUBSET Accounts] /\ Learned
      /\ AccountOf(outcome) # None => AccountOf(outcome) \in answered'[a]
  <2> DEFINE answers == [x \in {a} |-> outcome]
  <2>1. DOMAIN answers = {a} /\ answers[a] = outcome /\ answered \in [Addresses -> SUBSET Accounts]
    BY DEF RosterInv, HistoryTyped
  <2>2. Looked(answers)
    OBVIOUS
  <2> HIDE DEF answers
  <2>3. answered' \in [Addresses -> SUBSET Accounts] /\ Learned /\ Given(answers, answered')
    BY <2>1, <2>2, LookedIs
  <2> QED
    BY <2>1, <2>3 DEF Given
<1>7. Grows /\ HistoryTyped'
  <2>1. unmirrored' \in BOOLEAN
    BY DEF Write, SyncReviewees, RosterInv, HistoryTyped
  <2> QED
    BY <1>6, <2>1 DEF Grows, HistoryTyped, RosterInv
<1>8. RowsAnswered(after, answered', stale') /\ RowsApart(after, shared')
  <2>1. RowsAnswered(roster[k], answered', stale') /\ RowsApart(roster[k], shared')
    BY <1>1, <1>7, Grown
  <2>2. /\ \A i \in DOMAIN roster[k] \ {id} : after[i] = roster[k][i] /\ roster[k][i].address # after[id].address
        /\ after[id].account # None =>
             /\ \A i \in DOMAIN roster[k] \ {id} : roster[k][i].account # after[id].account
             /\ after[id].account \in answered'[after[id].address]
    <3>1. after[id].address = a /\ after[id].account = AccountOf(outcome)
      BY <1>5 DEF NewRow
    <3>2. AccountOf(outcome) # None => \A i \in DOMAIN roster[k] : roster[k][i].account # AccountOf(outcome)
      <4>1. 0 \notin DOMAIN roster[k]
        BY <1>1, RowsAre DEF Ids
      <4> QED
        BY <4>1 DEF AccountHolder
    <3> QED
      BY <1>5, <1>6, <3>1, <3>2
  <2>3. /\ DOMAIN after = DOMAIN rows \cup {id}
        /\ RowsAnswered(rows, answered', stale') /\ RowsApart(rows, shared')
        /\ \A i \in DOMAIN rows \ {id} : after[i] = rows[i] /\ rows[i].address # after[id].address
        /\ after[id].account # None =>
             /\ \A i \in DOMAIN rows \ {id} :
                   rows[i].account # after[id].account \/ after[id].account \in shared'
             /\ \/ after[id].account \in answered'[after[id].address]
                \/ <<after[id].address, after[id].account>> \in stale'
    BY <1>5, <2>1, <2>2 DEF rows
  <2> QED
    BY <2>3, OneRowPut
<1>9. NamesKept(k, after)
  BY <1>5 DEF NamesKept, NewRow
<1> QED
  BY <1>4, <1>7, <1>8, <1>9, CountIs DEF Lands, RosterInv
-----------------------------------------------------------------------------
(* An edit.                                                                *)
LEMMA QuietKeeps ==
  ASSUME RosterInv, RequestsTyped', RequestsHold', Grows, HistoryTyped', writes' \in 0 .. MaxWrites,
         UNCHANGED <<roster, mirrors, symmetric, unmirrored>>
  PROVE  RosterInv'
<1>1. \A k \in Kinds : RowsAnswered(roster[k], answered', stale') /\ RowsApart(roster[k], shared')
  BY Grown DEF RosterInv
<1>2. MirrorsTyped' /\ (InStep => InStep')
  BY DEF RosterInv, MirrorsTyped, InStep, Range, IsInjective
<1> QED
  BY <1>1, <1>2 DEF RosterInv, Grows

LEMMA SplitTyped ==
  ASSUME split \subseteq Addresses, NEW r \in BOOLEAN,
         split' = IF r THEN split \cup (Disagree(roster') \ Disagree(roster)) ELSE split
  PROVE  /\ split' \subseteq Addresses /\ split \subseteq split'
         /\ r => Disagree(roster') \ Disagree(roster) \subseteq split'
BY DEF Disagree

(* The edited row, from the row as it is and as it was loaded.             *)
LEMMA EditedIs ==
  ASSUME RostersAssumption, NEW was \in Row, NEW seen \in Row, NEW a \in Addresses, NEW n \in Names,
         NEW given \in Accounts \cup {None}, NEW row, row = Edited(was, seen, a, n, given)
  PROVE  /\ row \in Row
         /\ row.address = was.address \/ (a # seen.address /\ row.address = a)
         /\ row.account = was.account \/ (a # seen.address /\ row.account = given)
         /\ a # seen.address => row.address = a
         /\ was = seen => /\ row.address = a /\ row.name = n
                          /\ a = seen.address => row.account = was.account
                          /\ a # seen.address => row.account = given
BY DEF Row, Edited, Rebind

LEMMA SaveEditKeeps ==
  ASSUME RostersAssumption, RosterInv, NEW q \in Requests, NEW k \in Kinds,
         NEW a \in Addresses, NEW n \in Names, NEW outcome \in Outcome,
         SaveEdit(q, k, a, n, outcome)
  PROVE  RosterInv'
<1> DEFINE i == request[q].id
           rows == roster[k]
           seen == request[q].seen
           given == IF a = seen.address THEN None ELSE AccountOf(outcome)
           row == Edited(rows[i], seen, a, n, given)
           after == [rows EXCEPT ![i] = row]
           raced == request[q].raced
<1>1. /\ request[q] # None /\ request[q].op = "edit" /\ request[q].kind = k
      /\ a # seen.address => ~(\E j \in DOMAIN rows \ {i} : rows[j].address = a)
      /\ ~CrossTableConflict(k, a, n)
      /\ AccountHolder(rows, given, i) = {}
      /\ \/ Write(k, after)
         \/ k = "reviewers" /\ Write(k, rows)
         \/ k = "reviewees" /\ UNCHANGED <<roster, mirrors, unmirrored>>
      /\ IF a # seen.address THEN Looked([x \in {a} |-> outcome]) ELSE UNCHANGED answered
      /\ split' = IF raced THEN split \cup (Disagree(roster') \ Disagree(roster)) ELSE split
      /\ stale' = IF raced THEN stale \cup {<<row.address, row.account>>} ELSE stale
      /\ Finished(q)
      /\ symmetric' = symmetric /\ shared' = shared /\ writes' = writes
  BY DEF SaveEdit, EmailTaken, IdentifierTaken, Write, Kinds
<1>2. /\ request[q] \in Edits /\ seen \in Row /\ raced \in BOOLEAN
      /\ EditHolds(request[q], roster, symmetric)
  <2>1. request[q] \in RequestTypes /\ Holds(request[q], roster, symmetric, answered)
    BY <1>1 DEF RosterInv, RequestsTyped, RequestsHold
  <2>2. request[q] \in Edits
    BY <1>1, <2>1, RequestKinds
  <2> QED
    BY <1>1, <2>1, <2>2 DEF Edits, Holds
<1>3. /\ i \in DOMAIN rows /\ (k = "reviewees" => ~symmetric)
      /\ ~raced => rows[i] = seen
  BY <1>1, <1>2 DEF EditHolds
<1>4. /\ rows \in RosterRows /\ DOMAIN rows \in SUBSET Ids /\ rows \in [DOMAIN rows -> Row]
      /\ RowsAnswered(rows, answered, stale) /\ RowsApart(rows, shared)
  BY RowsAre DEF RosterInv
<1>5. given \in Accounts \cup {None}
  BY DEF AccountOf, Outcome
<1>6. /\ row \in Row
      /\ row.address = rows[i].address \/ (a # seen.address /\ row.address = a)
      /\ row.account = rows[i].account \/ (a # seen.address /\ row.account = given)
      /\ a # seen.address => row.address = a
      /\ rows[i] = seen => /\ row.address = a /\ row.name = n
                           /\ a = seen.address => row.account = rows[i].account
                           /\ a # seen.address => row.account = given
  <2> HIDE DEF given, seen, rows, i
  <2>1. rows[i] \in Row
    BY <1>3, <1>4
  <2> QED
    BY <1>2, <1>5, <2>1, EditedIs
<1>7. /\ answered' \in [Addresses -> SUBSET Accounts] /\ Learned
      /\ a # seen.address /\ given # None => given \in answered'[a]
  <2>1. CASE a # seen.address
    <3> DEFINE answers == [x \in {a} |-> outcome]
    <3>1. /\ DOMAIN answers = {a} /\ answers[a] = outcome /\ Looked(answers)
          /\ answered \in [Addresses -> SUBSET Accounts]
      BY <1>1, <2>1 DEF RosterInv, HistoryTyped
    <3> HIDE DEF answers
    <3>2. answered' \in [Addresses -> SUBSET Accounts] /\ Learned /\ Given(answers, answered')
      BY <3>1, LookedIs
    <3> QED
      BY <2>1, <3>1, <3>2 DEF Given
  <2>2. CASE a = seen.address
    BY <1>1, <2>2 DEF RosterInv, HistoryTyped, Learned
  <2> QED
    BY <2>1, <2>2
<1> HIDE DEF row, given, seen, i, rows, raced
<1>8. Grows /\ HistoryTyped'
  <2>1. unmirrored' \in BOOLEAN
    BY <1>1 DEF Write, SyncReviewees, RosterInv, HistoryTyped
  <2>2. split' \subseteq Addresses /\ split \subseteq split'
    BY <1>1, <1>2, SplitTyped DEF RosterInv, HistoryTyped
  <2>3. stale' \subseteq Addresses \X (Accounts \cup {None}) /\ stale \subseteq stale'
    BY <1>1, <1>6 DEF RosterInv, HistoryTyped, Row
  <2> QED
    BY <1>1, <1>7, <2>1, <2>2, <2>3 DEF Grows, HistoryTyped, RosterInv
<1>9. symmetric \/ NamesKept(k, after) \/ Disagree(roster') \ Disagree(roster) \subseteq split'
  <2>1. CASE raced
    BY <1>1, <1>2, <2>1, SplitTyped DEF RosterInv, HistoryTyped
  <2>2. CASE ~raced
    <3>1. \A j \in DOMAIN after : after[j] = rows[j] \/ (after[j].address = a /\ after[j].name = n)
      <4>1. row.address = a /\ row.name = n /\ i \in DOMAIN rows
        BY <1>3, <1>6, <2>2
      <4> QED
        BY <4>1
    <3>2. DOMAIN after = DOMAIN rows
      OBVIOUS
    <3> QED
      BY <1>1, <3>1, <3>2 DEF NamesKept, rows
  <2> QED
    BY <2>1, <2>2
<1>10. RowsAnswered(rows, answered', stale') /\ RowsApart(rows, shared')
  BY <1>4, <1>8, Grown
<1>11. RowsAnswered(after, answered', stale') /\ RowsApart(after, shared')
  <2>1. /\ DOMAIN after = DOMAIN rows \cup {i} /\ after[i] = row
        /\ \A j \in DOMAIN rows \ {i} : after[j] = rows[j]
    BY <1>3
  <2>2. \A j \in DOMAIN rows \ {i} : rows[j].address # row.address
    BY <1>1, <1>3, <1>4, <1>6 DEF RowsApart
  <2>3. row.account # None =>
          \A j \in DOMAIN rows \ {i} : rows[j].account # row.account \/ row.account \in shared'
    <3>1. CASE row.account = rows[i].account
      BY <1>3, <1>10, <3>1 DEF RowsApart
    <3>2. CASE row.account # rows[i].account
      BY <1>1, <1>6, <3>2 DEF AccountHolder
    <3> QED
      BY <3>1, <3>2
  <2>4. row.account # None => \/ row.account \in answered'[row.address]
                              \/ <<row.address, row.account>> \in stale'
    <3>1. CASE raced
      BY <1>1, <3>1
    <3>2. CASE ~raced
      <4>1. rows[i] = seen /\ i \in DOMAIN rows /\ row.address = a
        BY <1>3, <1>6, <3>2
      <4>2. CASE a = seen.address
        <5>1. row.account = rows[i].account /\ row.address = rows[i].address
          BY <1>6, <4>1, <4>2
        <5> QED
          BY <1>10, <4>1, <5>1 DEF RowsAnswered
      <4>3. CASE a # seen.address
        BY <1>6, <1>7, <4>1, <4>3
      <4> QED
        BY <4>2, <4>3
    <3> QED
      BY <3>1, <3>2
  <2> HIDE DEF after
  <2>5. /\ \A j \in DOMAIN rows \ {i} : after[j] = rows[j] /\ rows[j].address # after[i].address
        /\ after[i].account # None =>
             /\ \A j \in DOMAIN rows \ {i} :
                   rows[j].account # after[i].account \/ after[i].account \in shared'
             /\ \/ after[i].account \in answered'[after[i].address]
                \/ <<after[i].address, after[i].account>> \in stale'
    BY <2>1, <2>2, <2>3, <2>4
  <2> QED
    BY <1>10, <2>1, <2>5, OneRowPut
<1>12. after \in RosterRows
  <2>1. DOMAIN after = DOMAIN rows /\ after \in [DOMAIN rows -> Row]
    BY <1>3, <1>4, <1>6
  <2> HIDE DEF after
  <2> QED
    BY <1>4, <2>1, RowsAre
<1>13. CASE Write(k, after)
  <2> HIDE DEF after
  <2>1. Lands(k, after)
    BY <1>1, <1>3, <1>8, <1>9, <1>11, <1>12, <1>13 DEF Lands, RosterInv
  <2> QED
    BY <2>1, LandingKeeps
<1>14. CASE k = "reviewers" /\ Write(k, rows)
  <2>1. NamesKept(k, rows)
    BY DEF NamesKept, rows
  <2>2. Lands(k, rows)
    BY <1>1, <1>3, <1>4, <1>8, <1>10, <1>14, <2>1 DEF Lands, RosterInv
  <2> QED
    BY <2>2, LandingKeeps
<1>15. CASE UNCHANGED <<roster, mirrors, unmirrored>>
  <2>1. RequestsTyped' /\ RequestsHold'
    BY <1>1, <1>8, WritingKeepsRequests DEF RosterInv, Grows
  <2> QED
    BY <1>1, <1>8, <1>15, <2>1, QuietKeeps DEF RosterInv
<1> QED
  BY <1>1, <1>13, <1>14, <1>15
-----------------------------------------------------------------------------
(* Deletes.                                                                *)
LEMMA NoRows == << >> \in RosterRows /\ DOMAIN << >> = {}
<1>1. DOMAIN << >> = {} /\ << >> \in [{} -> Row]
  OBVIOUS
<1> QED
  BY <1>1, RowsAre

LEMMA FewerRows ==
  ASSUME RostersAssumption, RosterInv, NEW k \in Kinds, NEW rows,
         DOMAIN rows \subseteq DOMAIN roster[k], rows \in [DOMAIN rows -> Row],
         \A i \in DOMAIN rows : rows[i] = roster[k][i], Write(k, rows),
         k = "reviewees" => ~symmetric, writes' \in 0 .. MaxWrites,
         UNCHANGED <<symmetric, answered, shared, split, stale>>,
         OthersRaced \/ \E q \in Requests : Finished(q)
  PROVE  Lands(k, rows)
<1>1. /\ roster[k] \in RosterRows
      /\ RowsAnswered(roster[k], answered, stale) /\ RowsApart(roster[k], shared)
  BY DEF RosterInv
<1>2. rows \in RosterRows
  BY <1>1, RowsAre
<1>3. Grows /\ HistoryTyped'
  BY DEF Grows, Learned, HistoryTyped, RosterInv, Write, SyncReviewees
<1>4. RowsAnswered(rows, answered', stale') /\ RowsApart(rows, shared')
  BY <1>1 DEF RowsAnswered, RowsApart
<1>5. NamesKept(k, rows)
  BY DEF NamesKept
<1> QED
  BY <1>2, <1>3, <1>4, <1>5 DEF Lands, RosterInv

LEMMA BulkDeleteKeeps ==
  ASSUME RostersAssumption, RosterInv, NEW k \in Kinds, NEW ids, BulkDelete(k, ids)
  PROVE  RosterInv'
<1> DEFINE rows == Restrict(roster[k], DOMAIN roster[k] \ ids)
<1>1. roster[k] \in [DOMAIN roster[k] -> Row]
  BY RowsAre DEF RosterInv
<1>2. /\ DOMAIN rows \subseteq DOMAIN roster[k] /\ rows \in [DOMAIN rows -> Row]
      /\ \A i \in DOMAIN rows : rows[i] = roster[k][i]
  BY <1>1 DEF Restrict
<1>3. /\ Write(k, rows) /\ (k = "reviewees" => ~symmetric) /\ Count /\ OthersRaced
      /\ UNCHANGED <<symmetric, answered, shared, split, stale>>
  BY DEF BulkDelete
<1> HIDE DEF rows
<1>4. Lands(k, rows)
  BY <1>2, <1>3, FewerRows, CountIs DEF RosterInv
<1> QED
  BY <1>4, LandingKeeps

LEMMA DeleteAllReviewersKeeps ==
  ASSUME RostersAssumption, RosterInv, DeleteAllReviewers
  PROVE  RosterInv'
<1> DEFINE rows == << >>
<1>1. /\ Write("reviewers", rows) /\ Count /\ OthersRaced
      /\ UNCHANGED <<symmetric, answered, shared, split, stale>>
  BY DEF DeleteAllReviewers
<1>2. rows \in [DOMAIN rows -> Row] /\ DOMAIN rows = {}
  BY NoRows, RowsAre
<1> HIDE DEF rows
<1>3. Lands("reviewers", rows)
  BY <1>1, <1>2, FewerRows, CountIs DEF RosterInv, Kinds
<1> QED
  BY <1>3, LandingKeeps

(* The service empties the Reviewees without a look at the flag.           *)
LEMMA DeleteAllRevieweesKeeps ==
  ASSUME RostersAssumption, RosterInv, NEW q \in Requests, DeleteAllReviewees(q)
  PROVE  RosterInv'
<1>1. /\ request[q] # None /\ request[q].op = "delete_all"
      /\ roster' = [roster EXCEPT !["reviewees"] = << >>] /\ mirrors' = << >>
      /\ unmirrored' = (symmetric /\ request[q].raced) /\ Finished(q)
      /\ UNCHANGED <<symmetric, answered, shared, split, stale, writes>>
  BY DEF DeleteAllReviewees
<1>2. request[q] \in Deletions /\ DeletionHolds(request[q], symmetric)
  <2>1. request[q] \in RequestTypes /\ Holds(request[q], roster, symmetric, answered)
    BY <1>1 DEF RosterInv, RequestsTyped, RequestsHold
  <2> QED
    BY <1>1, <2>1, RequestKinds DEF Holds
<1>3. symmetric => unmirrored'
  BY <1>1, <1>2 DEF DeletionHolds, Deletions
<1>4. roster' \in [Kinds -> RosterRows] /\ DOMAIN roster'["reviewees"] = {}
  BY <1>1, NoRows DEF RosterInv, Kinds
<1>5. MirrorsTyped' /\ DOMAIN mirrors' = {}
  <2>1. DOMAIN mirrors' = {} /\ mirrors' \in [{} -> Ids]
    BY <1>1
  <2> QED
    BY <2>1, MirrorsAre DEF MirrorsTyped
<1>6. Grows /\ HistoryTyped'
  BY <1>1 DEF Grows, Learned, HistoryTyped, RosterInv
<1>7. RequestsTyped' /\ RequestsHold'
  BY <1>1, <1>6, WritingKeepsRequests DEF Grows, RosterInv
<1>8. \A k \in Kinds : RowsAnswered(roster'[k], answered', stale') /\ RowsApart(roster'[k], shared')
  <2>1. \A k \in Kinds : DOMAIN roster'[k] = {} \/ roster'[k] = roster[k]
    BY <1>1, <1>4 DEF RosterInv
  <2> QED
    BY <1>1, <2>1 DEF RowsAnswered, RowsApart, RosterInv
<1>9. Disagree(roster') = {}
  BY <1>4 DEF Disagree
<1> QED
  BY <1>1, <1>3, <1>4, <1>5, <1>6, <1>7, <1>8, <1>9 DEF RosterInv
-----------------------------------------------------------------------------
(* The switches, and the requests that begin or give up.                   *)
LEMMA TurnSymmetricOnKeeps ==
  ASSUME RostersAssumption, RosterInv, TurnSymmetricOn
  PROVE  RosterInv'
<1>1. /\ writes' \in 0 .. MaxWrites /\ ~symmetric /\ symmetric' = TRUE /\ OthersRaced
      /\ \A k \in Kinds : DOMAIN roster[k] = {}
      /\ roster' = roster /\ mirrors' = mirrors /\ UNCHANGED <<answered, shared, split, stale, unmirrored>>
  BY CountIs DEF TurnSymmetricOn, RosterInv, history
<1>2. Grows /\ HistoryTyped' /\ MirrorsTyped'
  BY <1>1 DEF Grows, Learned, HistoryTyped, MirrorsTyped, RosterInv
<1>3. RequestsTyped' /\ RequestsHold'
  BY <1>1, <1>2, WritingKeepsRequests DEF Grows, RosterInv
<1>4. InStep'
  BY <1>1 DEF InStep, Range, IsInjective, RosterInv, Kinds
<1>5. \A k \in Kinds : RowsAnswered(roster'[k], answered', stale') /\ RowsApart(roster'[k], shared')
  BY <1>1 DEF RowsAnswered, RowsApart
<1>6. Disagree(roster') \subseteq split'
  BY <1>1 DEF RosterInv
<1> QED
  BY <1>1, <1>2, <1>3, <1>4, <1>5, <1>6 DEF RosterInv

LEMMA TurnSymmetricOffKeeps ==
  ASSUME RostersAssumption, RosterInv, TurnSymmetricOff
  PROVE  RosterInv'
<1>1. /\ writes' \in 0 .. MaxWrites /\ symmetric' = FALSE /\ OthersRaced
      /\ roster' = roster /\ mirrors' = << >> /\ unmirrored' = FALSE
      /\ UNCHANGED <<answered, shared, split, stale>>
  BY CountIs DEF TurnSymmetricOff, RosterInv
<1>2. DOMAIN mirrors' = {} /\ mirrors' \in [{} -> Ids]
  BY <1>1
<1>3. MirrorsTyped'
  BY <1>2, MirrorsAre DEF MirrorsTyped
<1>4. Grows /\ HistoryTyped'
  BY <1>1 DEF Grows, Learned, HistoryTyped, RosterInv
<1>5. RequestsTyped' /\ RequestsHold'
  BY <1>1, <1>4, WritingKeepsRequests DEF Grows, RosterInv
<1>6. \A k \in Kinds : RowsAnswered(roster'[k], answered', stale') /\ RowsApart(roster'[k], shared')
  BY <1>1 DEF RowsAnswered, RowsApart, RosterInv
<1>7. Disagree(roster') \subseteq split'
  BY <1>1 DEF RosterInv
<1> QED
  BY <1>1, <1>2, <1>3, <1>4, <1>5, <1>6, <1>7 DEF RosterInv

LEMMA HoldsMore ==
  ASSUME NEW r, r = None \/ r \in RequestTypes, NEW rosters, NEW mirrored, NEW known, NEW known2,
         Holds(r, rosters, mirrored, known), \A a \in Addresses : known[a] \subseteq known2[a]
  PROVE  Holds(r, rosters, mirrored, known2)
<1> SUFFICES ASSUME r # None, r \in RequestTypes PROVE Holds(r, rosters, mirrored, known2)
  BY DEF Holds
<1>1. ASSUME r.op \in Modes \/ r.op = "recheck", Given(r.answers, known) PROVE Given(r.answers, known2)
  <2>1. DOMAIN r.answers \subseteq Addresses
    <3>1. CASE r.op = "recheck"
      BY <3>1, RequestKinds
    <3>2. CASE r.op \in Modes
      <4>1. r.file \in Files /\ DOMAIN r.answers = DOMAIN r.file
        BY <3>2, RequestKinds DEF Lookups
      <4>2. DOMAIN r.file \subseteq Addresses
        BY <4>1 DEF Files
      <4> QED
        BY <4>1, <4>2
    <3> QED
      BY <1>1, <3>1, <3>2
  <2> QED
    BY <1>1, <2>1 DEF Given
<1> QED
  BY <1>1 DEF Holds, UploadHolds

LEMMA BegunKeeps ==
  ASSUME RosterInv, UNCHANGED <<state, shared, split, stale, unmirrored>>,
         answered' \in [Addresses -> SUBSET Accounts], Learned, writes' \in 0 .. MaxWrites,
         NEW q \in Requests, NEW r, request' = [request EXCEPT ![q] = r],
         r = None \/ r \in RequestTypes, Holds(r, roster, symmetric, answered')
  PROVE  RosterInv'
<1>1. UNCHANGED <<roster, mirrors, symmetric, unmirrored>> /\ Grows /\ HistoryTyped'
  BY DEF state, Grows, HistoryTyped, RosterInv
<1>2. RequestsTyped'
  BY DEF RequestsTyped, RosterInv
<1>3. RequestsHold'
  <2> SUFFICES ASSUME NEW p \in Requests
               PROVE  Holds(request'[p], roster', symmetric', answered')
    BY DEF RequestsHold
  <2>1. CASE p = q
    BY <1>1, <2>1 DEF RosterInv, RequestsTyped
  <2>2. CASE p # q
    <3>1. /\ request'[p] = request[p] /\ (request[p] = None \/ request[p] \in RequestTypes)
          /\ Holds(request[p], roster, symmetric, answered)
      BY <2>2 DEF RosterInv, RequestsTyped, RequestsHold
    <3>2. Holds(request[p], roster, symmetric, answered')
      BY <3>1, HoldsMore DEF Learned
    <3> QED
      BY <1>1, <3>1, <3>2
  <2> QED
    BY <2>1, <2>2
<1> QED
  BY <1>1, <1>2, <1>3, QuietKeeps

LEMMA DropRequestKeeps ==
  ASSUME RosterInv, NEW q \in Requests, DropRequest(q)
  PROVE  RosterInv'
<1>1. Holds(None, roster, symmetric, answered')
  BY DEF Holds
<1>2. /\ UNCHANGED <<state, shared, split, stale, unmirrored>> /\ writes' \in 0 .. MaxWrites
      /\ answered' \in [Addresses -> SUBSET Accounts] /\ Learned
      /\ request' = [request EXCEPT ![q] = None]
  BY DEF DropRequest, history, RosterInv, HistoryTyped, Learned
<1> QED
  BY <1>1, <1>2, BegunKeeps

LEMMA BeginEditKeeps ==
  ASSUME RostersAssumption, RosterInv, NEW q \in Requests, NEW k \in Kinds, NEW i \in Ids, BeginEdit(q, k, i)
  PROVE  RosterInv'
<1> DEFINE r == [op |-> "edit", kind |-> k, id |-> i, seen |-> roster[k][i], raced |-> FALSE]
<1>1. /\ UNCHANGED <<state, shared, split, stale, unmirrored>> /\ writes' \in 0 .. MaxWrites
      /\ answered' \in [Addresses -> SUBSET Accounts] /\ Learned
      /\ request' = [request EXCEPT ![q] = r] /\ i \in DOMAIN roster[k] /\ (k = "reviewees" => ~symmetric)
  BY CountIs DEF BeginEdit, Begun, history, RosterInv, HistoryTyped, Learned
<1>2. roster[k][i] \in Row
  BY <1>1, RowsAre DEF RosterInv
<1>3. r \in RequestTypes
  BY <1>2 DEF RequestTypes, Edits
<1>4. Holds(r, roster, symmetric, answered')
  BY <1>1 DEF Holds, EditHolds, Modes
<1> HIDE DEF r
<1> QED
  BY <1>1, <1>3, <1>4, BegunKeeps

LEMMA BeginDeleteAllRevieweesKeeps ==
  ASSUME RostersAssumption, RosterInv, NEW q \in Requests, BeginDeleteAllReviewees(q)
  PROVE  RosterInv'
<1> DEFINE r == [op |-> "delete_all", raced |-> FALSE]
<1>1. /\ UNCHANGED <<state, shared, split, stale, unmirrored>> /\ writes' \in 0 .. MaxWrites
      /\ answered' \in [Addresses -> SUBSET Accounts] /\ Learned
      /\ request' = [request EXCEPT ![q] = r] /\ ~symmetric
  BY CountIs DEF BeginDeleteAllReviewees, Begun, history, RosterInv, HistoryTyped, Learned
<1>2. r \in RequestTypes
  BY DEF RequestTypes, Deletions
<1>3. Holds(r, roster, symmetric, answered')
  BY <1>1 DEF Holds, DeletionHolds, Modes
<1> HIDE DEF r
<1> QED
  BY <1>1, <1>2, <1>3, BegunKeeps

LEMMA NoConflicts ==
  ASSUME NEW k \in Kinds, NEW file, FileConflicts(k, file) = {}
  PROVE  FileAgrees(k, file, roster, symmetric)
BY DEF FileConflicts, FileAgrees, CrossTableConflict, WithMirrors

LEMMA BeginUploadKeeps ==
  ASSUME RostersAssumption, RosterInv, NEW q \in Requests, NEW k \in Kinds, NEW mode \in Modes,
         NEW file \in Files, NEW answers \in Lookups(DOMAIN file), BeginUpload(q, k, mode, file, answers)
  PROVE  RosterInv'
<1> DEFINE r == [op |-> mode, kind |-> k, file |-> file, answers |-> answers, raced |-> FALSE]
<1>1. /\ UNCHANGED <<state, shared, split, stale, unmirrored>> /\ writes' \in 0 .. MaxWrites
      /\ Looked(answers) /\ request' = [request EXCEPT ![q] = r]
      /\ Cardinality(DOMAIN file) <= MaxRows /\ FileConflicts(k, file) = {}
  BY CountIs DEF BeginUpload, Begun, RosterInv
<1>2. /\ DOMAIN answers \subseteq Addresses
      /\ \A a \in DOMAIN answers : answers[a] \in Outcome
  BY DEF Lookups, Files
<1>3. /\ answered' \in [Addresses -> SUBSET Accounts] /\ Learned /\ Given(answers, answered')
  BY <1>1, <1>2, LookedIs DEF RosterInv, HistoryTyped
<1>4. r \in RequestTypes
  <2>1. r \in [op : Modes, kind : Kinds, file : {file}, answers : Lookups(DOMAIN file), raced : BOOLEAN]
    OBVIOUS
  <2>2. r \in Uploads
    BY <2>1 DEF Uploads
  <2> QED
    BY <2>2 DEF RequestTypes
<1>5. Holds(r, roster, symmetric, answered')
  <2>1. FileAgrees(k, file, roster, symmetric)
    BY <1>1, NoConflicts
  <2> QED
    BY <1>1, <1>3, <2>1 DEF Holds, UploadHolds, Modes
<1> HIDE DEF r
<1> QED
  BY <1>1, <1>3, <1>4, <1>5, BegunKeeps

LEMMA BeginRecheckKeeps ==
  ASSUME RostersAssumption, RosterInv, NEW q \in Requests, NEW k \in Kinds, NEW as \in SUBSET Addresses,
         NEW answers \in Lookups(as), BeginRecheck(q, k, answers)
  PROVE  RosterInv'
<1> DEFINE r == [op |-> "recheck", kind |-> k, answers |-> answers, raced |-> FALSE]
<1>1. /\ UNCHANGED <<state, shared, split, stale, unmirrored>> /\ writes' \in 0 .. MaxWrites
      /\ Looked(answers) /\ request' = [request EXCEPT ![q] = r]
  BY CountIs DEF BeginRecheck, Begun, RosterInv
<1>2. /\ DOMAIN answers \subseteq Addresses
      /\ \A a \in DOMAIN answers : answers[a] \in Outcome
  BY DEF Lookups
<1>3. /\ answered' \in [Addresses -> SUBSET Accounts] /\ Learned /\ Given(answers, answered')
  BY <1>1, <1>2, LookedIs DEF RosterInv, HistoryTyped
<1>4. r \in RequestTypes
  <2>1. r \in [op : {"recheck"}, kind : Kinds, answers : Lookups(as), raced : BOOLEAN]
    OBVIOUS
  <2>2. r \in Rechecks
    BY <2>1 DEF Rechecks
  <2> QED
    BY <2>2 DEF RequestTypes
<1>5. Holds(r, roster, symmetric, answered')
  BY <1>3 DEF Holds, Modes
<1> HIDE DEF r
<1> QED
  BY <1>1, <1>3, <1>4, <1>5, BegunKeeps
-----------------------------------------------------------------------------
(* Uploads.  The rows of a file get ids of their own.                      *)
LEMMA NumberedIs ==
  ASSUME RostersAssumption, NEW as, IsFiniteSet(as), NEW base \in SUBSET Ids,
         Cardinality(as) <= MaxRows - Cardinality(base), NEW at, at = Numbered(as, base)
  PROVE  at \in [as -> Ids \ base] /\ \A a, b \in as : a # b => at[a] # at[b]
<1> DEFINE free == Ids \ base
<1>1. free \in SUBSET Ids /\ Cardinality(free) = MaxRows - Cardinality(base)
  <2>1. Ids \cap base = base /\ Ids \in SUBSET Ids
    OBVIOUS
  <2>2. Cardinality(Ids) = MaxRows
    BY FS_Interval DEF Ids, RostersAssumption
  <2> QED
    BY <2>1, <2>2, SomeIds, FS_Difference
<1>2. PICK h \in Bijection(1 .. Cardinality(free), free) : TRUE
  BY <1>1, SomeIds, FS_CardinalityType DEF ExistsBijection
<1>3. PICK g \in Bijection(as, 1 .. Cardinality(as)) : TRUE
  <2>1. PICK f \in Bijection(1 .. Cardinality(as), as) : TRUE
    BY FS_CardinalityType DEF ExistsBijection
  <2>2. Inverse(f, 1 .. Cardinality(as), as) \in Bijection(as, 1 .. Cardinality(as))
    BY <2>1, Fun_BijInverse
  <2> QED
    BY <2>2
<1> DEFINE f == [a \in as |-> h[g[a]]]
<1>4. \A a \in as : g[a] \in 1 .. Cardinality(free)
  <2>1. \A a \in as : g[a] \in 1 .. Cardinality(as)
    BY <1>3 DEF Bijection, Injection
  <2>2. Cardinality(as) \in Nat /\ Cardinality(free) \in Nat /\ Cardinality(as) <= Cardinality(free)
    BY <1>1, SomeIds, FS_CardinalityType
  <2> HIDE DEF free
  <2>3. ASSUME NEW n \in Nat, NEW m \in Nat, n <= m PROVE \A i \in 1 .. n : i \in 1 .. m
    BY <2>3
  <2>4. \A i \in 1 .. Cardinality(as) : i \in 1 .. Cardinality(free)
    BY <2>2, <2>3
  <2> QED
    BY <2>1, <2>4
<1>5. f \in [as -> free]
  BY <1>2, <1>4 DEF Bijection, Injection
<1>6. \A a, b \in as : a # b => f[a] # f[b]
  BY <1>2, <1>3, <1>4 DEF Bijection, Injection, IsInjective
<1> HIDE DEF f
<1> QED
  BY <1>5, <1>6 DEF Numbered

(* The rows a file's addresses `as` get, outside the ids of `base`.         *)
Filed(q, as, base, accounts, new) ==
  /\ DOMAIN new \subseteq Ids \ base /\ new \in [DOMAIN new -> Row]
  /\ \A i \in DOMAIN new : \E a \in as : new[i] = NewRow(a, request[q].file[a], accounts[a])
  /\ \A i, j \in DOMAIN new : i # j => new[i].address # new[j].address

LEMMA FileRowsAre ==
  ASSUME RostersAssumption, NEW q, NEW as, IsFiniteSet(as), NEW base \in SUBSET Ids,
         Cardinality(as) <= MaxRows - Cardinality(base), NEW accounts,
         NEW new, new = FileRows(q, as, base, accounts),
         \A a \in as : NewRow(a, request[q].file[a], accounts[a]) \in Row
  PROVE  Filed(q, as, base, accounts, new)
<1> DEFINE at == Numbered(as, base)
           of(i) == CHOOSE b \in as : at[b] = i
           row(a) == NewRow(a, request[q].file[a], accounts[a])
<1>1. new = [i \in {at[a] : a \in as} |-> row(of(i))]
  BY DEF FileRows
<1> HIDE DEF at
<1>2. at \in [as -> Ids \ base] /\ \A a, b \in as : a # b => at[a] # at[b]
  BY NumberedIs DEF at
<1>3. \A i \in {at[a] : a \in as} : of(i) \in as /\ at[of(i)] = i
  OBVIOUS
<1> HIDE DEF of
<1>4. \A a \in as : row(a) \in Row /\ row(a).address = a
  BY DEF NewRow
<1>5. DOMAIN new = {at[a] : a \in as} /\ \A i \in DOMAIN new : new[i] = row(of(i))
  BY <1>1
<1>6. DOMAIN new \subseteq Ids \ base
  BY <1>2, <1>5
<1>7. new \in [DOMAIN new -> Row]
  BY <1>1, <1>3, <1>4
<1>8. \A i \in DOMAIN new : \E a \in as : new[i] = row(a)
  BY <1>3, <1>5
<1>9. \A i, j \in DOMAIN new : i # j => new[i].address # new[j].address
  <2>1. \A i \in DOMAIN new : new[i].address = of(i) /\ at[of(i)] = i
    <3> HIDE DEF row
    <3> QED
      BY <1>3, <1>4, <1>5
  <2>2. ASSUME NEW i \in DOMAIN new, NEW j \in DOMAIN new, new[i].address = new[j].address
        PROVE  i = j
    <3>1. of(i) = of(j)
      BY <2>1, <2>2
    <3> QED
      BY <2>1, <3>1
  <2> QED
    BY <2>2
<1> QED
  BY <1>6, <1>7, <1>8, <1>9 DEF Filed

(* What an upload that saves goes by.                                      *)
Uploaded(q, k) ==
  /\ IsFiniteSet(DOMAIN request[q].file) /\ Cardinality(DOMAIN request[q].file) <= MaxRows
  /\ \A a \in DOMAIN request[q].file :
       /\ a \in Addresses /\ request[q].file[a] \in Names
       /\ Answer(q, a) \in Accounts \cup {None}
       /\ Answer(q, a) # None => Answer(q, a) \in answered[a]
       /\ request[q].raced \/ ~CrossTableConflict(k, a, request[q].file[a])
  /\ request[q].raced \in BOOLEAN

LEMMA UploadedIs ==
  ASSUME RosterInv, NEW q \in Requests, NEW k \in Kinds,
         request[q] # None, request[q].op \in Modes, request[q].kind = k
  PROVE  Uploaded(q, k)
<1> DEFINE r == request[q]
<1>1. r \in RequestTypes /\ Holds(r, roster, symmetric, answered)
  BY DEF RosterInv, RequestsTyped, RequestsHold
<1>2. /\ r.file \in Files /\ r.answers \in Lookups(DOMAIN r.file) /\ r.raced \in BOOLEAN
      /\ UploadHolds(r, roster, symmetric, answered)
  <2>1. r.op \in Modes /\ r # None
    OBVIOUS
  <2> HIDE DEF r
  <2> QED
    BY <1>1, <2>1, RequestKinds DEF Holds
<1>3. /\ IsFiniteSet(DOMAIN r.file) /\ DOMAIN r.file \subseteq Addresses
      /\ \A a \in DOMAIN r.file : r.file[a] \in Names
  BY <1>2 DEF Files
<1>4. DOMAIN r.answers = DOMAIN r.file /\ \A a \in DOMAIN r.file : r.answers[a] \in Outcome
  BY <1>2 DEF Lookups
<1>5. \A a \in DOMAIN r.file : /\ Answer(q, a) \in Accounts \cup {None}
                               /\ Answer(q, a) # None => Answer(q, a) \in answered[a]
  BY <1>2, <1>4 DEF Answer, AccountOf, Outcome, UploadHolds, Given
<1>6. \A a \in DOMAIN r.file : r.raced \/ ~CrossTableConflict(k, a, r.file[a])
  BY <1>2 DEF UploadHolds, FileAgrees, CrossTableConflict, WithMirrors
<1> QED
  BY <1>2, <1>3, <1>5, <1>6 DEF Uploaded, UploadHolds

LEMMA SavedLands ==
  ASSUME RostersAssumption, RosterInv, NEW q \in Requests, NEW k \in Kinds,
         NEW rows \in RosterRows, Write(k, rows), Saved(q, k), shared \subseteq shared',
         shared' \subseteq Accounts,
         RowsAnswered(rows, answered, stale), RowsApart(rows, shared'),
         request[q].raced \/ NamesKept(k, rows)
  PROVE  Lands(k, rows)
<1>1. /\ request[q] # None /\ request[q].op \in Modes /\ request[q].kind = k
      /\ k = "reviewees" => ~symmetric
      /\ split' = IF request[q].raced THEN split \cup (Disagree(roster') \ Disagree(roster)) ELSE split
      /\ Finished(q) /\ UNCHANGED <<symmetric, answered, stale, writes>>
  BY DEF Saved
<1>2. request[q].raced \in BOOLEAN
  BY <1>1, UploadedIs DEF Uploaded
<1>3. /\ split' \subseteq Addresses /\ split \subseteq split'
      /\ request[q].raced => Disagree(roster') \ Disagree(roster) \subseteq split'
  BY <1>1, <1>2, SplitTyped DEF RosterInv, HistoryTyped
<1>4. unmirrored' \in BOOLEAN
  BY DEF Write, SyncReviewees, RosterInv, HistoryTyped
<1>5. Grows /\ HistoryTyped'
  BY <1>1, <1>3, <1>4 DEF Grows, Learned, HistoryTyped, RosterInv
<1> QED
  BY <1>1, <1>3, <1>5 DEF Lands, RosterInv
(* A replace.  An account is on two new rows when the file was answered it *)
(* twice, or when both rows kept the account they shared before.           *)
LEMMA SaveReplaceKeeps ==
  ASSUME RostersAssumption, RosterInv, NEW q \in Requests, NEW k \in Kinds, SaveReplace(q, k)
  PROVE  RosterInv'
<1> DEFINE file == request[q].file
           rows == roster[k]
           accounts == [a \in DOMAIN file |->
               IF Earlier(q, rows, a) = {} THEN Answer(q, a) ELSE CHOOSE x \in Earlier(q, rows, a) : TRUE]
           new == FileRows(q, DOMAIN file, {}, accounts)
<1>1. /\ Write(k, new) /\ shared' = shared \cup GivenTwice(q) /\ Saved(q, k)
  BY DEF SaveReplace
<1>2. Uploaded(q, k)
  BY <1>1, UploadedIs DEF Saved
<1>3. /\ rows \in RosterRows /\ rows \in [DOMAIN rows -> Row]
      /\ RowsAnswered(rows, answered, stale) /\ RowsApart(rows, shared)
  BY RowsAre DEF RosterInv
<1> HIDE DEF rows
(* Whose account a new row has.                                            *)
<1>4. ASSUME NEW a \in DOMAIN file
      PROVE  \/ accounts[a] = Answer(q, a)
             \/ /\ accounts[a] # None /\ accounts[a] \notin Answers(q)
                /\ \E i \in DOMAIN rows : rows[i].address = a /\ rows[i].account = accounts[a]
  <2>1. CASE Earlier(q, rows, a) = {}
    BY <2>1
  <2>2. CASE Earlier(q, rows, a) # {}
    <3>1. accounts[a] \in Earlier(q, rows, a)
      BY <2>2
    <3> HIDE DEF accounts
    <3> QED
      BY <3>1 DEF Earlier
  <2> QED
    BY <2>1, <2>2
<1> HIDE DEF accounts
<1>5. \A a \in DOMAIN file :
        /\ accounts[a] \in Accounts \cup {None}
        /\ accounts[a] # None => accounts[a] \in answered[a] \/ <<a, accounts[a]>> \in stale
  BY <1>2, <1>3, <1>4 DEF Uploaded, Row, RowsAnswered
<1>6. \A a, b \in DOMAIN file : a # b /\ accounts[a] = accounts[b] /\ accounts[a] # None =>
        accounts[a] \in shared'
  <2> SUFFICES ASSUME NEW a \in DOMAIN file, NEW b \in DOMAIN file,
                      a # b, accounts[a] = accounts[b], accounts[a] # None
               PROVE  accounts[a] \in shared'
    OBVIOUS
  <2>1. CASE accounts[a] = Answer(q, a) /\ accounts[b] = Answer(q, b)
    BY <1>1, <1>2, <2>1 DEF GivenTwice, Uploaded
  <2>2. CASE accounts[a] # Answer(q, a) /\ accounts[b] # Answer(q, b)
    <3>1. PICK i \in DOMAIN rows : rows[i].address = a /\ rows[i].account = accounts[a]
      BY <1>4, <2>2
    <3>2. PICK j \in DOMAIN rows : rows[j].address = b /\ rows[j].account = accounts[b]
      BY <1>4, <2>2
    <3> QED
      BY <1>1, <1>3, <3>1, <3>2 DEF RowsApart
  <2>3. CASE accounts[a] = Answer(q, a) /\ accounts[b] # Answer(q, b)
    <3>1. accounts[a] \in Answers(q) /\ accounts[b] \notin Answers(q)
      BY <1>4, <2>3 DEF Answers
    <3> QED
      BY <3>1
  <2>4. CASE accounts[a] # Answer(q, a) /\ accounts[b] = Answer(q, b)
    BY <1>4, <2>4 DEF Answers
  <2> QED
    BY <2>1, <2>2, <2>3, <2>4
<1>7. \A a \in DOMAIN file : NewRow(a, file[a], accounts[a]) \in Row
  BY <1>2, <1>5 DEF Uploaded, NewRow, Row
<1>8. /\ DOMAIN new \subseteq Ids /\ new \in [DOMAIN new -> Row]
      /\ \A i \in DOMAIN new : \E a \in DOMAIN file : new[i] = NewRow(a, file[a], accounts[a])
      /\ \A i, j \in DOMAIN new : i # j => new[i].address # new[j].address
  <2> DEFINE as == DOMAIN file
             base == {}
  <2>1. /\ IsFiniteSet(as) /\ base \in SUBSET Ids /\ Cardinality(as) <= MaxRows - Cardinality(base)
        /\ new = FileRows(q, as, base, accounts)
        /\ \A a \in as : NewRow(a, request[q].file[a], accounts[a]) \in Row
    BY <1>2, <1>7, FS_EmptySet DEF Uploaded, RostersAssumption
  <2>2. \A a \in as : file[a] = request[q].file[a]
    OBVIOUS
  <2> HIDE DEF as, base, new
  <2>3. Filed(q, as, base, accounts, new)
    BY <2>1, FileRowsAre
  <2> QED
    BY <2>2, <2>3 DEF as, base, Filed
<1> HIDE DEF new
<1>9. new \in RosterRows
  BY <1>8, RowsAre
<1>10. \A i \in DOMAIN new :
         /\ new[i].address \in DOMAIN file /\ new[i].name = file[new[i].address]
         /\ new[i].account = accounts[new[i].address]
  BY <1>8 DEF NewRow
<1>11. RowsAnswered(new, answered, stale)
  BY <1>5, <1>10 DEF RowsAnswered
<1>12. RowsApart(new, shared')
  BY <1>6, <1>8, <1>10 DEF RowsApart
<1>13. request[q].raced \/ NamesKept(k, new)
  BY <1>2, <1>10 DEF Uploaded, NamesKept
<1>14. shared \subseteq shared' /\ shared' \subseteq Accounts
  BY <1>1 DEF GivenTwice, RosterInv, HistoryTyped
<1>15. Lands(k, new)
  BY <1>1, <1>9, <1>11, <1>12, <1>13, <1>14, SavedLands
<1> QED
  BY <1>15, LandingKeeps

(* Rows and the new ones beside them.                                      *)
LEMMA WithIs ==
  ASSUME NEW base, NEW new, \A i \in DOMAIN new : i \notin DOMAIN base, DOMAIN new \subseteq Ids,
         DOMAIN base \subseteq Ids, new \in [DOMAIN new -> Row], base \in [DOMAIN base -> Row],
         NEW after, after = With(base, new)
  PROVE  /\ after \in RosterRows /\ DOMAIN after = DOMAIN base \cup DOMAIN new
         /\ \A i \in DOMAIN base : after[i] = base[i]
         /\ \A i \in DOMAIN new : after[i] = new[i]
<1>1. /\ DOMAIN after = DOMAIN base \cup DOMAIN new
      /\ \A i \in DOMAIN base : after[i] = base[i]
      /\ \A i \in DOMAIN new : after[i] = new[i]
  BY DEF With
<1>2. after \in [DOMAIN after -> Row]
  BY DEF With
<1> QED
  BY <1>1, <1>2, RowsAre

(* The rows an append or a merge adds for the addresses `as` of its file.  *)
Appended(q, as, base, new) ==
  /\ DOMAIN new \subseteq Ids /\ new \in [DOMAIN new -> Row]
  /\ \A i \in DOMAIN new :
       /\ i \notin base /\ new[i].address \in as
       /\ new[i].name = request[q].file[new[i].address] /\ new[i].account = Answer(q, new[i].address)
  /\ \A i, j \in DOMAIN new : i # j => new[i].address # new[j].address

LEMMA NewRows ==
  ASSUME RostersAssumption, NEW q, NEW k, Uploaded(q, k), NEW as \in SUBSET DOMAIN request[q].file,
         NEW base \in SUBSET Ids, Cardinality(base) + Cardinality(as) <= MaxRows,
         NEW accounts, accounts = [a \in DOMAIN request[q].file |-> Answer(q, a)],
         NEW new, new = FileRows(q, as, base, accounts)
  PROVE  Appended(q, as, base, new)
<1>1. IsFiniteSet(as)
  BY FS_Subset DEF Uploaded
<1>2. Cardinality(as) <= MaxRows - Cardinality(base)
  <2>1. Cardinality(as) \in Nat /\ Cardinality(base) \in Nat
    BY <1>1, SomeIds, FS_CardinalityType
  <2>2. ASSUME NEW n \in Nat, NEW m \in Nat, NEW l \in Nat, n + m <= l PROVE m <= l - n
    BY <2>2
  <2> QED
    BY <2>1, <2>2 DEF RostersAssumption
<1>3. \A a \in as : /\ NewRow(a, request[q].file[a], accounts[a]) \in Row
                    /\ accounts[a] = Answer(q, a)
  BY DEF Uploaded, NewRow, Row
<1>4. Filed(q, as, base, accounts, new)
  BY <1>1, <1>2, <1>3, FileRowsAre
<1> QED
  <2>1. ASSUME NEW i \in DOMAIN new
        PROVE  /\ i \notin base /\ new[i].address \in as
               /\ new[i].name = request[q].file[new[i].address]
               /\ new[i].account = Answer(q, new[i].address)
    <3>1. PICK a \in as : new[i] = NewRow(a, request[q].file[a], accounts[a])
      BY <1>4 DEF Filed
    <3>2. /\ new[i].address = a /\ new[i].name = request[q].file[a]
          /\ new[i].account = accounts[a]
      BY <3>1 DEF NewRow
    <3>4. accounts[a] = Answer(q, a)
      BY <1>3
    <3>3. i \notin base
      BY <1>4 DEF Filed
    <3> QED
      BY <3>2, <3>3, <3>4
  <2>2. /\ DOMAIN new \subseteq Ids /\ new \in [DOMAIN new -> Row]
        /\ \A i, j \in DOMAIN new : i # j => new[i].address # new[j].address
    BY <1>4 DEF Filed
  <2> QED
    BY <2>1, <2>2 DEF Appended

LEMMA SaveAppendKeeps ==
  ASSUME RostersAssumption, RosterInv, NEW q \in Requests, NEW k \in Kinds, SaveAppend(q, k)
  PROVE  RosterInv'
<1> DEFINE file == request[q].file
           rows == roster[k]
           accounts == [a \in DOMAIN file |-> Answer(q, a)]
           new == FileRows(q, DOMAIN file, DOMAIN rows, accounts)
           after == With(rows, new)
<1>1. /\ AppendConflicts(q, rows) = {} /\ Cardinality(DOMAIN rows) + Cardinality(DOMAIN file) <= MaxRows
      /\ Write(k, after) /\ shared' = shared \cup GivenTwice(q) /\ Saved(q, k)
  BY DEF SaveAppend
<1>2. Uploaded(q, k)
  BY <1>1, UploadedIs DEF Saved
<1>3. /\ rows \in RosterRows /\ rows \in [DOMAIN rows -> Row] /\ DOMAIN rows \subseteq Ids
      /\ RowsAnswered(rows, answered, stale) /\ RowsApart(rows, shared)
  BY RowsAre DEF RosterInv
<1>5. Appended(q, DOMAIN file, DOMAIN rows, new)
  <2> DEFINE as == DOMAIN file
             base == DOMAIN rows
  <2>1. /\ as \in SUBSET DOMAIN request[q].file /\ base \in SUBSET Ids /\ new = FileRows(q, as, base, accounts)
        /\ Cardinality(base) + Cardinality(as) <= MaxRows
    BY <1>1, <1>3
  <2>2. accounts = [a \in DOMAIN request[q].file |-> Answer(q, a)]
    OBVIOUS
  <2> HIDE DEF as, base, new, accounts
  <2>3. Appended(q, as, base, new)
    BY <1>2, <2>1, <2>2, NewRows
  <2> QED
    BY <2>3 DEF as, base
<1> HIDE DEF new
<1>6. /\ DOMAIN new \subseteq Ids /\ new \in [DOMAIN new -> Row]
      /\ \A i \in DOMAIN new :
           /\ i \notin DOMAIN rows
           /\ new[i].address \in DOMAIN file /\ new[i].name = file[new[i].address]
           /\ new[i].account = Answer(q, new[i].address)
      /\ \A i, j \in DOMAIN new : i # j => new[i].address # new[j].address
  BY <1>5 DEF Appended
<1>7. /\ after \in RosterRows /\ DOMAIN after = DOMAIN rows \cup DOMAIN new
      /\ \A i \in DOMAIN rows : after[i] = rows[i]
      /\ \A i \in DOMAIN new : after[i] = new[i]
  <2> HIDE DEF new, rows
  <2>1. /\ \A i \in DOMAIN new : i \notin DOMAIN rows
        /\ DOMAIN new \subseteq Ids /\ DOMAIN rows \subseteq Ids
        /\ rows \in [DOMAIN rows -> Row] /\ new \in [DOMAIN new -> Row]
    BY <1>3, <1>6
  <2>2. after = With(rows, new)
    OBVIOUS
  <2> HIDE DEF after
  <2> QED
    BY <2>1, <2>2, WithIs
<1>8. \A a \in DOMAIN file :
        /\ \A i \in DOMAIN rows : rows[i].address # a
        /\ Answer(q, a) # None => \A i \in DOMAIN rows : rows[i].account # Answer(q, a)
  BY <1>1 DEF AppendConflicts, Held
<1> HIDE DEF new, after, file
<1>9. RowsAnswered(after, answered, stale)
  BY <1>2, <1>3, <1>6, <1>7 DEF RowsAnswered, Uploaded, file
<1>10. RowsApart(after, shared')
  <2> SUFFICES ASSUME NEW i \in DOMAIN after, NEW j \in DOMAIN after, i # j
               PROVE  /\ after[i].address # after[j].address
                      /\ after[i].account # None =>
                           after[i].account # after[j].account \/ after[i].account \in shared'
    BY DEF RowsApart
  <2> HIDE DEF rows
  <2>1. CASE i \in DOMAIN rows /\ j \in DOMAIN rows
    BY <1>1, <1>3, <1>7, <2>1 DEF RowsApart
  <2>2. CASE i \in DOMAIN rows /\ j \in DOMAIN new
    BY <1>6, <1>7, <1>8, <2>2
  <2>3. CASE i \in DOMAIN new /\ j \in DOMAIN rows
    BY <1>6, <1>7, <1>8, <2>3
  <2>4. CASE i \in DOMAIN new /\ j \in DOMAIN new
    <3>1. /\ new[i].address # new[j].address
          /\ new[i].address \in DOMAIN file /\ new[j].address \in DOMAIN file
          /\ new[i].account = Answer(q, new[i].address) /\ new[j].account = Answer(q, new[j].address)
      BY <1>6, <2>4
    <3>2. new[i].account \in Accounts \cup {None}
      BY <1>2, <3>1 DEF Uploaded, file
    <3> QED
      BY <1>1, <1>7, <2>4, <3>1, <3>2 DEF GivenTwice, file
  <2> QED
    BY <1>7, <2>1, <2>2, <2>3, <2>4
<1>11. request[q].raced \/ NamesKept(k, after)
  BY <1>2, <1>6, <1>7 DEF Uploaded, NamesKept, file
<1>12. shared \subseteq shared' /\ shared' \subseteq Accounts
  BY <1>1 DEF GivenTwice, RosterInv, HistoryTyped
<1>13. Lands(k, after)
  BY <1>1, <1>7, <1>9, <1>10, <1>11, <1>12, SavedLands
<1> QED
  BY <1>13, LandingKeeps
(* A merge.  A row that takes an answer had no account and was found by    *)
(* its address; nobody else has the account.                               *)
LEMMA MatchesAre ==
  ASSUME RostersAssumption, NEW q, NEW rows \in RosterRows, NEW a
  PROVE  /\ \A i \in Matches(q, rows, a) :
              /\ i \in DOMAIN rows
              /\ rows[i].address = a \/ (Answer(q, a) # None /\ rows[i].account = Answer(q, a))
              /\ \A j \in Matches(q, rows, a) : j = i
         /\ Matches(q, rows, a) = {} => \A i \in DOMAIN rows :
              /\ rows[i].address # a
              /\ Answer(q, a) # None => rows[i].account # Answer(q, a)
<1> DEFINE mine == ByAddress(rows, a)
           held == AccountHolder(rows, Answer(q, a), 0)
<1>1. /\ DOMAIN rows \in SUBSET Ids /\ mine \in SUBSET Ids /\ held \in SUBSET Ids
      /\ \A i \in mine : i \in DOMAIN rows /\ rows[i].address = a
      /\ \A i \in held : i \in DOMAIN rows /\ Answer(q, a) # None /\ rows[i].account = Answer(q, a)
      /\ \A i \in DOMAIN rows : rows[i].address = a => i \in mine
      /\ \A i \in DOMAIN rows : Answer(q, a) # None /\ rows[i].account = Answer(q, a) => i \in held
  BY RowsAre DEF ByAddress, AccountHolder, Ids
<1>2. /\ mine # {} => Matches(q, rows, a) = {Least(mine)}
      /\ mine = {} /\ held # {} => Matches(q, rows, a) = {Least(held)}
      /\ mine = {} /\ held = {} => Matches(q, rows, a) = {}
  BY DEF Matches
<1> HIDE DEF mine, held
<1>3. (mine # {} => Least(mine) \in mine) /\ (held # {} => Least(held) \in held)
  BY <1>1, SomeIds, LeastIsLeast
<1> QED
  BY <1>1, <1>2, <1>3

LEMMA SaveMergeKeeps ==
  ASSUME RostersAssumption, RosterInv, NEW q \in Requests, NEW k \in Kinds, SaveMerge(q, k)
  PROVE  RosterInv'
<1> DEFINE file == request[q].file
           rows == roster[k]
           accounts == [a \in DOMAIN file |-> Answer(q, a)]
           as == {a \in DOMAIN file : Matches(q, rows, a) = {}}
           merged(i) == {a \in DOMAIN file : i \in Matches(q, rows, a)}
           by(i) == CHOOSE b \in merged(i) : TRUE
           update(i) == [rows[i] EXCEPT !.name = file[by(i)],
                                        !.account = IF @ = None THEN Answer(q, by(i)) ELSE @]
           kept == [i \in DOMAIN rows |-> IF merged(i) = {} THEN rows[i] ELSE update(i)]
           new == FileRows(q, as, DOMAIN rows, accounts)
           after == With(kept, new)
<1>1. /\ ~MergeConflict(q, k, rows) /\ Cardinality(DOMAIN rows) + Cardinality(as) <= MaxRows
      /\ Write(k, after) /\ shared' = shared /\ Saved(q, k)
  BY DEF SaveMerge
<1>2. Uploaded(q, k)
  BY <1>1, UploadedIs DEF Saved
<1>3. /\ rows \in RosterRows /\ rows \in [DOMAIN rows -> Row] /\ DOMAIN rows \subseteq Ids
      /\ RowsAnswered(rows, answered, stale) /\ RowsApart(rows, shared)
  BY RowsAre DEF RosterInv
(* What a match is, and what the refusals leave.                           *)
<1>4. \A a \in DOMAIN file : \A i \in Matches(q, rows, a) :
        /\ i \in DOMAIN rows
        /\ rows[i].address = a \/ (Answer(q, a) # None /\ rows[i].account = Answer(q, a))
        /\ \A j \in Matches(q, rows, a) : j = i
        /\ rows[i].address = a \/ ~CrossTableConflict(k, rows[i].address, file[a])
        /\ rows[i].account = None /\ Answer(q, a) # None =>
             \A j \in DOMAIN rows : j # i => rows[j].account # Answer(q, a)
  <2>1. ASSUME NEW a \in DOMAIN file, NEW i \in Matches(q, rows, a)
        PROVE  /\ rows[i].address = a \/ ~CrossTableConflict(k, rows[i].address, file[a])
               /\ rows[i].account = None /\ Answer(q, a) # None =>
                    \A j \in DOMAIN rows : j # i => rows[j].account # Answer(q, a)
    BY <1>1, <2>1 DEF MergeConflict, AccountHolder
  <2> HIDE DEF rows
  <2> QED
    BY <1>3, <2>1, MatchesAre
<1>5. \A a \in DOMAIN file : Matches(q, rows, a) = {} => \A i \in DOMAIN rows :
        /\ rows[i].address # a
        /\ Answer(q, a) # None => rows[i].account # Answer(q, a)
  <2> HIDE DEF rows
  <2> QED
    BY <1>3, MatchesAre
<1>6. \A a, b \in DOMAIN file : a # b /\ Answer(q, a) = Answer(q, b) => Answer(q, a) = None
  BY <1>1, <1>2 DEF MergeConflict, GivenTwice, Uploaded
(* What becomes of the rows that were there.                               *)
<1>7. ASSUME NEW i \in DOMAIN rows
      PROVE  /\ kept[i] \in Row /\ kept[i].address = rows[i].address
             /\ \/ kept[i] = rows[i]
                \/ /\ by(i) \in DOMAIN file /\ i \in Matches(q, rows, by(i)) /\ kept[i].name = file[by(i)]
                   /\ \/ kept[i].account = rows[i].account
                      \/ rows[i].account = None /\ kept[i].account = Answer(q, by(i))
  <2>1. rows[i] \in Row
    BY <1>3
  <2>2. CASE merged(i) = {}
    BY <2>1, <2>2
  <2>3. CASE merged(i) # {}
    <3>1. by(i) \in merged(i)
      BY <2>3
    <3>2. kept[i] = update(i)
      BY <2>3
    <3> HIDE DEF by, rows
    <3>3. file[by(i)] \in Names /\ Answer(q, by(i)) \in Accounts \cup {None} /\ by(i) \in DOMAIN file
      BY <1>2, <3>1 DEF Uploaded
    <3>4. /\ update(i) \in Row /\ update(i).address = rows[i].address /\ update(i).name = file[by(i)]
          /\ \/ update(i).account = rows[i].account
             \/ rows[i].account = None /\ update(i).account = Answer(q, by(i))
      BY <2>1, <3>3 DEF Row
    <3> QED
      BY <3>1, <3>2, <3>3, <3>4
  <2> QED
    BY <2>2, <2>3
<1>8. DOMAIN kept = DOMAIN rows /\ kept \in [DOMAIN kept -> Row]
  <2>1. DOMAIN kept = DOMAIN rows /\ kept = [i \in DOMAIN kept |-> kept[i]]
    OBVIOUS
  <2> HIDE DEF kept, by, rows
  <2> QED
    BY <1>7, <2>1
<1>9. Appended(q, as, DOMAIN rows, new)
  <2> DEFINE base == DOMAIN rows
  <2>1. /\ as \in SUBSET DOMAIN request[q].file /\ base \in SUBSET Ids /\ new = FileRows(q, as, base, accounts)
        /\ Cardinality(base) + Cardinality(as) <= MaxRows
    BY <1>1, <1>3
  <2>2. accounts = [a \in DOMAIN request[q].file |-> Answer(q, a)]
    OBVIOUS
  <2> HIDE DEF as, base, new, accounts
  <2>3. Appended(q, as, base, new)
    BY <1>2, <2>1, <2>2, NewRows
  <2> QED
    BY <2>3 DEF base
<1> HIDE DEF new, kept, by, merged
<1>10. /\ DOMAIN new \subseteq Ids /\ new \in [DOMAIN new -> Row]
       /\ \A i \in DOMAIN new :
            /\ i \notin DOMAIN rows
            /\ new[i].address \in DOMAIN file /\ new[i].name = file[new[i].address]
            /\ new[i].account = Answer(q, new[i].address) /\ Matches(q, rows, new[i].address) = {}
       /\ \A i, j \in DOMAIN new : i # j => new[i].address # new[j].address
  BY <1>9 DEF Appended
<1>11. /\ after \in RosterRows /\ DOMAIN after = DOMAIN rows \cup DOMAIN new
       /\ \A i \in DOMAIN rows : after[i] = kept[i]
       /\ \A i \in DOMAIN new : after[i] = new[i]
  <2>1. /\ \A i \in DOMAIN new : i \notin DOMAIN kept
        /\ DOMAIN new \subseteq Ids /\ DOMAIN kept \subseteq Ids
        /\ kept \in [DOMAIN kept -> Row] /\ new \in [DOMAIN new -> Row]
    BY <1>3, <1>8, <1>10
  <2>2. after = With(kept, new)
    OBVIOUS
  <2> HIDE DEF after
  <2>3. /\ after \in RosterRows /\ DOMAIN after = DOMAIN kept \cup DOMAIN new
        /\ \A i \in DOMAIN kept : after[i] = kept[i]
        /\ \A i \in DOMAIN new : after[i] = new[i]
    BY <2>1, <2>2, WithIs
  <2> QED
    BY <1>8, <2>3
<1> HIDE DEF after
<1>12. RowsAnswered(after, answered, stale)
  <2> SUFFICES ASSUME NEW i \in DOMAIN after, after[i].account # None
               PROVE  \/ after[i].account \in answered[after[i].address]
                      \/ <<after[i].address, after[i].account>> \in stale
    BY DEF RowsAnswered
  <2> HIDE DEF rows, file
  <2>1. CASE i \in DOMAIN new
    BY <1>2, <1>10, <1>11, <2>1 DEF Uploaded, file
  <2>2. CASE i \in DOMAIN rows /\ after[i].account = rows[i].account
    BY <1>3, <1>7, <1>11, <2>2 DEF RowsAnswered
  <2>3. CASE i \in DOMAIN rows /\ after[i].account # rows[i].account
    <3>1. /\ by(i) \in DOMAIN file /\ i \in Matches(q, rows, by(i)) /\ rows[i].account = None
          /\ after[i].account = Answer(q, by(i)) /\ after[i].address = rows[i].address
      BY <1>7, <1>11, <2>3
    <3>2. rows[i].address = by(i)
      BY <1>4, <3>1
    <3> QED
      BY <1>2, <3>1, <3>2 DEF Uploaded, file
  <2> QED
    BY <1>11, <2>1, <2>2, <2>3
<1>13. RowsApart(after, shared')
  <2> SUFFICES ASSUME NEW i \in DOMAIN after, NEW j \in DOMAIN after, i # j
               PROVE  /\ after[i].address # after[j].address
                      /\ after[i].account # None =>
                           after[i].account # after[j].account \/ after[i].account \in shared'
    BY DEF RowsApart
  <2> HIDE DEF rows, file
  <2>1. \A e \in DOMAIN rows :
          /\ after[e].address = rows[e].address
          /\ \/ after[e].account = rows[e].account
             \/ /\ by(e) \in DOMAIN file /\ e \in Matches(q, rows, by(e)) /\ rows[e].account = None
                /\ after[e].account = Answer(q, by(e))
    BY <1>7, <1>11
  <2>2. \A e \in DOMAIN new :
          /\ after[e].address \in DOMAIN file /\ after[e].account = Answer(q, after[e].address)
          /\ Matches(q, rows, after[e].address) = {}
    BY <1>10, <1>11
  <2>3. CASE i \in DOMAIN rows /\ j \in DOMAIN rows
    <3>1. after[i].address # after[j].address
      BY <1>3, <2>1, <2>3 DEF RowsApart
    <3>2. ASSUME after[i].account # None, after[i].account = after[j].account
          PROVE  after[i].account \in shared'
      <4>1. CASE after[i].account = rows[i].account /\ after[j].account = rows[j].account
        BY <1>1, <1>3, <2>3, <3>2, <4>1 DEF RowsApart
      <4>2. CASE after[i].account # rows[i].account /\ after[j].account = rows[j].account
        BY <1>4, <2>1, <2>3, <3>2, <4>2
      <4>3. CASE after[i].account = rows[i].account /\ after[j].account # rows[j].account
        <5>1. /\ by(j) \in DOMAIN file /\ j \in Matches(q, rows, by(j)) /\ rows[j].account = None
              /\ Answer(q, by(j)) = after[j].account /\ Answer(q, by(j)) # None
          BY <2>1, <2>3, <3>2, <4>3
        <5>2. \A e \in DOMAIN rows : e # j => rows[e].account # Answer(q, by(j))
          BY <1>4, <5>1
        <5> QED
          BY <2>3, <3>2, <4>3, <5>1, <5>2
      <4>4. CASE after[i].account # rows[i].account /\ after[j].account # rows[j].account
        BY <1>4, <1>6, <2>1, <2>3, <3>2, <4>4
      <4> QED
        BY <4>1, <4>2, <4>3, <4>4
    <3> QED
      BY <3>1, <3>2
  <2>4. ASSUME NEW e \in DOMAIN rows, NEW f \in DOMAIN new
        PROVE  /\ after[e].address # after[f].address
               /\ after[f].account # None => after[e].account # after[f].account
    <3>1. /\ rows[e].address # after[f].address
          /\ after[f].account # None => rows[e].account # after[f].account
      BY <1>5, <2>2
    <3>2. CASE after[e].account = rows[e].account
      BY <2>1, <3>1, <3>2
    <3>3. CASE after[e].account # rows[e].account
      <4>1. by(e) \in DOMAIN file /\ after[e].account = Answer(q, by(e)) /\ by(e) # after[f].address
        BY <2>1, <2>2, <3>3
      <4> QED
        BY <1>6, <2>1, <2>2, <3>1, <4>1
    <3> QED
      BY <3>2, <3>3
  <2>5. CASE i \in DOMAIN rows /\ j \in DOMAIN new
    BY <2>4, <2>5
  <2>6. CASE i \in DOMAIN new /\ j \in DOMAIN rows
    BY <2>4, <2>6
  <2>7. CASE i \in DOMAIN new /\ j \in DOMAIN new
    BY <1>6, <1>10, <1>11, <2>2, <2>7
  <2> QED
    BY <1>11, <2>3, <2>5, <2>6, <2>7
<1>14. request[q].raced \/ NamesKept(k, after)
  <2> SUFFICES ASSUME ~request[q].raced, NEW i \in DOMAIN after
               PROVE  \/ \E j \in DOMAIN rows : rows[j].address = after[i].address /\ rows[j].name = after[i].name
                      \/ ~CrossTableConflict(k, after[i].address, after[i].name)
    BY DEF NamesKept
  <2>1. \A a \in DOMAIN file : ~CrossTableConflict(k, a, file[a])
    BY <1>2 DEF Uploaded
  <2> HIDE DEF rows, file
  <2>2. CASE i \in DOMAIN new
    BY <1>10, <1>11, <2>1, <2>2
  <2>3. CASE i \in DOMAIN rows /\ kept[i] = rows[i]
    BY <1>11, <2>3
  <2>4. CASE i \in DOMAIN rows /\ kept[i] # rows[i]
    <3>1. /\ by(i) \in DOMAIN file /\ i \in Matches(q, rows, by(i))
          /\ after[i].name = file[by(i)] /\ after[i].address = rows[i].address
      BY <1>7, <1>11, <2>4
    <3>2. rows[i].address = by(i) \/ ~CrossTableConflict(k, rows[i].address, file[by(i)])
      BY <1>4, <3>1
    <3> QED
      BY <2>1, <3>1, <3>2
  <2> QED
    BY <1>11, <2>2, <2>3, <2>4
<1>15. shared \subseteq shared' /\ shared' \subseteq Accounts
  BY <1>1 DEF RosterInv, HistoryTyped
<1>16. Lands(k, after)
  BY <1>1, <1>11, <1>12, <1>13, <1>14, <1>15, SavedLands
<1> QED
  BY <1>16, LandingKeeps
-----------------------------------------------------------------------------
(* The recheck.                                                            *)
LEMMA RecheckKeeps ==
  ASSUME RostersAssumption, RosterInv, NEW q \in Requests, NEW k \in Kinds, Recheck(q, k)
  PROVE  RosterInv'
<1> DEFINE rows == roster[k]
           answers == request[q].answers
           bound == Rechecked(q, rows)
           found(i) == AccountOf(answers[rows[i].address])
           after == [i \in DOMAIN rows |->
                       IF i \in bound THEN [rows[i] EXCEPT !.account = found(i)] ELSE rows[i]]
<1>1. /\ request[q] # None /\ request[q].op = "recheck" /\ request[q].kind = k
      /\ k = "reviewees" => ~symmetric
      /\ Write(k, after) /\ Finished(q)
      /\ UNCHANGED <<symmetric, answered, shared, split, stale, writes>>
  BY DEF Recheck
<1>2. Given(answers, answered) /\ \A a \in DOMAIN answers : answers[a] \in Outcome
  <2> DEFINE r == request[q]
  <2>1. r \in RequestTypes /\ Holds(r, roster, symmetric, answered) /\ r.op = "recheck" /\ r # None
    BY <1>1 DEF RosterInv, RequestsTyped, RequestsHold
  <2> HIDE DEF r
  <2>2. Given(r.answers, answered) /\ r.answers \in Lookups(DOMAIN r.answers)
    BY <2>1, RequestKinds DEF Holds
  <2> QED
    BY <2>2 DEF Lookups, r
<1>3. /\ rows \in [DOMAIN rows -> Row] /\ DOMAIN rows \in SUBSET Ids
      /\ RowsAnswered(rows, answered, stale) /\ RowsApart(rows, shared)
  BY RowsAre DEF RosterInv
<1> HIDE DEF rows
<1>4. ASSUME NEW i \in bound
      PROVE  /\ i \in DOMAIN rows /\ rows[i].account = None
             /\ rows[i].address \in DOMAIN answers /\ found(i) # None
             /\ \A j \in DOMAIN rows : j # i => rows[j].account # found(i)
             /\ \A j \in bound : j < i => found(j) # found(i)
  BY <1>4 DEF Rechecked, Unmatched, AccountHolder
<1> HIDE DEF bound
<1>5. \A i \in bound : found(i) \in Accounts /\ found(i) \in answered[rows[i].address]
  BY <1>2, <1>4 DEF Given, AccountOf, Outcome
<1> HIDE DEF found
<1>6. /\ DOMAIN after = DOMAIN rows
      /\ \A i \in DOMAIN rows :
           /\ after[i] \in Row /\ after[i].address = rows[i].address /\ after[i].name = rows[i].name
           /\ i \in bound => after[i].account = found(i)
           /\ i \notin bound => after[i].account = rows[i].account
  BY <1>3, <1>5 DEF Row
<1>7. after \in RosterRows
  <2>1. after = [i \in DOMAIN after |-> after[i]]
    OBVIOUS
  <2> HIDE DEF after
  <2>2. after \in [DOMAIN after -> Row]
    BY <1>6, <2>1
  <2> QED
    BY <1>3, <1>6, <2>2, RowsAre
<1> HIDE DEF after
<1>8. RowsAnswered(after, answered, stale)
  BY <1>3, <1>5, <1>6 DEF RowsAnswered
<1>9. RowsApart(after, shared)
  <2> SUFFICES ASSUME NEW i \in DOMAIN after, NEW j \in DOMAIN after, i # j
               PROVE  /\ after[i].address # after[j].address
                      /\ after[i].account # None =>
                           after[i].account # after[j].account \/ after[i].account \in shared
    BY DEF RowsApart
  <2>1. after[i].address # after[j].address
    BY <1>3, <1>6 DEF RowsApart
  <2>2. CASE i \in bound /\ j \in bound
    <3>1. i < j \/ j < i
      BY <1>3, <1>6 DEF Ids
    <3> QED
      BY <1>4, <1>6, <2>1, <2>2, <3>1
  <2>3. CASE i \in bound /\ j \notin bound
    BY <1>4, <1>6, <2>1, <2>3
  <2>4. CASE i \notin bound /\ j \in bound
    BY <1>4, <1>6, <2>1, <2>4
  <2>5. CASE i \notin bound /\ j \notin bound
    BY <1>3, <1>6, <2>1, <2>5 DEF RowsApart
  <2> QED
    BY <2>2, <2>3, <2>4, <2>5
<1>10. NamesKept(k, after)
  BY <1>6 DEF NamesKept, rows
<1>11. Grows /\ HistoryTyped'
  <2>1. unmirrored' \in BOOLEAN
    BY <1>1 DEF Write, SyncReviewees, RosterInv, HistoryTyped
  <2> QED
    BY <1>1, <2>1 DEF Grows, Learned, HistoryTyped, RosterInv
<1>12. Lands(k, after)
  BY <1>1, <1>7, <1>8, <1>9, <1>10, <1>11 DEF Lands, RosterInv
<1> QED
  BY <1>12, LandingKeeps

-----------------------------------------------------------------------------
LEMMA StartsWell ==
  ASSUME RostersAssumption, Init
  PROVE  RosterInv
<1>1. roster \in [Kinds -> RosterRows] /\ \A k \in Kinds : DOMAIN roster[k] = {}
  BY NoRows DEF Init
<1>2. MirrorsTyped /\ DOMAIN mirrors = {}
  <2>1. DOMAIN mirrors = {} /\ mirrors \in [{} -> Ids]
    BY DEF Init
  <2> QED
    BY <2>1, MirrorsAre DEF MirrorsTyped
<1>3. RequestsTyped /\ RequestsHold
  BY DEF Init, RequestsTyped, RequestsHold, Holds
<1>4. HistoryTyped /\ symmetric = FALSE /\ writes \in 0 .. MaxWrites
  <2>1. writes \in 0 .. MaxWrites
    BY DEF Init, RostersAssumption
  <2>2. answered \in [Addresses -> SUBSET Accounts] /\ symmetric = FALSE
    BY DEF Init
  <2> QED
    BY <2>1, <2>2 DEF Init, HistoryTyped
<1>5. \A k \in Kinds : RowsAnswered(roster[k], answered, stale) /\ RowsApart(roster[k], shared)
  BY <1>1 DEF RowsAnswered, RowsApart
<1>6. Disagree(roster) = {}
  BY <1>1 DEF Disagree, Kinds
<1> QED
  BY <1>1, <1>2, <1>3, <1>4, <1>5, <1>6 DEF RosterInv

LEMMA StepsKeep ==
  ASSUME RostersAssumption, RosterInv, [Next]_vars
  PROVE  RosterInv'
<1>1. CASE UNCHANGED vars
  <2>1. Holds(None, roster, symmetric, answered')
    BY DEF Holds
  <2>2. UNCHANGED <<roster, mirrors, symmetric, request, answered, shared, split, stale, unmirrored, writes>>
    BY <1>1 DEF vars, state, history
  <2>3. RequestsTyped' /\ RequestsHold'
    BY <2>2 DEF RosterInv, RequestsTyped, RequestsHold
  <2>4. Grows /\ HistoryTyped'
    BY <2>2 DEF RosterInv, Grows, Learned, HistoryTyped
  <2> QED
    BY <2>2, <2>3, <2>4, QuietKeeps DEF RosterInv
<1>2. ASSUME NEW a \in Addresses, NEW n \in Names, NEW outcome \in Outcome, CreateReviewer(a, n, outcome)
      PROVE  RosterInv'
  <2> DEFINE after == Added(roster["reviewers"], NewRow(a, n, AccountOf(outcome)))
             k == "reviewers"
  <2>1. /\ Count /\ Free(roster[k]) # {} /\ k \in Kinds /\ (k = "reviewees" => ~symmetric)
        /\ \A i \in DOMAIN roster[k] : roster[k][i].address # a
        /\ ~CrossTableConflict(k, a, n) /\ AccountHolder(roster[k], AccountOf(outcome), 0) = {}
        /\ after = Added(roster[k], NewRow(a, n, AccountOf(outcome))) /\ Write(k, after)
        /\ Looked([x \in {a} |-> outcome]) /\ OthersRaced /\ UNCHANGED <<symmetric, shared, split, stale>>
    <3>1. 0 \notin DOMAIN roster[k]
      BY RowsAre DEF RosterInv, Kinds, Ids
    <3> QED
      BY <1>2, <3>1 DEF CreateReviewer, EmailTaken, Kinds
  <2> HIDE DEF after, k
  <2>2. Lands(k, after)
    BY <2>1, CreateLands
  <2> QED
    BY <2>2, LandingKeeps
<1>3. ASSUME NEW a \in Addresses, NEW n \in Names, NEW outcome \in Outcome, CreateReviewee(a, n, outcome)
      PROVE  RosterInv'
  <2> DEFINE after == Added(roster["reviewees"], NewRow(a, n, AccountOf(outcome)))
             k == "reviewees"
  <2>1. /\ Count /\ Free(roster[k]) # {} /\ k \in Kinds /\ (k = "reviewees" => ~symmetric)
        /\ \A i \in DOMAIN roster[k] : roster[k][i].address # a
        /\ ~CrossTableConflict(k, a, n) /\ AccountHolder(roster[k], AccountOf(outcome), 0) = {}
        /\ after = Added(roster[k], NewRow(a, n, AccountOf(outcome))) /\ Write(k, after)
        /\ Looked([x \in {a} |-> outcome]) /\ OthersRaced /\ UNCHANGED <<symmetric, shared, split, stale>>
    <3>1. 0 \notin DOMAIN roster[k]
      BY RowsAre DEF RosterInv, Kinds, Ids
    <3> QED
      BY <1>3, <3>1 DEF CreateReviewee, IdentifierTaken, Kinds
  <2> HIDE DEF after, k
  <2>2. Lands(k, after)
    BY <2>1, CreateLands
  <2> QED
    BY <2>2, LandingKeeps
<1>4. CASE Next
  <2>1. CASE \E a \in Addresses, n \in Names, outcome \in Outcome :
               \/ CreateReviewer(a, n, outcome) \/ CreateReviewee(a, n, outcome)
               \/ \E q \in Requests, k \in Kinds : SaveEdit(q, k, a, n, outcome)
    BY <1>2, <1>3, <2>1, SaveEditKeeps
  <2>2. CASE \/ \E k \in Kinds, ids \in SUBSET Ids : BulkDelete(k, ids)
             \/ DeleteAllReviewers \/ TurnSymmetricOn \/ TurnSymmetricOff
    BY <2>2, BulkDeleteKeeps, DeleteAllReviewersKeeps, TurnSymmetricOnKeeps, TurnSymmetricOffKeeps
  <2>3. CASE \E q \in Requests :
               DropRequest(q) \/ BeginDeleteAllReviewees(q) \/ DeleteAllReviewees(q)
    BY <2>3, DropRequestKeeps, BeginDeleteAllRevieweesKeeps, DeleteAllRevieweesKeeps
  <2>4. CASE \E q \in Requests, k \in Kinds :
               \/ \E i \in Ids : BeginEdit(q, k, i)
               \/ SaveReplace(q, k) \/ SaveAppend(q, k) \/ SaveMerge(q, k) \/ Recheck(q, k)
    BY <2>4, BeginEditKeeps, SaveReplaceKeeps, SaveAppendKeeps, SaveMergeKeeps, RecheckKeeps
  <2>5. CASE \E q \in Requests, k \in Kinds :
               \/ \E mode \in Modes, file \in Files :
                    \E answers \in Lookups(DOMAIN file) : BeginUpload(q, k, mode, file, answers)
               \/ \E as \in SUBSET Addresses \ {{}} :
                    \E answers \in Lookups(as) : BeginRecheck(q, k, answers)
    BY <2>5, BeginUploadKeeps, BeginRecheckKeeps
  <2> QED
    BY <1>4, <2>1, <2>2, <2>3, <2>4, <2>5 DEF Next
<1> QED
  BY <1>1, <1>4

(* The inductive invariant holds throughout.                               *)
LEMMA AlwaysHolds == Spec => []RosterInv
<1>1. Init => RosterInv
  BY StartsWell, RostersAssumption
<1>2. RosterInv /\ [Next]_vars => RosterInv'
  BY StepsKeep, RostersAssumption
<1> QED
  BY <1>1, <1>2, PTL DEF Spec

-----------------------------------------------------------------------------
(* The rosters, the mirror's links, the requests and what they read keep   *)
(* their types: an edit waits with a row, an upload with a file and an     *)
(* outcome for each of its addresses (reviewers.py, csv_imports.py).       *)
THEOREM TypeCorrect == Spec => []TypeOK
<1>1. RosterInv => TypeOK
  BY InvariantGives
<1> QED
  BY <1>1, AlwaysHolds, PTL

(* Whatever is uploaded, edited, merged, rechecked or mirrored in whatever *)
(* order, a row admits only an account the directory gave for the row's    *)
(* own address, but for an edit saved from a row another write had bound   *)
(* since it was loaded (directory_accounts.rebind, csv_imports).           *)
THEOREM RowsAdmitOnlyAnswers == Spec => []BindingsAreAnswers
<1>1. RosterInv => BindingsAreAnswers
  BY InvariantGives
<1> QED
  BY <1>1, AlwaysHolds, PTL

(* One person is one row of a roster and goes by one name in both, but for *)
(* an account one file named twice and a name saved on a check another     *)
(* write had overtaken (csv_imports._identity and the single-row forms).   *)
THEOREM PersonsAreOne == Spec => []OnePersonOneName
<1>1. RosterInv => OnePersonOneName
  BY InvariantGives
<1> QED
  BY <1>1, AlwaysHolds, PTL

(* Under symmetric review the reviewees are the reviewers, linked one to   *)
(* one, after every write but a delete that was begun before the switch    *)
(* (symmetric_review.sync_reviewees_from_reviewers).                       *)
THEOREM MirrorStaysExact == Spec => []MirrorInStep
<1>1. RosterInv => MirrorInStep
  BY InvariantGives
<1> QED
  BY <1>1, AlwaysHolds, PTL

-----------------------------------------------------------------------------
(***************************************************************************)
(* WorkspaceAccounts, for every number of accounts, sessions and requests  *)
(* at once, and every set of super-admins: types and foreign keys, and     *)
(* which actions can take a session's last owner, the workspace's last     *)
(* admin, or the roles of someone who owns a session.                      *)
(***************************************************************************)
(* The steps that only begin, read or end a request.                       *)
Quiet == UNCHANGED <<account, created, owners>>

Settles(r) ==
  \/ Workspace!Grant(r) \/ Workspace!Revoke(r) \/ Workspace!Demote(r) \/ Workspace!DetachBatch(r) \/ Workspace!DeleteBatch(r)
  \/ Workspace!Detach(r) \/ Workspace!Delete(r) \/ Workspace!CreateSession(r) \/ Workspace!AddOwner(r) \/ Workspace!RemoveOwner(r)
  \/ Workspace!Absorb(r)

LEMMA StepKinds ==
  ASSUME [Workspace!Next]_Workspace!vars
  PROVE  \/ \E u \in Users : Workspace!SignIn(u)
         \/ \E actor, u \in Users, asAdmin \in BOOLEAN : Workspace!Invite(actor, u, asAdmin)
         \/ Quiet
         \/ \E r \in Requests : Settles(r)
<1>1. ASSUME NEW r \in Requests, NEW does \in Workspace!AccountActions, NEW actor \in Workspace!Present,
             NEW targets \in SUBSET Workspace!Present \ {{}},
               Workspace!BeginBatch(r, does, actor, targets)
      PROVE  Quiet
  BY <1>1 DEF Workspace!BeginBatch, Workspace!Begin, Quiet
<1>2. ASSUME NEW r \in Requests, NEW does \in Workspace!OwnerActions, NEW actor \in Workspace!Present,
             NEW u \in Workspace!Present, NEW s \in Sessions,
               Workspace!BeginOwners(r, does, actor, u, s)
      PROVE  Quiet
  BY <1>2 DEF Workspace!BeginOwners, Workspace!Begin, Quiet
<1>3. ASSUME NEW r \in Requests, Workspace!SingleRow(r) PROVE Quiet \/ Settles(r)
  BY <1>3 DEF Workspace!SingleRow, Workspace!BeginGrant, Workspace!BeginDetach,
     Workspace!BeginDelete, Workspace!Begin, Quiet, Settles
<1>4. ASSUME NEW r \in Requests, Workspace!Folds(r) PROVE Quiet \/ Settles(r)
  BY <1>4 DEF Workspace!Folds, Workspace!AbsorbLoad, Workspace!AbsorbShared, Quiet, Settles
<1>5. ASSUME NEW r \in Requests,
             Workspace!AccountsSettled(r) \/ Workspace!OwnersManaged(r) PROVE Settles(r)
  BY <1>5 DEF Workspace!AccountsSettled, Workspace!OwnersManaged, Settles
<1>6. (\E r \in Requests : Workspace!RequestEnds(r)) \/ UNCHANGED Workspace!vars => Quiet
  BY DEF Workspace!RequestEnds, Quiet, Workspace!vars
<1> QED
  BY <1>1, <1>2, <1>3, <1>4, <1>5, <1>6 DEF Workspace!Next

-----------------------------------------------------------------------------
(* A request's own facts: what it was begun on.                            *)
AskOK(q) ==
  /\ q.does = "create" => q.session \in Sessions
  /\ q.does = "add" => q.session \in created
  /\ q.does = "absorb" => q.actor \in Users \ q.targets

RequestsOK == ask \in [Requests -> Workspace!Asks] /\ \A r \in Requests : AskOK(ask[r])

(* An account that is not there has no role.                               *)
AbsentIsBlank == \A u \in Users \ Workspace!Present : account[u].roles = {}

AccountsOK == account \in [Users -> Workspace!AccountRows] /\ AbsentIsBlank

OwnersOK == created \subseteq Sessions /\ owners \subseteq created \X Workspace!Present

AccountsInv == AccountsOK /\ OwnersOK /\ RequestsOK

LEMMA InvTypes == AccountsInv => Workspace!TypeOK
  BY DEF AccountsInv, AccountsOK, OwnersOK, RequestsOK, Workspace!TypeOK

(* What the accounts become: nobody leaves, blank stays blank.             *)
LEMMA Renamed ==
  ASSUME AccountsOK, NEW new \in [Users -> Workspace!AccountRows],
         \A u \in Users : ~new[u].present => new[u].roles = {},
         NEW actor \in Users, new[actor].present
  PROVE  /\ [new EXCEPT ![actor].acted = TRUE] \in [Users -> Workspace!AccountRows]
         /\ \A u \in Users :
              /\ [new EXCEPT ![actor].acted = TRUE][u].present <=> new[u].present
              /\ [new EXCEPT ![actor].acted = TRUE][u].roles = new[u].roles
  BY DEF Workspace!AccountRows

(* The accounts a settled request leaves, but for its actor's history.     *)
Becomes(new) ==
  /\ account' \in [Users -> Workspace!AccountRows]
  /\ \A u \in Users : (account'[u].present <=> new[u].present) /\ account'[u].roles = new[u].roles

LEMMA CommitBecomes ==
  ASSUME AccountsOK, NEW r, NEW new \in [Users -> Workspace!AccountRows],
         \A u \in Users : ~new[u].present => new[u].roles = {},
         Workspace!Commit(r, new)
  PROVE  Becomes(new)
<1>1. ask[r].actor \in Users /\ new[ask[r].actor].present
  BY DEF Workspace!Commit, Workspace!Present
<1>2. account' = [new EXCEPT ![ask[r].actor].acted = TRUE]
  BY DEF Workspace!Commit
<1> QED
  BY <1>1, <1>2, Renamed DEF Becomes

LEMMA GivenType ==
  ASSUME AccountsOK, NEW us \in SUBSET Users, NEW roles \in SUBSET Workspace!Roles
  PROVE  Workspace!Given(us, roles) \in [Users -> Workspace!AccountRows]
  BY DEF AccountsOK, Workspace!Given, Workspace!AccountRows

LEMMA GivenFields ==
  ASSUME AccountsOK, NEW us, NEW roles, NEW u \in Users
  PROVE  /\ Workspace!Given(us, roles)[u].present <=> account[u].present
         /\ u \in us => Workspace!Given(us, roles)[u].roles = account[u].roles \cup roles
         /\ u \notin us => Workspace!Given(us, roles)[u].roles = account[u].roles
  BY DEF AccountsOK, Workspace!Given, Workspace!AccountRows

LEMMA TakenType ==
  ASSUME AccountsOK, NEW us \in SUBSET Users, NEW roles \in SUBSET Workspace!Roles
  PROVE  Workspace!Taken(us, roles) \in [Users -> Workspace!AccountRows]
  BY DEF AccountsOK, Workspace!Taken, Workspace!AccountRows

LEMMA TakenFields ==
  ASSUME AccountsOK, NEW us, NEW roles, NEW u \in Users
  PROVE  /\ Workspace!Taken(us, roles)[u].present <=> account[u].present
         /\ u \in us => Workspace!Taken(us, roles)[u].roles = account[u].roles \ roles
         /\ u \notin us => Workspace!Taken(us, roles)[u].roles = account[u].roles
  BY DEF AccountsOK, Workspace!Taken, Workspace!AccountRows

LEMMA WithoutType ==
  ASSUME AccountsOK, NEW us \in SUBSET Users
  PROVE  Workspace!Without(us) \in [Users -> Workspace!AccountRows]
  BY DEF AccountsOK, Workspace!Without, Workspace!Absent, Workspace!AccountRows

LEMMA WithoutFields ==
  ASSUME AccountsOK, NEW us, NEW u \in Users
  PROVE  /\ Workspace!Without(us)[u].present <=> (u \notin us /\ account[u].present)
         /\ u \in us => Workspace!Without(us)[u].roles = {}
         /\ u \notin us => Workspace!Without(us)[u].roles = account[u].roles
  BY DEF AccountsOK, Workspace!Without, Workspace!Absent, Workspace!AccountRows

-----------------------------------------------------------------------------
(* What a settled request may do: to the roles, ...                        *)
Gives(r) ==
  \E us \in SUBSET Workspace!Present, roles \in SUBSET Workspace!Roles :
    Becomes(Workspace!Given(us, roles)) /\ UNCHANGED <<created, owners>>
Revokes(r) ==
  \E us \in SUBSET Workspace!Present :
    Workspace!RowsOf(us) = {} /\ Becomes(Workspace!Taken(us, {"operator"})) /\ UNCHANGED <<created, owners>>
Demotes(r) ==
  \E us \in SUBSET Workspace!Present :
    /\ Workspace!LeavesAnAdmin(us) /\ Workspace!RowsOf(us \ Workspace!HasRole("operator")) = {}
    /\ Becomes(Workspace!Taken(us, {"admin"})) /\ UNCHANGED <<created, owners>>
DeletesLocked(r) ==
  \E us \in SUBSET Workspace!Present :
    Workspace!Deletable(us) /\ Becomes(Workspace!Without(us)) /\ UNCHANGED <<created, owners>>

(* ... to the owners, ...                                                  *)
DetachesLocked(r) ==
  \E us \in SUBSET Workspace!Present :
    Workspace!LeavesAnOwner(us) /\ Becomes(account) /\ owners' = owners \ Workspace!RowsOf(us) /\ created' = created
Adds(r) ==
  \E s \in Sessions, us \in SUBSET Workspace!Eligible :
    Becomes(account) /\ owners' = owners \cup ({s} \X us) /\ created' = created \cup {s}
Removes(r) ==
  \E s, us :
    /\ Workspace!OwnersOf(s) \ us # {} /\ Becomes(account)
    /\ owners' = owners \ ({s} \X us) /\ created' = created

(* ... and, judged before by what was not locked, to either.               *)
DetachesLate(r) ==
  ask[r].does = "detach" /\ Workspace!Ends(r) /\ Becomes(account) /\ owners' \subseteq owners /\ created' = created
DeletesLate(r) ==
  /\ ask[r].does = "delete" /\ Workspace!Ends(r)
  /\ \E us \in SUBSET Workspace!Present :
       Becomes(Workspace!Without(us)) /\ owners' = owners \ Workspace!RowsOf(us) /\ created' = created

Effects(r) ==
  \/ Gives(r) \/ Revokes(r) \/ Demotes(r) \/ DeletesLocked(r)
  \/ DetachesLocked(r) \/ Adds(r) \/ Removes(r) \/ DetachesLate(r) \/ DeletesLate(r)

LEMMA Settled ==
  ASSUME AccountsInv, NEW r \in Requests, Settles(r)
  PROVE  Effects(r) \/ Workspace!Absorb(r)
<1> DEFINE q == ask[r]
<1>0. /\ AccountsOK /\ q \in Workspace!Asks /\ q.targets \in SUBSET Users /\ q.gain \in SUBSET Workspace!Roles
      /\ \A u \in Users : ~account[u].present => account[u].roles = {}
      /\ account \in [Users -> Workspace!AccountRows]
      /\ Workspace!Present \subseteq Users
  BY DEF AccountsInv, AccountsOK, AbsentIsBlank, RequestsOK, Workspace!Asks, Workspace!Present
<1>1. ASSUME NEW us \in SUBSET Users, NEW roles \in SUBSET Workspace!Roles,
             us \subseteq Workspace!Present, Workspace!Commit(r, Workspace!Given(us, roles))
      PROVE  Becomes(Workspace!Given(us, roles))
  <2>1. /\ Workspace!Given(us, roles) \in [Users -> Workspace!AccountRows]
        /\ \A u \in Users : ~Workspace!Given(us, roles)[u].present => Workspace!Given(us, roles)[u].roles = {}
    BY <1>0, <1>1, GivenType, GivenFields DEF Workspace!Present
  <2> QED
    BY <1>0, <2>1, <1>1, CommitBecomes
<1>2. ASSUME NEW us \in SUBSET Users, NEW roles \in SUBSET Workspace!Roles,
             Workspace!Commit(r, Workspace!Taken(us, roles))
      PROVE  Becomes(Workspace!Taken(us, roles))
  <2>1. /\ Workspace!Taken(us, roles) \in [Users -> Workspace!AccountRows]
        /\ \A u \in Users : ~Workspace!Taken(us, roles)[u].present => Workspace!Taken(us, roles)[u].roles = {}
    BY <1>0, TakenType, TakenFields
  <2> QED
    BY <1>0, <2>1, <1>2, CommitBecomes
<1>3. ASSUME NEW us \in SUBSET Users, Workspace!Commit(r, Workspace!Without(us))
      PROVE  Becomes(Workspace!Without(us))
  <2>1. /\ Workspace!Without(us) \in [Users -> Workspace!AccountRows]
        /\ \A u \in Users : ~Workspace!Without(us)[u].present => Workspace!Without(us)[u].roles = {}
    BY <1>0, WithoutType, WithoutFields
  <2> QED
    BY <1>0, <2>1, <1>3, CommitBecomes
<1>4. Workspace!Commit(r, account) => Becomes(account)
  BY <1>0, CommitBecomes
<1>5. ASSUME NEW new, Workspace!Commit(r, new), q.step = "checked" PROVE Workspace!Ends(r)
  BY <1>5 DEF Workspace!Commit, Workspace!Ends, AccountsInv, RequestsOK
<1>6. CASE Workspace!Grant(r)
  <2>1. PICK roles \in SUBSET Workspace!Roles : Workspace!Commit(r,
          Workspace!Given(q.targets, roles))
    BY <1>0, <1>6 DEF Workspace!Grant, Workspace!Roles
  <2>2. q.targets \in SUBSET Workspace!Present /\ UNCHANGED <<created, owners>>
    BY <1>6 DEF Workspace!Grant
  <2> QED
    BY <1>0, <1>1, <2>1, <2>2 DEF Gives, Effects
<1>7. CASE Workspace!Revoke(r)
  BY <1>0, <1>2, <1>7 DEF Workspace!Revoke, Revokes, Effects, Workspace!Roles
<1>8. CASE Workspace!Demote(r)
  BY <1>0, <1>2, <1>8 DEF Workspace!Demote, Demotes, Effects, Workspace!Roles
<1>9. CASE Workspace!DeleteBatch(r)
  BY <1>0, <1>3, <1>9 DEF Workspace!DeleteBatch, Workspace!Deletable, DeletesLocked, Effects
<1>10. CASE Workspace!DetachBatch(r)
  BY <1>0, <1>4, <1>10 DEF Workspace!DetachBatch, DetachesLocked, Effects
<1>11. CASE Workspace!CreateSession(r)
  <2>1. q.session \in Sessions
    BY <1>11 DEF Workspace!CreateSession, AccountsInv, RequestsOK, AskOK
  <2> QED
    BY <1>0, <1>4, <1>11, <2>1 DEF Workspace!CreateSession, Adds, Effects
<1>12. CASE Workspace!AddOwner(r)
  <2>1. q.session \in created /\ created \subseteq Sessions
    BY <1>12 DEF Workspace!AddOwner, AccountsInv, RequestsOK, AskOK, OwnersOK
  <2>2. created' = created \cup {q.session}
    BY <1>12, <2>1 DEF Workspace!AddOwner
  <2> QED
    BY <1>0, <1>4, <1>12, <2>1, <2>2 DEF Workspace!AddOwner, Adds, Effects
<1>13. CASE Workspace!RemoveOwner(r)
  BY <1>4, <1>13 DEF Workspace!RemoveOwner, Removes, Effects
<1>14. CASE Workspace!Detach(r)
  BY <1>4, <1>5, <1>14 DEF Workspace!Detach, Workspace!Doing, DetachesLate, Effects
<1>15. CASE Workspace!Delete(r)
  BY <1>0, <1>3, <1>5, <1>15 DEF Workspace!Delete, Workspace!Doing, DeletesLate, Effects
<1> QED
  BY <1>6, <1>7, <1>8, <1>9, <1>10, <1>11, <1>12, <1>13, <1>14, <1>15 DEF Settles

-----------------------------------------------------------------------------
(* A sign-in, an invitation and a grant take nothing from anybody.         *)
RolesGrow ==
  \A u \in Users : /\ account[u].present => account'[u].present
                   /\ account[u].roles \subseteq account'[u].roles

LEMMA SignInGrows ==
  ASSUME Workspace!AccountsAssumption, AccountsOK, NEW u \in Users, Workspace!SignIn(u)
  PROVE  AccountsOK' /\ RolesGrow /\ UNCHANGED <<created, owners>>
<1>1. account \in [Users -> Workspace!AccountRows] /\ account[u] \in Workspace!AccountRows
  BY DEF AccountsOK
<1>2. ~account[u].present => account[u].roles = {}
  BY DEF AccountsOK, AbsentIsBlank, Workspace!Present
<1>3. Workspace!SignedIn(u) \in Workspace!AccountRows /\ Workspace!SignedIn(u).present /\ account[u].roles \subseteq Workspace!SignedIn(u).roles
  <2>1. Bootstrap[u] \in SUBSET Workspace!Roles
    BY DEF Workspace!AccountsAssumption
  <2>2. CASE account[u].present
    BY <1>1, <2>2 DEF Workspace!SignedIn, Workspace!AccountRows
  <2>3. CASE ~account[u].present
    BY <1>1, <1>2, <2>1, <2>3 DEF Workspace!SignedIn, Workspace!AccountRows, Workspace!Absent
  <2> QED
    BY <2>2, <2>3
<1>4. account' = [account EXCEPT ![u] = Workspace!SignedIn(u)] /\ UNCHANGED <<created, owners>>
  BY DEF Workspace!SignIn
<1> HIDE DEF Workspace!SignIn
<1>5. \A v \in Users : v # u => account'[v] = account[v]
  BY <1>1, <1>4
<1>6. account'[u] = Workspace!SignedIn(u) /\ account' \in [Users -> Workspace!AccountRows]
  BY <1>1, <1>3, <1>4
<1>7. AbsentIsBlank'
  BY <1>3, <1>5, <1>6 DEF AccountsOK, AbsentIsBlank, Workspace!Present
<1> QED
  BY <1>3, <1>4, <1>5, <1>6, <1>7 DEF AccountsOK, RolesGrow

LEMMA InviteGrows ==
  ASSUME AccountsOK, NEW actor \in Users, NEW u \in Users, NEW asAdmin \in BOOLEAN,
         Workspace!Invite(actor, u, asAdmin)
  PROVE  AccountsOK' /\ RolesGrow /\ UNCHANGED <<created, owners>>
<1> DEFINE row == [Workspace!Absent EXCEPT !.present = TRUE,
                                 !.roles = IF asAdmin THEN Workspace!Roles ELSE {"operator"}]
<1>1. /\ account \in [Users -> Workspace!AccountRows]
      /\ actor \in Workspace!Present /\ u \notin Workspace!Present /\ actor # u
      /\ account' = [account EXCEPT ![actor].acted = TRUE, ![u] = row]
      /\ UNCHANGED <<created, owners>>
  BY DEF AccountsOK, Workspace!Invite
<1>2. row \in Workspace!AccountRows /\ row.present
  BY DEF Workspace!Absent, Workspace!AccountRows, Workspace!Roles
<1>3. account[u].roles = {}
  BY <1>1 DEF AccountsOK, AbsentIsBlank
<1> HIDE DEF row
<1>4. account' \in [Users -> Workspace!AccountRows]
  BY <1>1, <1>2 DEF Workspace!AccountRows
<1>5. account'[u] = row
  BY <1>1
<1>6. ASSUME NEW v \in Users, v # u
      PROVE  (account'[v].present <=> account[v].present) /\ account'[v].roles = account[v].roles
  BY <1>1, <1>6 DEF Workspace!AccountRows
<1>7. AbsentIsBlank'
  BY <1>2, <1>5, <1>6 DEF AccountsOK, AbsentIsBlank, Workspace!Present
<1>8. RolesGrow
  BY <1>2, <1>3, <1>5, <1>6 DEF RolesGrow
<1> QED
  BY <1>1, <1>4, <1>7, <1>8 DEF AccountsOK

(* What a sign-in's fold leaves: one row less, its roles the other's.      *)
LEMMA AbsorbAccounts ==
  ASSUME AccountsInv, NEW r \in Requests, Workspace!Absorb(r)
  PROVE  /\ AccountsOK'
         /\ \A v \in Users \ ask[r].targets : account'[v].present <=> account[v].present
         /\ ask[r].actor \in Workspace!Present' /\ created' = created
         /\ owners' \subseteq created \X Workspace!Present'
<1> DEFINE q == ask[r]
           keeps == q.actor
<1>1. /\ AccountsOK /\ account \in [Users -> Workspace!AccountRows]
      /\ q \in Workspace!Asks /\ q.gain \in SUBSET Workspace!Roles /\ q.targets \in SUBSET Users /\ keeps \in Users \ q.targets
      /\ keeps \in Workspace!Present
  BY DEF AccountsInv, AccountsOK, RequestsOK, AskOK, Workspace!Asks, Workspace!Absorb,
     Workspace!Doing
<1> DEFINE new == Workspace!Without(q.targets)
<1>2. new \in [Users -> Workspace!AccountRows]
  BY <1>1, WithoutType
<1>3. ASSUME NEW v \in Users
      PROVE  /\ new[v].present <=> (v \notin q.targets /\ account[v].present)
             /\ v \in q.targets => new[v].roles = {}
             /\ v \notin q.targets => new[v].roles = account[v].roles
  BY <1>1, WithoutFields
<1>4. account' = [new EXCEPT ![keeps].roles = @ \cup q.gain] /\ created' = created
  BY DEF Workspace!Absorb
<1> HIDE DEF new
<1>5. account' \in [Users -> Workspace!AccountRows]
  BY <1>1, <1>2, <1>4 DEF Workspace!AccountRows
<1>6. ASSUME NEW v \in Users
      PROVE  /\ account'[v].present <=> new[v].present
             /\ v # keeps => account'[v].roles = new[v].roles
  BY <1>1, <1>2, <1>4 DEF Workspace!AccountRows
<1>7. keeps \in Workspace!Present'
  <2>1. account'[keeps].present
    BY <1>1, <1>6, <1>3 DEF Workspace!Present
  <2> QED
    BY <1>1, <2>1 DEF Workspace!Present
<1>8. AbsentIsBlank'
  <2> SUFFICES ASSUME NEW v \in Users, ~account'[v].present PROVE account'[v].roles = {}
    BY DEF AbsentIsBlank, Workspace!Present
  <2>1. v # keeps
    BY <1>7 DEF Workspace!Present
  <2>2. ~new[v].present /\ account'[v].roles = new[v].roles
    BY <1>6, <2>1
  <2>3. v \notin q.targets => account[v].roles = {}
    BY <1>1, <1>3, <2>2 DEF AccountsOK, AbsentIsBlank, Workspace!Present
  <2> QED
    BY <1>3, <2>2, <2>3
<1>9. owners' \subseteq created \X Workspace!Present'
  <2>1. owners \subseteq created \X Workspace!Present
    BY DEF AccountsInv, OwnersOK
  <2>2. \A row \in owners : row[2] \notin q.targets => row[2] \in Workspace!Present'
    <3> SUFFICES ASSUME NEW row \in owners, row[2] \notin q.targets
                 PROVE  row[2] \in Workspace!Present'
      OBVIOUS
    <3>1. row[2] \in Users /\ account[row[2]].present
      BY <2>1 DEF Workspace!Present
    <3>2. account'[row[2]].present
      BY <1>6, <1>3, <3>1
    <3> QED
      BY <3>1, <3>2 DEF Workspace!Present
  <2>3. \A row \in owners' : \/ row \in owners /\ row[2] \notin q.targets
                             \/ \E old \in owners : row = <<old[1], keeps>>
    BY DEF Workspace!Absorb, Workspace!RowsOf
  <2> QED
    BY <1>7, <2>1, <2>2, <2>3
<1> QED
  BY <1>4, <1>5, <1>6, <1>3, <1>7, <1>8, <1>9 DEF AccountsOK

-----------------------------------------------------------------------------
(* Who is there, and with which roles, after each kind of change.          *)
LEMMA SameAfter ==
  ASSUME AccountsOK, Becomes(account)
  PROVE  /\ AccountsOK' /\ Workspace!Present' = Workspace!Present
         /\ \A u \in Users : account'[u].roles = account[u].roles
<1>1. ASSUME NEW u \in Users
      PROVE  (account'[u].present <=> account[u].present) /\ account'[u].roles = account[u].roles
  BY DEF Becomes
<1> QED
  BY <1>1 DEF Becomes, AccountsOK, AbsentIsBlank, Workspace!Present

LEMMA GivenAfter ==
  ASSUME AccountsOK, NEW us \in SUBSET Workspace!Present, NEW roles \in SUBSET Workspace!Roles,
         Becomes(Workspace!Given(us, roles))
  PROVE  AccountsOK' /\ Workspace!Present' = Workspace!Present /\ RolesGrow
<1>1. ASSUME NEW u \in Users
      PROVE  /\ account'[u].present <=> account[u].present
             /\ account[u].roles \subseteq account'[u].roles
             /\ u \notin us => account'[u].roles = account[u].roles
  BY GivenFields DEF Becomes
<1>2. Workspace!Present' = Workspace!Present
  BY <1>1 DEF Workspace!Present
<1>3. AbsentIsBlank'
  BY <1>1, <1>2 DEF AbsentIsBlank, AccountsOK
<1> QED
  BY <1>1, <1>2, <1>3 DEF Becomes, AccountsOK, RolesGrow

LEMMA TakenAfter ==
  ASSUME AccountsOK, NEW us \in SUBSET Workspace!Present, NEW roles \in SUBSET Workspace!Roles,
         Becomes(Workspace!Taken(us, roles))
  PROVE  /\ AccountsOK' /\ Workspace!Present' = Workspace!Present
         /\ \A u \in us : account'[u].roles = account[u].roles \ roles
         /\ \A u \in Users \ us : account'[u].roles = account[u].roles
<1>1. ASSUME NEW u \in Users
      PROVE  /\ account'[u].present <=> account[u].present
             /\ u \in us => account'[u].roles = account[u].roles \ roles
             /\ u \notin us => account'[u].roles = account[u].roles
  BY TakenFields DEF Becomes
<1>2. Workspace!Present' = Workspace!Present
  BY <1>1 DEF Workspace!Present
<1>3. AbsentIsBlank'
  BY <1>1, <1>2 DEF AbsentIsBlank, AccountsOK
<1>4. us \subseteq Users
  BY DEF Workspace!Present
<1> QED
  BY <1>1, <1>2, <1>3, <1>4 DEF Becomes, AccountsOK

LEMMA WithoutAfter ==
  ASSUME AccountsOK, NEW us \in SUBSET Workspace!Present, Becomes(Workspace!Without(us))
  PROVE  /\ AccountsOK' /\ Workspace!Present' = Workspace!Present \ us
         /\ \A u \in Users \ us : account'[u].roles = account[u].roles
<1>1. ASSUME NEW u \in Users
      PROVE  /\ account'[u].present <=> (u \notin us /\ account[u].present)
             /\ u \in us => account'[u].roles = {}
             /\ u \notin us => account'[u].roles = account[u].roles
  BY WithoutFields DEF Becomes
<1>2. Workspace!Present' = Workspace!Present \ us
  BY <1>1 DEF Workspace!Present
<1>3. AbsentIsBlank'
  BY <1>1, <1>2 DEF AbsentIsBlank, AccountsOK
<1> QED
  BY <1>1, <1>2, <1>3 DEF Becomes, AccountsOK

LEMMA EffectsKeepTypes ==
  ASSUME AccountsInv, NEW r, Effects(r)
  PROVE  AccountsOK' /\ OwnersOK' /\ created \subseteq created'
<1>0. AccountsOK /\ created \subseteq Sessions /\ owners \subseteq created \X Workspace!Present
  BY DEF AccountsInv, OwnersOK
<1>1. CASE Gives(r)
  BY <1>0, <1>1, GivenAfter DEF Gives, OwnersOK
<1>2. CASE Revokes(r)
  BY <1>0, <1>2, TakenAfter DEF Revokes, OwnersOK, Workspace!Roles
<1>3. CASE Demotes(r)
  BY <1>0, <1>3, TakenAfter DEF Demotes, OwnersOK, Workspace!Roles
<1>4. CASE DeletesLocked(r)
  <2>1. PICK us \in SUBSET Workspace!Present : Workspace!Deletable(us) /\ Becomes(Workspace!Without(us)) /\ UNCHANGED <<created, owners>>
    BY <1>4 DEF DeletesLocked
  <2>2. AccountsOK' /\ Workspace!Present' = Workspace!Present \ us
    BY <1>0, <2>1, WithoutAfter
  <2>3. \A row \in owners : row[2] \notin us
    BY <2>1 DEF Workspace!Deletable, Workspace!RowsOf
  <2> QED
    BY <1>0, <2>1, <2>2, <2>3 DEF OwnersOK
<1>5. CASE DetachesLocked(r) \/ Removes(r) \/ DetachesLate(r)
  <2>1. Becomes(account) /\ owners' \subseteq owners /\ created' = created
    BY <1>5 DEF DetachesLocked, Removes, DetachesLate
  <2> QED
    BY <1>0, <2>1, SameAfter DEF OwnersOK
<1>6. CASE Adds(r)
  <2>1. PICK s \in Sessions, us \in SUBSET Workspace!Eligible :
          Becomes(account) /\ owners' = owners \cup ({s} \X us) /\ created' = created \cup {s}
    BY <1>6 DEF Adds
  <2>2. Workspace!Eligible \subseteq Workspace!Present
    BY DEF Workspace!Eligible
  <2> QED
    BY <1>0, <2>1, <2>2, SameAfter DEF OwnersOK
<1>7. CASE DeletesLate(r)
  <2>1. PICK us \in SUBSET Workspace!Present :
          Becomes(Workspace!Without(us)) /\ owners' = owners \ Workspace!RowsOf(us) /\ created' = created
    BY <1>7 DEF DeletesLate
  <2>2. AccountsOK' /\ Workspace!Present' = Workspace!Present \ us
    BY <1>0, <2>1, WithoutAfter
  <2>3. \A row \in owners' : row \in owners /\ row[2] \notin us
    BY <2>1 DEF Workspace!RowsOf
  <2> QED
    BY <1>0, <2>1, <2>2, <2>3 DEF OwnersOK
<1> QED
  BY <1>1, <1>2, <1>3, <1>4, <1>5, <1>6, <1>7 DEF Effects

LEMMA StepKeepsTypes ==
  ASSUME Workspace!AccountsAssumption, AccountsInv, [Workspace!Next]_Workspace!vars
  PROVE  AccountsOK' /\ OwnersOK' /\ created \subseteq created'
<1>0. AccountsOK /\ OwnersOK
  BY DEF AccountsInv
<1>1. ASSUME AccountsOK', RolesGrow, UNCHANGED <<created, owners>>
      PROVE  OwnersOK' /\ created \subseteq created'
  BY <1>0, <1>1 DEF OwnersOK, RolesGrow, Workspace!Present
<1>2. Quiet => AccountsOK' /\ OwnersOK' /\ created \subseteq created'
  BY <1>0 DEF Quiet, AccountsOK, OwnersOK, AbsentIsBlank, Workspace!Present
<1>3. ASSUME NEW r \in Requests, Workspace!Absorb(r) PROVE AccountsOK' /\ OwnersOK' /\ created \subseteq created'
  BY <1>0, <1>3, AbsorbAccounts DEF OwnersOK
<1> QED
  BY <1>0, <1>1, <1>2, <1>3, StepKinds, SignInGrows, InviteGrows, Settled, EffectsKeepTypes

-----------------------------------------------------------------------------
(* The requests: begun well, ended, or gone on with.                       *)
Asked(r) == \E x \in Workspace!Asks : AskOK(x) /\ ask' = [ask EXCEPT ![r] = x]

LEMMA IdleAsk == Workspace!Idle \in Workspace!Asks /\ AskOK(Workspace!Idle)
  BY DEF Workspace!Idle, Workspace!Asks, AskOK, Workspace!AccountActions, Workspace!Grants,
     Workspace!OwnerActions

LEMMA BeginsAsk ==
  ASSUME NEW r \in Requests, NEW asked \in Workspace!Asks, AskOK(asked), Workspace!Begin(r, asked)
  PROVE  Asked(r)
  BY DEF Workspace!Begin, Asked

LEMMA SingleRowAsks ==
  ASSUME AccountsInv, NEW r \in Requests, Workspace!SingleRow(r)
  PROVE  Asked(r)
<1>0. Workspace!Present \subseteq Users
  BY DEF Workspace!Present
<1>1. ASSUME NEW does \in Workspace!Grants, NEW actor \in Workspace!Present, NEW u \in Workspace!Present,
             Workspace!BeginGrant(r, does, actor, u)
      PROVE  Asked(r)
  <2> DEFINE asked == [Workspace!Idle EXCEPT !.does = does, !.actor = actor, !.targets = {u},
                                   !.gain = Workspace!Missing(does, {u})]
  <2>1. Workspace!Missing(does, {u}) \subseteq Workspace!Roles
    BY DEF Workspace!Missing, Workspace!Grants, Workspace!Roles
  <2>2. asked \in Workspace!Asks /\ AskOK(asked)
    BY <1>0, <2>1, IdleAsk DEF Workspace!Asks, AskOK, Workspace!Idle, Workspace!Grants,
       Workspace!AccountActions, Workspace!OwnerActions
  <2>3. Workspace!Begin(r, asked)
    BY <1>1 DEF Workspace!BeginGrant
  <2> HIDE DEF asked
  <2> QED
    BY <2>2, <2>3, BeginsAsk
<1>2. ASSUME NEW actor \in Workspace!Present, NEW u \in Workspace!Present,
             Workspace!BeginDetach(r, actor, u)
      PROVE  Asked(r)
  <2> DEFINE asked == [Workspace!Idle EXCEPT !.does = "detach", !.step = "checked", !.actor = actor,
                                   !.targets = {u}, !.rows = Workspace!RowsOf({u})]
  <2>1. Workspace!RowsOf({u}) \subseteq Sessions \X Users
    BY <1>0 DEF Workspace!RowsOf, AccountsInv, OwnersOK
  <2>2. asked \in Workspace!Asks /\ AskOK(asked)
    BY <1>0, <2>1 DEF Workspace!Asks, AskOK, Workspace!Idle, Workspace!Grants,
       Workspace!AccountActions, Workspace!OwnerActions
  <2>3. Workspace!Begin(r, asked)
    BY <1>2 DEF Workspace!BeginDetach
  <2> HIDE DEF asked
  <2> QED
    BY <2>2, <2>3, BeginsAsk
<1>3. ASSUME NEW actor \in Workspace!Present, NEW u \in Workspace!Present,
             Workspace!BeginDelete(r, actor, u)
      PROVE  Asked(r)
  <2> DEFINE asked == [Workspace!Idle EXCEPT !.does = "delete", !.step = "checked", !.actor = actor,
                                   !.targets = {u}]
  <2>1. asked \in Workspace!Asks /\ AskOK(asked)
    BY <1>0 DEF Workspace!Asks, AskOK, Workspace!Idle, Workspace!Grants,
       Workspace!AccountActions, Workspace!OwnerActions
  <2>2. Workspace!Begin(r, asked)
    BY <1>3 DEF Workspace!BeginDelete
  <2> HIDE DEF asked
  <2> QED
    BY <2>1, <2>2, BeginsAsk
<1>4. ASSUME NEW new, Workspace!Commit(r, new) PROVE Asked(r)
  BY <1>4, IdleAsk DEF Workspace!Commit, Asked
<1>5. Workspace!Detach(r) \/ Workspace!Delete(r) => Asked(r)
  BY <1>4 DEF Workspace!Detach, Workspace!Delete
<1> QED
  BY <1>1, <1>2, <1>3, <1>5 DEF Workspace!SingleRow

LEMMA BatchAsks ==
  ASSUME NEW r \in Requests, NEW does \in Workspace!AccountActions, NEW actor \in Workspace!Present,
         NEW targets \in SUBSET Workspace!Present, Workspace!BeginBatch(r, does, actor, targets)
  PROVE  Asked(r)
<1> DEFINE asked == [Workspace!Idle EXCEPT !.does = does, !.batch = TRUE, !.actor = actor,
                                 !.targets = targets]
<1>1. asked \in Workspace!Asks /\ AskOK(asked)
  BY DEF Workspace!Present, Workspace!Asks, AskOK, Workspace!Idle, Workspace!Grants,
     Workspace!AccountActions, Workspace!OwnerActions
<1>2. Workspace!Begin(r, asked)
  BY DEF Workspace!BeginBatch
<1> HIDE DEF asked
<1> QED
  BY <1>1, <1>2, BeginsAsk

LEMMA OwnersAsk ==
  ASSUME NEW r \in Requests, NEW does \in Workspace!OwnerActions, NEW actor \in Workspace!Present,
         NEW u \in Workspace!Present, NEW s \in Sessions,
           Workspace!BeginOwners(r, does, actor, u, s)
  PROVE  Asked(r)
<1> DEFINE asked == [Workspace!Idle EXCEPT !.does = does, !.actor = actor, !.targets = {u}, !.session = s]
<1>1. does = "add" => s \in created
  BY DEF Workspace!BeginOwners, Workspace!MayManage
<1>2. asked \in Workspace!Asks /\ AskOK(asked)
  BY <1>1 DEF Workspace!Present, Workspace!Asks, AskOK, Workspace!Idle, Workspace!Grants,
     Workspace!AccountActions, Workspace!OwnerActions
<1>3. Workspace!Begin(r, asked)
  BY DEF Workspace!BeginOwners
<1> HIDE DEF asked
<1> QED
  BY <1>2, <1>3, BeginsAsk

LEMMA FoldsAsk ==
  ASSUME AccountsInv, NEW r \in Requests, Workspace!Folds(r)
  PROVE  Asked(r) \/ Workspace!Absorb(r)
<1>0. /\ ask \in [Requests -> Workspace!Asks] /\ ask[r] \in Workspace!Asks /\ AskOK(ask[r])
      /\ owners \subseteq Sessions \X Users
      /\ account \in [Users -> Workspace!AccountRows]
  BY DEF AccountsInv, RequestsOK, OwnersOK, AccountsOK, Workspace!Present
<1>1. ASSUME NEW u \in Users, NEW h \in Users, Workspace!AbsorbLoad(r, u, h) PROVE Asked(r)
  <2> DEFINE asked == [Workspace!Idle EXCEPT !.does = "absorb", !.actor = u, !.targets = {h},
                                   !.gain = account[h].roles \ account[u].roles]
  <2>1. account[h].roles \ account[u].roles \subseteq Workspace!Roles
    BY <1>0 DEF Workspace!AccountRows
  <2>2. asked \in Workspace!Asks /\ AskOK(asked)
    BY <1>1, <2>1 DEF Workspace!AbsorbLoad, Workspace!Asks, AskOK, Workspace!Idle,
       Workspace!Grants, Workspace!AccountActions, Workspace!OwnerActions
  <2>3. ask' = [ask EXCEPT ![r] = asked]
    BY <1>1 DEF Workspace!AbsorbLoad
  <2> HIDE DEF asked
  <2> QED
    BY <2>2, <2>3 DEF Asked
<1>2. CASE Workspace!AbsorbShared(r)
  <2> DEFINE rows == {row \in Workspace!RowsOf(ask[r].targets) : <<row[1], ask[r].actor>> \in owners}
             asked == [ask[r] EXCEPT !.step = "checked", !.rows = rows]
  <2>1. rows \subseteq Sessions \X Users
    BY <1>0 DEF Workspace!RowsOf
  <2>2. ask' = [ask EXCEPT ![r] = asked]
    BY <1>0, <1>2 DEF Workspace!AbsorbShared
  <2> HIDE DEF rows
  <2>3. asked \in Workspace!Asks
    BY <1>0, <2>1 DEF Workspace!Asks
  <2>4. AskOK(asked)
    BY <1>0 DEF AskOK, Workspace!Asks
  <2> HIDE DEF asked
  <2> QED
    BY <2>2, <2>3, <2>4 DEF Asked
<1> QED
  BY <1>1, <1>2 DEF Workspace!Folds

LEMMA AskKinds ==
  ASSUME AccountsInv, [Workspace!Next]_Workspace!vars
  PROVE  ask' = ask \/ \E r \in Requests : Asked(r) \/ Workspace!Absorb(r)
<1>1. ASSUME NEW r \in Requests, NEW new, Workspace!Commit(r, new) PROVE Asked(r)
  BY <1>1, IdleAsk DEF Workspace!Commit, Asked
<1>2. ASSUME NEW r \in Requests,
             Workspace!AccountsSettled(r) \/ Workspace!OwnersManaged(r) PROVE Asked(r)
  BY <1>1, <1>2 DEF Workspace!AccountsSettled, Workspace!Grant, Workspace!Revoke,
     Workspace!Demote, Workspace!DetachBatch, Workspace!DeleteBatch,
     Workspace!OwnersManaged, Workspace!CreateSession, Workspace!AddOwner, Workspace!RemoveOwner
<1>3. ASSUME NEW r \in Requests, Workspace!RequestEnds(r) PROVE Asked(r)
  BY <1>3, IdleAsk DEF Workspace!RequestEnds, Asked
<1>4. (\E u \in Users : Workspace!SignIn(u)) \/ UNCHANGED Workspace!vars
      \/ (\E actor, u \in Users, asAdmin \in BOOLEAN : Workspace!Invite(actor, u, asAdmin))
      => ask' = ask
  BY DEF Workspace!SignIn, Workspace!Invite, Workspace!vars
<1>5. ASSUME NEW r \in Requests, NEW does \in Workspace!AccountActions, NEW actor \in Workspace!Present,
             NEW targets \in SUBSET Workspace!Present \ {{}},
               Workspace!BeginBatch(r, does, actor, targets)
      PROVE  Asked(r)
  BY <1>5, BatchAsks
<1> QED
  BY <1>2, <1>3, <1>4, <1>5, SingleRowAsks, OwnersAsk, FoldsAsk DEF Workspace!Next

LEMMA RequestsStep ==
  ASSUME AccountsInv, [Workspace!Next]_Workspace!vars, created \subseteq created'
  PROVE  RequestsOK'
<1>0. /\ ask \in [Requests -> Workspace!Asks] /\ \A r \in Requests : AskOK(ask[r])
      /\ owners \subseteq Sessions \X Users
  BY DEF AccountsInv, RequestsOK, OwnersOK, Workspace!Present
<1>1. ASSUME NEW q, AskOK(q) PROVE AskOK(q)'
  BY <1>1 DEF AskOK
<1>2. CASE ask' = ask
  BY <1>0, <1>2 DEF AskOK, RequestsOK
<1>3. ASSUME NEW r \in Requests, NEW x \in Workspace!Asks, AskOK(x), ask' = [ask EXCEPT ![r] = x]
      PROVE  RequestsOK'
  BY <1>0, <1>3 DEF AskOK, RequestsOK
<1>4. ASSUME NEW r \in Requests, Workspace!Absorb(r) PROVE RequestsOK'
  <2> DEFINE u == ask[r].actor
             ToU(rows) == {IF row[2] \in ask[r].targets THEN <<row[1], u>> ELSE row : row \in rows}
  <2>1. /\ ask' = [p \in Requests |-> IF p = r THEN Workspace!Idle ELSE [ask[p] EXCEPT !.rows = ToU(@)]]
        /\ u \in Users
    BY <1>0, <1>4 DEF Workspace!Absorb, Workspace!Doing, AskOK
  <2>2. ASSUME NEW p \in Requests
        PROVE  [ask[p] EXCEPT !.rows = ToU(@)] \in Workspace!Asks /\ AskOK([ask[p] EXCEPT !.rows = ToU(@)])
    <3>1. ask[p] \in Workspace!Asks /\ ask[p].rows \subseteq Sessions \X Users
      BY <1>0 DEF Workspace!Asks
    <3>2. ToU(ask[p].rows) \in SUBSET (Sessions \X Users)
      BY <2>1, <3>1
    <3> HIDE DEF ToU
    <3>3. AskOK(ask[p])
      BY <1>0
    <3> QED
      BY <3>1, <3>2, <3>3 DEF Workspace!Asks, AskOK
  <2> HIDE DEF ToU
  <2> QED
    BY <2>1, <2>2, IdleAsk DEF RequestsOK, AskOK
<1> QED
  BY <1>2, <1>3, <1>4, AskKinds DEF Asked

LEMMA InvStart ==
  ASSUME Workspace!AccountsAssumption, Workspace!Init PROVE AccountsInv
<1>1. account \in [Users -> Workspace!AccountRows] /\ AbsentIsBlank
  <2> DEFINE Here == [present: {TRUE}, roles: SUBSET Workspace!Roles, claimed: {TRUE}, acted: {FALSE}]
  <2>1. Workspace!Absent \in Workspace!AccountRows /\ Workspace!Absent.roles = {} /\ Here \subseteq Workspace!AccountRows
    BY DEF Workspace!Absent, Workspace!AccountRows
  <2>2. \A a \in Here : a.present
    OBVIOUS
  <2>3. account \in [Users -> {Workspace!Absent} \cup Here]
    BY DEF Workspace!Init
  <2> HIDE DEF Here
  <2> QED
    BY <2>1, <2>2, <2>3 DEF AbsentIsBlank, Workspace!Present
<1> QED
  BY <1>1, IdleAsk DEF Workspace!Init, AccountsInv, AccountsOK, OwnersOK, RequestsOK

LEMMA InvStep ==
  ASSUME Workspace!AccountsAssumption, AccountsInv, [Workspace!Next]_Workspace!vars
  PROVE  AccountsInv'
  BY StepKeepsTypes, RequestsStep DEF AccountsInv

(* The foreign key: whatever is deleted, folded or detached meanwhile, an  *)
(* owner is an account that is there, of a session that is there.          *)
THEOREM AccountsTyped == Workspace!Spec => []Workspace!TypeOK
  BY WorkspaceAssumption, InvStart, InvStep, InvTypes, PTL DEF Workspace!Spec

-----------------------------------------------------------------------------
(* Who can take the last.                                                  *)
LEMMA AbsorbEnds ==
  ASSUME AccountsInv, NEW r \in Requests, Workspace!Absorb(r)
  PROVE  ask[r].does = "absorb" /\ Workspace!Ends(r)
  BY DEF Workspace!Absorb, Workspace!Doing, Workspace!Ends, AccountsInv, RequestsOK

LEMMA StepEffects ==
  ASSUME Workspace!AccountsAssumption, AccountsInv, [Workspace!Next]_Workspace!vars
  PROVE  \/ RolesGrow /\ UNCHANGED <<created, owners>>
         \/ \E r \in Requests : Effects(r)
         \/ \E r \in Requests : ask[r].does = "absorb" /\ Workspace!Ends(r)
<1>1. Quiet => RolesGrow /\ UNCHANGED <<created, owners>>
  BY DEF Quiet, RolesGrow
<1> QED
  BY <1>1, StepKinds, SignInGrows, InviteGrows, Settled, AbsorbEnds DEF AccountsInv

LEMMA AdminsLeave ==
  ASSUME AccountsInv, NEW r \in Requests, Effects(r),
         Workspace!HasRole("admin") # {}, Workspace!HasRole("admin")' = {}
  PROVE  ask[r].does = "delete" /\ Workspace!Ends(r)
<1>0. AccountsOK /\ Workspace!Present \subseteq Users /\ Workspace!HasRole("admin") \subseteq Users
  BY DEF AccountsInv, Workspace!Present, Workspace!HasRole
<1>1. PICK a \in Workspace!HasRole("admin") : TRUE
  OBVIOUS
<1>2. ASSUME NEW u \in Workspace!HasRole("admin"), account[u].roles \subseteq account'[u].roles PROVE FALSE
  BY <1>2 DEF Workspace!HasRole
<1>3. CASE Gives(r)
  BY <1>0, <1>1, <1>2, <1>3, GivenAfter DEF Gives, RolesGrow
<1>4. CASE Revokes(r)
  <2>1. PICK us \in SUBSET Workspace!Present : Becomes(Workspace!Taken(us, {"operator"}))
    BY <1>4 DEF Revokes
  <2>2. \/ account'[a].roles = account[a].roles
        \/ account'[a].roles = account[a].roles \ {"operator"}
    BY <1>0, <1>1, <2>1, TakenAfter DEF Workspace!Roles
  <2> QED
    BY <1>1, <2>2 DEF Workspace!HasRole
<1>5. CASE Demotes(r)
  <2>1. PICK us \in SUBSET Workspace!Present : Workspace!LeavesAnAdmin(us) /\ Becomes(Workspace!Taken(us, {"admin"}))
    BY <1>5 DEF Demotes
  <2>2. PICK b \in Workspace!HasRole("admin") : b \notin us
    BY <1>1, <2>1 DEF Workspace!LeavesAnAdmin
  <2>3. account'[b].roles = account[b].roles
    BY <1>0, <2>1, <2>2, TakenAfter DEF Workspace!Roles
  <2> QED
    BY <1>2, <2>3
<1>6. CASE DeletesLocked(r)
  <2>1. PICK us \in SUBSET Workspace!Present : Workspace!LeavesAnAdmin(us) /\ Becomes(Workspace!Without(us))
    BY <1>6 DEF DeletesLocked, Workspace!Deletable
  <2>2. PICK b \in Workspace!HasRole("admin") : b \notin us
    BY <1>1, <2>1 DEF Workspace!LeavesAnAdmin
  <2>3. account'[b].roles = account[b].roles
    BY <1>0, <2>1, <2>2, WithoutAfter
  <2> QED
    BY <1>2, <2>3
<1>7. CASE Becomes(account)
  BY <1>0, <1>1, <1>2, <1>7, SameAfter
<1>8. CASE DeletesLate(r)
  BY <1>8 DEF DeletesLate
<1> QED
  BY <1>3, <1>4, <1>5, <1>6, <1>7, <1>8 DEF Effects, DetachesLocked, Adds, Removes, DetachesLate

(* last_admin: of every step, through any number of demotes and batches at *)
(* once, the workspace loses its last admin only by one row's delete or by *)
(* a sign-in's fold, which count with nothing locked.                      *)
THEOREM AdminsStay ==
  Workspace!Spec => [][Workspace!LockedActionsLeaveAnAdmin]_Workspace!vars
<1>1. AccountsInv /\ [Workspace!Next]_Workspace!vars => Workspace!LockedActionsLeaveAnAdmin
  <2> SUFFICES ASSUME AccountsInv, [Workspace!Next]_Workspace!vars,
                      Workspace!HasRole("admin") # {}, Workspace!HasRole("admin")' = {}
               PROVE  \E r \in Requests : ask[r].does \in {"delete", "absorb"} /\ Workspace!Ends(r)
    BY DEF Workspace!LockedActionsLeaveAnAdmin
  <2>1. ~RolesGrow
    BY DEF RolesGrow, Workspace!HasRole
  <2> QED
    BY <2>1, WorkspaceAssumption, StepEffects, AdminsLeave
<1> QED
  BY <1>1, WorkspaceAssumption, InvStart, InvStep, PTL DEF Workspace!Spec

LEMMA OwnersLeave ==
  ASSUME AccountsInv, NEW r \in Requests, Effects(r), NEW s,
         Workspace!OwnersOf(s) # {}, Workspace!OwnersOf(s)' = {}
  PROVE  ask[r].does \in {"detach", "delete"} /\ Workspace!Ends(r)
<1>1. PICK o \in Users : <<s, o>> \in owners
  BY DEF Workspace!OwnersOf
<1>2. ASSUME NEW u \in Users, <<s, u>> \in owners' PROVE FALSE
  BY <1>2 DEF Workspace!OwnersOf
<1>3. CASE owners \subseteq owners'
  BY <1>1, <1>2, <1>3
<1>4. CASE DetachesLocked(r)
  <2>1. PICK us \in SUBSET Workspace!Present : Workspace!LeavesAnOwner(us) /\ owners' = owners \ Workspace!RowsOf(us)
    BY <1>4 DEF DetachesLocked
  <2>2. PICK b \in Workspace!OwnersOf(s) : b \notin us
    BY <1>1, <2>1 DEF Workspace!LeavesAnOwner, Workspace!RowsOf, Workspace!OwnersOf
  <2>3. <<s, b>> \in owners' /\ b \in Users
    BY <2>1, <2>2 DEF Workspace!RowsOf, Workspace!OwnersOf
  <2> QED
    BY <1>2, <2>3
<1>5. CASE Removes(r)
  <2>1. PICK t, us : Workspace!OwnersOf(t) \ us # {} /\ owners' = owners \ ({t} \X us)
    BY <1>5 DEF Removes
  <2>2. CASE t = s
    BY <1>2, <2>1, <2>2 DEF Workspace!OwnersOf
  <2>3. CASE t # s
    BY <1>1, <1>2, <2>1, <2>3
  <2> QED
    BY <2>2, <2>3
<1>6. Gives(r) \/ Revokes(r) \/ Demotes(r) \/ DeletesLocked(r) \/ Adds(r) => owners \subseteq owners'
  BY DEF Gives, Revokes, Demotes, DeletesLocked, Adds
<1> QED
  BY <1>3, <1>4, <1>5, <1>6 DEF Effects, DetachesLate, DeletesLate

(* remove_owner, sole_owner: of every step, a session loses its last owner *)
(* only by an action that counts first and writes later: one row's detach  *)
(* or delete, or a sign-in's fold.                                         *)
THEOREM SessionsKeepOwners ==
  Workspace!Spec => [][Workspace!LockedActionsLeaveAnOwner]_Workspace!vars
<1>1. AccountsInv /\ [Workspace!Next]_Workspace!vars => Workspace!LockedActionsLeaveAnOwner
  <2> SUFFICES ASSUME AccountsInv, [Workspace!Next]_Workspace!vars, NEW s \in created,
                      Workspace!OwnersOf(s) # {}, Workspace!OwnersOf(s)' = {}
               PROVE  \E r \in Requests : ask[r].does \in {"detach", "delete", "absorb"} /\ Workspace!Ends(r)
    BY DEF Workspace!LockedActionsLeaveAnOwner
  <2>1. owners' # owners
    BY DEF Workspace!OwnersOf
  <2> QED
    BY <2>1, WorkspaceAssumption, StepEffects, OwnersLeave
<1> QED
  BY <1>1, WorkspaceAssumption, InvStart, InvStep, PTL DEF Workspace!Spec

LEMMA OwnersKeepRoles ==
  ASSUME AccountsInv, Workspace!OwnersAreOperators, NEW r \in Requests, Effects(r)
  PROVE  Workspace!OwnersAreOperators'
<1>0. AccountsOK /\ Workspace!Present \subseteq Users /\ Workspace!Eligible = {u \in Workspace!Present : account[u].roles # {}}
      /\ Workspace!Eligible' = {u \in Workspace!Present' : account'[u].roles # {}}
  BY DEF AccountsInv, Workspace!Present, Workspace!Eligible
<1>1. CASE Gives(r)
  BY <1>0, <1>1, GivenAfter DEF Gives, RolesGrow, Workspace!OwnersAreOperators
<1>2. CASE Revokes(r)
  <2>1. PICK us \in SUBSET Workspace!Present :
          Workspace!RowsOf(us) = {} /\ Becomes(Workspace!Taken(us, {"operator"})) /\ owners' = owners
    BY <1>2 DEF Revokes
  <2>2. Workspace!Present' = Workspace!Present /\ \A u \in Users \ us : account'[u].roles = account[u].roles
    BY <1>0, <2>1, TakenAfter DEF Workspace!Roles
  <2>3. \A row \in owners : row[2] \notin us
    BY <2>1 DEF Workspace!RowsOf
  <2> QED
    BY <1>0, <2>1, <2>2, <2>3 DEF Workspace!OwnersAreOperators
<1>3. CASE Demotes(r)
  <2>1. PICK us \in SUBSET Workspace!Present :
          /\ Workspace!RowsOf(us \ Workspace!HasRole("operator")) = {} /\ Becomes(Workspace!Taken(us, {"admin"})) /\ owners' = owners
    BY <1>3 DEF Demotes
  <2>2. /\ Workspace!Present' = Workspace!Present
        /\ \A u \in us : account'[u].roles = account[u].roles \ {"admin"}
        /\ \A u \in Users \ us : account'[u].roles = account[u].roles
    BY <1>0, <2>1, TakenAfter DEF Workspace!Roles
  <2>3. ASSUME NEW row \in owners PROVE row[2] \in Workspace!Eligible'
    <3>1. row[2] \in Workspace!Eligible
      BY DEF Workspace!OwnersAreOperators
    <3>2. CASE row[2] \notin us
      BY <1>0, <2>2, <3>1, <3>2
    <3>3. CASE row[2] \in us
      <4>1. "operator" \in account[row[2]].roles
        BY <1>0, <2>1, <3>3 DEF Workspace!RowsOf, Workspace!HasRole
      <4> QED
        BY <1>0, <2>2, <3>1, <3>3, <4>1
    <3> QED
      BY <3>2, <3>3
  <2> QED
    BY <2>1, <2>3 DEF Workspace!OwnersAreOperators
<1>4. CASE DeletesLocked(r) \/ DeletesLate(r)
  <2>1. PICK us \in SUBSET Workspace!Present :
          Becomes(Workspace!Without(us)) /\ \A row \in owners' : row \in owners /\ row[2] \notin us
    BY <1>4 DEF DeletesLocked, Workspace!Deletable, DeletesLate, Workspace!RowsOf
  <2>2. Workspace!Present' = Workspace!Present \ us /\ \A u \in Users \ us : account'[u].roles = account[u].roles
    BY <1>0, <2>1, WithoutAfter
  <2> QED
    BY <1>0, <2>1, <2>2 DEF Workspace!OwnersAreOperators
<1>5. CASE Becomes(account) /\ \A row \in owners' : row \in owners \/ row[2] \in Workspace!Eligible
  BY <1>0, <1>5, SameAfter DEF Workspace!OwnersAreOperators
<1>6. DetachesLocked(r) \/ Adds(r) \/ Removes(r) \/ DetachesLate(r) =>
        Becomes(account) /\ \A row \in owners' : row \in owners \/ row[2] \in Workspace!Eligible
  BY DEF DetachesLocked, Adds, Removes, DetachesLate
<1> QED
  BY <1>1, <1>2, <1>3, <1>4, <1>5, <1>6 DEF Effects

(* lock_owner_eligible: of every step, an owner who is neither an operator *)
(* nor an admin comes only from a sign-in's fold.                          *)
THEOREM OwnersKeepTheirRoles ==
  Workspace!Spec => [][Workspace!OwnersStayOperators]_Workspace!vars
<1>1. AccountsInv /\ [Workspace!Next]_Workspace!vars => Workspace!OwnersStayOperators
  <2> SUFFICES ASSUME AccountsInv, [Workspace!Next]_Workspace!vars, Workspace!OwnersAreOperators,
                      ~\E r \in Requests : ask[r].does = "absorb" /\ Workspace!Ends(r)
               PROVE  Workspace!OwnersAreOperators'
    BY DEF Workspace!OwnersStayOperators
  <2>1. RolesGrow /\ UNCHANGED owners => Workspace!OwnersAreOperators'
    BY DEF RolesGrow, Workspace!OwnersAreOperators, Workspace!Eligible, Workspace!Present
  <2> QED
    BY <2>1, WorkspaceAssumption, StepEffects, OwnersKeepRoles
<1> QED
  BY <1>1, WorkspaceAssumption, InvStart, InvStep, PTL DEF Workspace!Spec

-----------------------------------------------------------------------------
(* The behaviours of PeopleMC that are of the accounts are those of        *)
(* WorkspaceAccounts, step for step.                                       *)
OfAccounts == which = "accounts"

LEMMA AccountSteps ==
  ASSUME OfAccounts, [NextRosters \/ NextAccounts]_allVars
  PROVE  OfAccounts' /\ [Workspace!Next]_Workspace!vars
<1>1. CASE UNCHANGED allVars
  BY <1>1 DEF allVars, accountVars, Workspace!vars, OfAccounts
<1>2. CASE NextAccounts
  <2>1. OfAccounts'
    BY <1>2 DEF NextAccounts, InAccounts, OfAccounts
  <2>2. \/ \E u \in Users : Workspace!SignIn(u)
        \/ \E actor, u \in Users, asAdmin \in BOOLEAN : Workspace!Invite(actor, u, asAdmin)
        \/ \E r \in Requests :
             \/ \E does \in Workspace!AccountActions, actor \in Workspace!Present,
                  targets \in SUBSET Workspace!Present \ {{}} :
                   Workspace!BeginBatch(r, does, actor, targets)
             \/ \E does \in Workspace!OwnerActions, actor, u \in Workspace!Present,
                  s \in Sessions : Workspace!BeginOwners(r, does, actor, u, s)
             \/ Workspace!AccountsSettled(r) \/ Workspace!SingleRow(r)
             \/ Workspace!OwnersManaged(r) \/ Workspace!Folds(r) \/ Workspace!RequestEnds(r)
    BY <1>2 DEF NextAccounts, InAccounts
  <2> QED
    BY <2>1, <2>2 DEF Workspace!Next
<1>3. CASE NextRosters
  BY <1>3 DEF NextRosters, InRosters, OfAccounts
<1> QED
  BY <1>1, <1>2, <1>3

LEMMA AccountBehaviours ==
  /\ SpecPeople /\ OfAccounts => Workspace!Spec
  /\ SpecPeople => []OfAccounts \/ []~OfAccounts
<1>1. InitPeople /\ OfAccounts => Workspace!Init
  BY DEF InitPeople, OfAccounts
<1>2. OfAccounts /\ [NextRosters \/ NextAccounts]_allVars => OfAccounts' /\ [Workspace!Next]_Workspace!vars
  BY AccountSteps
<1>3. ~OfAccounts /\ [NextRosters \/ NextAccounts]_allVars => ~OfAccounts'
  BY DEF NextRosters, NextAccounts, InRosters, InAccounts, allVars, OfAccounts
<1> QED
  BY <1>1, <1>2, <1>3, PTL DEF SpecPeople, Workspace!Spec

(***************************************************************************)
(* remove_owner, sole_owner, last_admin, lock_owner_eligible: of every     *)
(* step, through any number of requests at once, a session loses its last  *)
(* owner, the workspace its last admin and an owner the role only by the   *)
(* actions that count with nothing locked.                                 *)
(***************************************************************************)
THEOREM LockedActionsTakeNoLast == SpecPeople => LockedActionsLeaveSomeone
<1> DEFINE Kept == /\ Workspace!LockedActionsLeaveAnOwner
                   /\ Workspace!LockedActionsLeaveAnAdmin
                   /\ Workspace!OwnersStayOperators
<1>1. Workspace!Spec => [][Kept]_Workspace!vars
  <2>1. Workspace!Spec => [][Workspace!LockedActionsLeaveAnOwner]_Workspace!vars
    BY SessionsKeepOwners
  <2>2. Workspace!Spec => [][Workspace!LockedActionsLeaveAnAdmin]_Workspace!vars
    BY AdminsStay
  <2>3. Workspace!Spec => [][Workspace!OwnersStayOperators]_Workspace!vars
    BY OwnersKeepTheirRoles
  <2> QED
    BY <2>1, <2>2, <2>3, PTL
<1>2. [Kept]_Workspace!vars => [which = "accounts" => /\ Workspace!LockedActionsLeaveAnOwner
                                              /\ Workspace!LockedActionsLeaveAnAdmin
                                              /\ Workspace!OwnersStayOperators]_allVars
  <2>1. CASE Kept
    BY <2>1
  <2>2. CASE UNCHANGED Workspace!vars
    BY <2>2 DEF Workspace!vars, Workspace!LockedActionsLeaveAnOwner,
       Workspace!LockedActionsLeaveAnAdmin,
                Workspace!OwnersStayOperators, Workspace!OwnersAreOperators, Workspace!OwnersOf,
                Workspace!HasRole, Workspace!Eligible, Workspace!Present
  <2> QED
    BY <2>1, <2>2
<1>3. ~OfAccounts => [which = "accounts" => /\ Workspace!LockedActionsLeaveAnOwner
                                            /\ Workspace!LockedActionsLeaveAnAdmin
                                            /\ Workspace!OwnersStayOperators]_allVars
  BY DEF OfAccounts
<1> QED
  BY <1>1, <1>2, <1>3, AccountBehaviours, PTL DEF SpecPeople, LockedActionsLeaveSomeone
=============================================================================
