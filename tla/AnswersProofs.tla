---------------------------- MODULE AnswersProofs ----------------------------
(***************************************************************************)
(* Proofs about the answers of one assignment.  InstrumentFields, for      *)
(* forms of any size and branches of any depth: a closed branch holds no   *)
(* value, a sheet whose every row is stamped is complete, and no edit of a *)
(* form takes an answer away.  AnswerTabs, for any number of tabs and      *)
(* posts: the save that meets no other commits a sheet its branches allow. *)
(* And the theorems of GroupAnswers on the behaviours of AnswersMC that    *)
(* are its own.                                                            *)
(***************************************************************************)
EXTENDS AnswersMC, FiniteSetTheorems, WellFoundedInduction, TLAPS

-----------------------------------------------------------------------------
(* Above(F, i) is the least set with i's parent and its own parents.       *)
LEMMA AboveIsClosed ==
  ASSUME NEW F, NEW i
  PROVE  ParentsOf(F, Above(F, i) \cup {i}) \subseteq Above(F, i)
BY DEF Above, ParentsOf

LEMMA AboveIsLeast ==
  ASSUME NEW F, NEW i, NEW S, ParentsOf(F, S \cup {i}) \subseteq S
  PROVE  Above(F, i) \subseteq S
<1> DEFINE T == S \cap ParentsOf(F, DOMAIN F)
<1>1. ParentsOf(F, T \cup {i}) \subseteq T
  BY DEF ParentsOf
<1>2. T \in SUBSET ParentsOf(F, DOMAIN F)
  OBVIOUS
<1> HIDE DEF T
<1>3. \A p \in Above(F, i) : p \in T
  BY <1>1, <1>2 DEF Above
<1> QED
  BY <1>3 DEF T

LEMMA AboveOfAbove ==
  ASSUME NEW F, NEW i, NEW p \in Above(F, i)
  PROVE  Above(F, p) \subseteq Above(F, i)
<1>1. ParentsOf(F, Above(F, i) \cup {p}) \subseteq Above(F, i)
  BY AboveIsClosed DEF ParentsOf
<1> QED
  BY <1>1, AboveIsLeast

LEMMA AboveAreParents ==
  ASSUME NEW F, NEW i
  PROVE  /\ \A p \in Above(F, i) : p # NoField /\ \E j \in DOMAIN F : F[j].parent = p
         /\ i \in DOMAIN F /\ F[i].parent # NoField => F[i].parent \in Above(F, i)
         /\ i \notin Governed(F) => Above(F, i) = {}
<1>1. \A p \in Above(F, i) : p # NoField /\ \E j \in DOMAIN F : F[j].parent = p
  BY DEF Above, ParentsOf
<1>2. i \in DOMAIN F /\ F[i].parent # NoField => F[i].parent \in Above(F, i)
  BY AboveIsClosed DEF ParentsOf
<1>3. ASSUME i \notin Governed(F) PROVE Above(F, i) = {}
  <2>1. ParentsOf(F, {} \cup {i}) \subseteq {}
    BY <1>3 DEF ParentsOf, Governed
  <2> QED
    BY <2>1, AboveIsLeast
<1> QED
  BY <1>1, <1>2, <1>3

(* Forms with the same parents from i up have the same fields above i.     *)
LEMMA SameAbove ==
  ASSUME NEW F, NEW G, NEW i,
         \A j \in Above(F, i) \cup {i} :
           (j \in DOMAIN F <=> j \in DOMAIN G) /\ (j \in DOMAIN F => F[j].parent = G[j].parent)
  PROVE  Above(G, i) = Above(F, i)
<1>1. ParentsOf(G, Above(F, i) \cup {i}) \subseteq Above(F, i)
  <2>1. ParentsOf(G, Above(F, i) \cup {i}) = ParentsOf(F, Above(F, i) \cup {i})
    BY DEF ParentsOf
  <2> QED
    BY <2>1, AboveIsClosed
<1>2. Above(G, i) \subseteq Above(F, i)
  BY <1>1, AboveIsLeast
<1>3. ParentsOf(F, Above(G, i) \cup {i}) \subseteq Above(G, i)
  <2>1. ParentsOf(F, Above(G, i) \cup {i}) = ParentsOf(G, Above(G, i) \cup {i})
    BY <1>2 DEF ParentsOf
  <2> QED
    BY <2>1, AboveIsClosed
<1>4. Above(F, i) \subseteq Above(G, i)
  BY <1>3, AboveIsLeast
<1> QED
  BY <1>2, <1>4

-----------------------------------------------------------------------------
(* What drop_closed_branch_answers leaves is under open branches only: the *)
(* branch of a field that applies is above it, and applies too.            *)
LEMMA DropClosedLeavesApplying ==
  ASSUME NEW F, NEW s, DOMAIN s = DOMAIN F, NEW left, left = DropClosed(F, s)
  PROVE  /\ DOMAIN left = DOMAIN F /\ Answered(left) \subseteq Applies(F, left)
         /\ \A i \in DOMAIN F : left[i] = s[i] \/ left[i] = Blank
         /\ \A i \in DOMAIN F : left[i] # s[i] => i \in ClosedGoverned(F, s)
<1>1. /\ DOMAIN left = DOMAIN F
      /\ \A i \in DOMAIN F : i \in ClosedGoverned(F, s) => left[i] = Blank
      /\ \A i \in DOMAIN F : i \notin ClosedGoverned(F, s) => left[i] = s[i]
  BY DEF DropClosed
<1>2. ASSUME NEW i \in Applies(F, s) PROVE i \in Applies(F, left)
  <2>1. ASSUME NEW p \in Above(F, i)
        PROVE  p \in Applies(F, s)
    <3>1. Above(F, p) \subseteq Above(F, i)
      BY AboveOfAbove
    <3> QED
      BY <1>2, <3>1 DEF Applies
  <2>2. \A p \in Above(F, i) : left[p] = s[p]
    BY <1>1, <2>1 DEF ClosedGoverned, Applies
  <2> QED
    BY <1>2, <2>2 DEF Applies, Open
<1>3. ASSUME NEW i \in Answered(left) PROVE i \in Applies(F, left)
  <2>1. i \in DOMAIN F /\ i \notin ClosedGoverned(F, s)
    BY <1>1, <1>3 DEF Answered
  <2>2. CASE i \in Governed(F)
    BY <1>2, <2>1, <2>2 DEF ClosedGoverned
  <2>3. CASE i \notin Governed(F)
    <3>1. Above(F, i) = {}
      BY <2>3, AboveAreParents
    <3> QED
      BY <2>1, <3>1 DEF Applies
  <2> QED
    BY <2>2, <2>3
<1> QED
  BY <1>1, <1>3

-----------------------------------------------------------------------------
(* A form whose branches end: what Whole asks of the parents, and all that *)
(* a form keeps through the per-field routes.                              *)
Treed(F) ==
    \A i \in Governed(F) : F[i].parent \in DOMAIN F /\ i \notin Above(F, i)

LEMMA TreedAbove ==
  ASSUME NEW F, Treed(F), NEW i
  PROVE  Above(F, i) \subseteq DOMAIN F /\ i \notin Above(F, i)
<1>1. \A p \in Above(F, i) : p \in DOMAIN F
  BY AboveAreParents DEF Treed, Governed
<1>2. i \notin Above(F, i)
  BY AboveAreParents DEF Treed
<1> QED
  BY <1>1, <1>2

LEMMA WholeIsTreed ==
  ASSUME NEW F, Whole(F)
  PROVE  Treed(F)
BY DEF Whole, Treed

(* On such a form a field applies while every branch above it lets it.     *)
LEMMA TreedApplies ==
  ASSUME NEW F, Treed(F), NEW s, NEW i \in DOMAIN F
  PROVE  i \in Applies(F, s)
           <=> \A p \in Above(F, i) : F[p].mode = "require" \/ Open(F, p, s)
BY TreedAbove DEF Applies

(* A form without branches closes nothing.                                 *)
LEMMA UnbranchedApplies ==
  ASSUME NEW F, Governed(F) = {}, NEW s
  PROVE  Treed(F) /\ Applies(F, s) = DOMAIN F
<1>1. Treed(F)
  BY DEF Treed
<1>2. \A i \in DOMAIN F : Above(F, i) = {}
  BY AboveAreParents
<1> QED
  BY <1>1, <1>2, TreedApplies DEF Applies

-----------------------------------------------------------------------------
(* Finite sets of numbers.                                                 *)
After(S, m) == {j \in S : j > m}

LEMMA SmallestPart ==
  ASSUME NEW S, IsFiniteSet(S), NEW parts, parts # {}, \A T \in parts : T \subseteq S
  PROVE  \E T \in parts : \A U \in parts : U \subseteq T => U = T
<1>1. parts \subseteq FiniteSubsetsOf(S)
  BY FS_FiniteSubsetsOfFinite
<1>2. PICK T \in parts : \A U \in parts : ~(<<U, T>> \in StrictSubsetOrdering(S))
  BY <1>1, FS_StrictSubsetOrderingWellFounded, WFMin
<1>3. ASSUME NEW U \in parts, U \subseteq T, U # T PROVE FALSE
  <2>1. <<U, T>> \in StrictSubsetOrdering(S)
    BY <1>3 DEF StrictSubsetOrdering
  <2> QED
    BY <1>2, <2>1
<1> QED
  BY <1>3

LEMMA GreatestExists ==
  ASSUME NEW S \in SUBSET Nat, IsFiniteSet(S), S # {}
  PROVE  \E m \in S : \A j \in S : j <= m
<1> DEFINE parts == {After(S, i) : i \in S}
<1>1. parts # {} /\ \A T \in parts : T \subseteq S
  BY DEF After
<1>2. PICK m \in S : \A j \in S : After(S, j) \subseteq After(S, m) => After(S, j) = After(S, m)
  <2>1. PICK T \in parts : \A U \in parts : U \subseteq T => U = T
    <3> HIDE DEF parts
    <3> QED
      BY <1>1, SmallestPart
  <2> QED
    BY <2>1
<1>3. ASSUME NEW j \in S, j > m PROVE FALSE
  <2> SUFFICES ASSUME NEW i \in After(S, j) PROVE i \in After(S, m)
    <3>1. j \in After(S, m) /\ j \notin After(S, j)
      BY <1>3 DEF After
    <3> QED
      BY <1>2, <3>1
  <2>1. i \in Nat /\ j \in Nat /\ m \in Nat /\ i \in S
    BY DEF After
  <2> QED
    BY <1>3, <2>1 DEF After
<1> QED
  BY <1>3

LEMMA FieldIdsFinite ==
  ASSUME NEW S \in SUBSET FieldIds
  PROVE  IsFiniteSet(S) /\ S \in SUBSET Nat /\ Cardinality(S) \in Nat
<1>1. IsFiniteSet(FieldIds) /\ FieldIds \subseteq Nat
  <2>1. MaxFields \in Nat
    BY FieldsAssumption
  <2> QED
    BY <2>1, FS_Interval DEF FieldIds
<1>2. IsFiniteSet(S)
  BY <1>1, FS_Subset
<1> QED
  BY <1>1, <1>2, FS_CardinalityType

LEMMA RankIsNat ==
  ASSUME NEW F, DOMAIN F \subseteq FieldIds, NEW i
  PROVE  Rank(F, i) \in Nat
<1> DEFINE S == {j \in DOMAIN F : \/ F[j].ord < F[i].ord
                                  \/ F[j].ord = F[i].ord /\ j < i}
<1>1. S \in SUBSET FieldIds
  OBVIOUS
<1> QED
  BY <1>1, FieldIdsFinite DEF Rank

(* A new field's id is one no stored field has.                            *)
LEMMA NewIdIsNew ==
  ASSUME DOMAIN fields \subseteq FieldIds
  PROVE  /\ NewId \notin DOMAIN fields /\ NewId # NoField
         /\ NewId <= MaxFields => NewId \in FieldIds
<1>1. CASE DOMAIN fields = {}
  BY <1>1, FieldsAssumption DEF NewId, NoField, FieldIds
<1>2. CASE DOMAIN fields # {}
  <2>1. IsFiniteSet(DOMAIN fields) /\ DOMAIN fields \in SUBSET Nat
    BY FieldIdsFinite
  <2>2. \E m \in DOMAIN fields : \A j \in DOMAIN fields : j <= m
    BY <1>2, <2>1, GreatestExists
  <2>3. PICK m \in DOMAIN fields : /\ \A j \in DOMAIN fields : j <= m
                                   /\ NewId = 1 + m
    BY <1>2, <2>2 DEF NewId
  <2>4. m \in Nat /\ \A j \in DOMAIN fields : j \in Nat
    BY <2>1
  <2>5. NewId \notin DOMAIN fields
    <3> SUFFICES ASSUME 1 + m \in DOMAIN fields PROVE FALSE
      BY <2>3
    <3>1. 1 + m <= m
      BY <2>3
    <3> QED
      BY <2>4, <3>1
  <2>6. NewId \in Nat /\ NewId >= 1
    BY <2>3, <2>4
  <2> QED
    BY <2>5, <2>6, FieldsAssumption DEF NoField, FieldIds
<1> QED
  BY <1>1, <1>2

-----------------------------------------------------------------------------
(* What a card can send is a form.                                         *)
IsForm(F) == DOMAIN F \subseteq FieldIds /\ F \in [DOMAIN F -> Field]

LEMMA FieldAt ==
  ASSUME NEW F, IsForm(F), NEW i \in DOMAIN F
  PROVE  /\ i \in FieldIds /\ F[i] \in Field
         /\ \A n \in Nat : [F[i] EXCEPT !.ord = n] \in Field
         /\ \A b \in BOOLEAN : [F[i] EXCEPT !.req = b] \in Field
BY DEF IsForm, Field

LEMMA InPlacesIsForm ==
  ASSUME IsForm(fields)
  PROVE  IsForm(InPlaces) /\ DOMAIN InPlaces = DOMAIN fields
<1>1. \A i \in DOMAIN fields : Rank(fields, i) \in Nat
  BY RankIsNat DEF IsForm
<1>2. \A i \in DOMAIN fields : [fields[i] EXCEPT !.ord = Rank(fields, i)] \in Field
  BY <1>1, FieldAt
<1> QED
  BY <1>2 DEF InPlaces, IsForm

LEMMA MovedIsForm ==
  ASSUME IsForm(fields), NEW i \in DOMAIN fields, NEW place \in Places
  PROVE  IsForm(Moved(i, place)) /\ DOMAIN Moved(i, place) = DOMAIN fields
<1>1. Cardinality(DOMAIN fields) \in Nat
  BY FieldIdsFinite DEF IsForm
<1>2. place \in Nat
  BY <1>1 DEF Places
<1>3. \A j \in DOMAIN fields : Rank(fields, j) \in Nat
  BY RankIsNat DEF IsForm
<1> DEFINE
      ord(j) == IF j = i THEN place
                ELSE IF Rank(fields, i) < Rank(fields, j) /\ Rank(fields, j) <= place
                  THEN Rank(fields, j) - 1
                ELSE IF place <= Rank(fields, j) /\ Rank(fields, j) < Rank(fields, i)
                  THEN Rank(fields, j) + 1
                ELSE Rank(fields, j)
<1>4. ASSUME NEW j \in DOMAIN fields PROVE ord(j) \in Nat
  <2> DEFINE from == Rank(fields, i)  r == Rank(fields, j)
  <2>1. from \in Nat /\ r \in Nat
    BY <1>3
  <2> HIDE DEF from, r
  <2>2. (IF j = i THEN place
         ELSE IF from < r /\ r <= place THEN r - 1
         ELSE IF place <= r /\ r < from THEN r + 1
         ELSE r) \in Nat
    BY <1>2, <2>1
  <2> QED
    BY <2>2 DEF from, r
<1>5. Moved(i, place) = [j \in DOMAIN fields |-> [fields[j] EXCEPT !.ord = ord(j)]]
  BY DEF Moved
<1> HIDE DEF ord
<1>6. \A j \in DOMAIN fields : [fields[j] EXCEPT !.ord = ord(j)] \in Field
  BY <1>4, FieldAt
<1> QED
  BY <1>5, <1>6 DEF IsForm

LEMMA HungIsForm ==
  ASSUME IsForm(fields), NEW i \in DOMAIN fields, NEW n \in Places,
         NEW p \in DOMAIN fields \cup {NoField}, NEW q \in DOMAIN fields,
         NEW c \in Conditions, NEW m \in {"show", "require"}
  PROVE  IsForm(Hung(i, n, p, q, c, m))
<1> DEFINE G == Moved(i, n)
           H == [j \in DOMAIN fields |-> IF j = i THEN [G[i] EXCEPT !.parent = p] ELSE G[j]]
           K == [j \in DOMAIN fields |-> IF j = q THEN [H[q] EXCEPT !.cond = c] ELSE H[j]]
           L == [j \in DOMAIN fields |-> IF j = q THEN [K[q] EXCEPT !.mode = m] ELSE K[j]]
<1>1. IsForm(G) /\ DOMAIN G = DOMAIN fields
  BY MovedIsForm
<1>2. p \in FieldIds \cup {NoField} /\ c \in SUBSET Answers
  BY DEF IsForm, Conditions
<1>3. Hung(i, n, p, q, c, m) = L
  <2>1. Hung(i, n, p, q, c, m)
          = [[[G EXCEPT ![i].parent = p] EXCEPT ![q].cond = c] EXCEPT ![q].mode = m]
    BY DEF Hung
  <2> HIDE DEF G
  <2>2. [G EXCEPT ![i].parent = p] = H
    BY <1>1
  <2> HIDE DEF H
  <2>3. [H EXCEPT ![q].cond = c] = K
    BY DEF H
  <2> HIDE DEF K
  <2>4. [K EXCEPT ![q].mode = m] = L
    BY DEF K
  <2> QED
    BY <2>1, <2>2, <2>3, <2>4
<1> HIDE DEF G
<1>4. IsForm(H) /\ DOMAIN H = DOMAIN fields
  <2>1. \A j \in DOMAIN fields : H[j] \in Field
    BY <1>1, <1>2 DEF IsForm, Field
  <2> QED
    BY <1>1, <2>1 DEF IsForm
<1> HIDE DEF H
<1>5. IsForm(K) /\ DOMAIN K = DOMAIN fields
  <2>1. \A j \in DOMAIN fields : K[j] \in Field
    BY <1>2, <1>4 DEF IsForm, Field
  <2> QED
    BY <1>4, <2>1 DEF IsForm
<1> HIDE DEF K
<1>6. IsForm(L)
  <2>1. \A j \in DOMAIN fields : L[j] \in Field
    BY <1>5 DEF IsForm, Field
  <2> QED
    BY <1>5, <2>1 DEF IsForm
<1> QED
  BY <1>3, <1>6

LEMMA TypedIsForm ==
  ASSUME IsForm(fields), NEW i \in DOMAIN fields,
         NEW t \in BOOLEAN, NEW r \in BOOLEAN, NEW v \in BOOLEAN
  PROVE  IsForm(Typed(i, t, r, v))
<1> DEFINE G == InPlaces
           H == [j \in DOMAIN fields |-> IF j = i THEN [G[i] EXCEPT !.choice = t] ELSE G[j]]
           K == [j \in DOMAIN fields |-> IF j = i THEN [H[i] EXCEPT !.req = r] ELSE H[j]]
           L == [j \in DOMAIN fields |-> IF j = i THEN [K[i] EXCEPT !.vis = v] ELSE K[j]]
<1>1. IsForm(G) /\ DOMAIN G = DOMAIN fields
  BY InPlacesIsForm
<1>2. Typed(i, t, r, v) = L
  <2>1. Typed(i, t, r, v) = [[[G EXCEPT ![i].choice = t] EXCEPT ![i].req = r] EXCEPT ![i].vis = v]
    BY DEF Typed
  <2> HIDE DEF G
  <2>2. [G EXCEPT ![i].choice = t] = H
    BY <1>1
  <2> HIDE DEF H
  <2>3. [H EXCEPT ![i].req = r] = K
    BY DEF H
  <2> HIDE DEF K
  <2>4. [K EXCEPT ![i].vis = v] = L
    BY DEF K
  <2> QED
    BY <2>1, <2>2, <2>3, <2>4
<1> HIDE DEF G
<1>3. IsForm(H) /\ DOMAIN H = DOMAIN fields
  <2>1. \A j \in DOMAIN fields : H[j] \in Field
    BY <1>1 DEF IsForm, Field
  <2> QED
    BY <1>1, <2>1 DEF IsForm
<1> HIDE DEF H
<1>4. IsForm(K) /\ DOMAIN K = DOMAIN fields
  <2>1. \A j \in DOMAIN fields : K[j] \in Field
    BY <1>3 DEF IsForm, Field
  <2> QED
    BY <1>1, <2>1 DEF IsForm
<1> HIDE DEF K
<1>5. IsForm(L)
  <2>1. \A j \in DOMAIN fields : L[j] \in Field
    BY <1>4 DEF IsForm, Field
  <2> QED
    BY <1>1, <2>1 DEF IsForm
<1> QED
  BY <1>2, <1>5

LEMMA WithoutIsForm ==
  ASSUME IsForm(fields), NEW i \in DOMAIN fields
  PROVE  IsForm(Without(i))
<1>1. ASSUME NEW j \in DOMAIN fields \ {i} PROVE Without(i)[j] \in Field
  <2>1. fields[i] \in Field /\ fields[j] \in Field
    BY FieldAt
  <2>2. fields[i].ord \in Nat /\ fields[j].ord \in Nat
    BY <2>1 DEF Field
  <2> DEFINE n == IF fields[j].ord > fields[i].ord THEN fields[j].ord - 1 ELSE fields[j].ord
             p == IF fields[j].parent = i THEN NoField ELSE fields[j].parent
  <2>3. n \in Nat /\ p \in FieldIds \cup {NoField}
    BY <2>1, <2>2 DEF Field
  <2>4. Without(i)[j] = [fields[j] EXCEPT !.ord = n, !.parent = p]
    BY DEF Without
  <2> HIDE DEF n, p
  <2> QED
    BY <2>1, <2>3, <2>4 DEF Field
<1>2. Without(i) = [j \in DOMAIN fields \ {i} |-> Without(i)[j]]
  BY DEF Without
<1> QED
  BY <1>1, <1>2 DEF IsForm

LEMMA FreshIsField ==
  ASSUME NEW n \in Nat, NEW r \in BOOLEAN
  PROVE  [FreshField(n) EXCEPT !.req = r] \in Field /\ [FreshField(n) EXCEPT !.req = r].parent = NoField
BY DEF FreshField, Field

LEMMA ExtendedIsForm ==
  ASSUME IsForm(fields), NewId <= MaxFields,
         NEW p \in DOMAIN fields \cup {NoField}, NEW r \in BOOLEAN
  PROVE  IsForm(Extended(p, r))
<1> DEFINE n == Cardinality(DOMAIN fields)
           fresh == [FreshField(n) EXCEPT !.parent = p, !.req = r]
<1>1. n \in Nat
  BY FieldIdsFinite DEF IsForm
<1>2. NewId \in FieldIds /\ IsForm(InPlaces) /\ DOMAIN InPlaces = DOMAIN fields
  BY NewIdIsNew, InPlacesIsForm DEF IsForm
<1>3. p \in FieldIds \cup {NoField}
  BY DEF IsForm
<1>4. Extended(p, r) = [j \in DOMAIN fields \cup {NewId} |->
                          IF j = NewId THEN fresh ELSE InPlaces[j]]
  BY DEF Extended
<1> HIDE DEF n
<1>5. fresh \in Field
  BY <1>1, <1>3 DEF FreshField, Field
<1> HIDE DEF fresh
<1> QED
  BY <1>2, <1>4, <1>5 DEF IsForm

LEMMA PayloadsAreForms ==
  ASSUME IsForm(fields),
         NEW P \in Reordered \cup Rebranched \cup Retyped \cup Shortened
                     \cup (IF NewId <= MaxFields THEN Lengthened ELSE {})
  PROVE  IsForm(P)
<1>1. CASE P \in Reordered
  BY <1>1, MovedIsForm DEF Reordered
<1>2. CASE P \in Rebranched
  BY <1>2, HungIsForm DEF Rebranched
<1>3. CASE P \in Retyped
  BY <1>3, TypedIsForm DEF Retyped
<1>4. CASE P \in Shortened
  BY <1>4, WithoutIsForm DEF Shortened
<1>5. CASE NewId <= MaxFields /\ P \in Lengthened
  BY <1>5, ExtendedIsForm DEF Lengthened
<1> QED
  BY <1>1, <1>2, <1>3, <1>4, <1>5

-----------------------------------------------------------------------------
(* What the card stores: the payload's fields under the payload's parents, *)
(* each that governs another as the payload has it.                        *)
LEMMA HiddenIsForm ==
  ASSUME NEW payload, IsForm(payload)
  PROVE  /\ IsForm(HideBelowHidden(payload)) /\ DOMAIN HideBelowHidden(payload) = DOMAIN payload
         /\ \A i \in DOMAIN payload : HideBelowHidden(payload)[i].parent = payload[i].parent
<1> DEFINE shown(i) == payload[i].vis /\ \A p \in Above(payload, i) \cap DOMAIN payload : payload[p].vis
<1>1. HideBelowHidden(payload) = [i \in DOMAIN payload |-> [payload[i] EXCEPT !.vis = shown(i)]]
  BY DEF HideBelowHidden
<1>2. \A i : shown(i) \in BOOLEAN
  BY Zenon
<1> HIDE DEF shown
<1>3. \A i \in DOMAIN payload : /\ [payload[i] EXCEPT !.vis = shown(i)] \in Field
                                /\ [payload[i] EXCEPT !.vis = shown(i)].parent = payload[i].parent
  BY <1>2 DEF IsForm, Field
<1> QED
  BY <1>1, <1>3 DEF IsForm

LEMMA ClearedIsForm ==
  ASSUME NEW P, IsForm(P)
  PROVE  /\ IsForm(ConditionsCleared(P)) /\ DOMAIN ConditionsCleared(P) = DOMAIN P
         /\ \A i \in DOMAIN P : ConditionsCleared(P)[i].parent = P[i].parent
         /\ \A i \in DOMAIN P : NewChildren(P, i) # {} => ConditionsCleared(P)[i] = P[i]
<1> DEFINE bare(i) == [P[i] EXCEPT !.cond = {}, !.mode = "show"]
           modeless(i) == [P[i] EXCEPT !.mode = "show"]
<1>1. \A i \in DOMAIN P : /\ P[i] \in Field
                          /\ bare(i) \in Field /\ bare(i).parent = P[i].parent
                          /\ modeless(i) \in Field /\ modeless(i).parent = P[i].parent
  BY DEF IsForm, Field
<1>2. ConditionsCleared(P) = [i \in DOMAIN P |->
        IF NewChildren(P, i) # {} THEN P[i]
        ELSE IF OldChildren(i) # {} THEN bare(i)
        ELSE IF P[i].cond = {} THEN modeless(i)
        ELSE P[i]]
  BY DEF ConditionsCleared
<1> HIDE DEF bare, modeless
<1> QED
  BY <1>1, <1>2 DEF IsForm

(***************************************************************************)
(* The card's locks.  A field with an answer keeps its place in the tree,  *)
(* the fields above it stay, keep theirs and their conditions: an answered *)
(* field neither joins nor leaves a branch, and the branch of a field      *)
(* above it holds that answer, so what is in the branch and its condition  *)
(* are locked.                                                             *)
(***************************************************************************)
LEMMA AnswersLockAbove ==
  ASSUME Treed(fields), NEW P, LocksKept(P), NoAnswersJoin(P),
         NEW i \in DOMAIN fields, HasResponses(i), NEW p \in Above(fields, i)
  PROVE  /\ OldChildren(p) = NewChildren(P, p) /\ AnsweredBelow(p)
         /\ p \in DOMAIN P => P[p].cond = fields[p].cond /\ P[p].mode = fields[p].mode
         /\ \E k \in DOMAIN P : P[k].parent = p
<1>1. p # i
  BY TreedAbove
<1>2. AnsweredBelow(p)
  BY <1>1 DEF AnsweredBelow, Below
<1>3. PICK k \in Governed(fields) : fields[k].parent = p
  BY AboveAreParents DEF Governed
<1>4. /\ OldChildren(p) = NewChildren(P, p)
      /\ p \in DOMAIN P => P[p].cond = fields[p].cond /\ P[p].mode = fields[p].mode
  BY <1>2, <1>3 DEF LocksKept
<1>5. k \in OldChildren(p)
  BY <1>3 DEF OldChildren, Governed
<1> QED
  BY <1>2, <1>4, <1>5 DEF NewChildren

LEMMA AnswersKeepParents ==
  ASSUME Treed(fields), NEW P, LocksKept(P), NoAnswersJoin(P),
         NEW i \in DOMAIN fields, HasResponses(i), i \in DOMAIN P,
         NEW j \in Above(fields, i) \cup {i}, j \in DOMAIN P
  PROVE  j \in DOMAIN fields /\ P[j].parent = fields[j].parent
<1>1. j \in DOMAIN fields
  BY TreedAbove
<1>2. HasResponses(j) \/ AnsweredBelow(j)
  BY AnswersLockAbove
<1>3. CASE P[j].parent # NoField
  BY <1>1, <1>2, <1>3 DEF NoAnswersJoin, Governed, OldParent
<1>4. CASE P[j].parent = NoField
  <2> DEFINE q == fields[j].parent
  <2> SUFFICES ASSUME q # NoField PROVE FALSE
    BY <1>1, <1>4
  <2>1. q \in Above(fields, j)
    BY <1>1, AboveAreParents
  <2>2. q \in Above(fields, i)
    BY <2>1, AboveOfAbove
  <2>3. OldChildren(q) = NewChildren(P, q)
    BY <2>2, AnswersLockAbove
  <2>4. j \in OldChildren(q)
    BY <1>1 DEF OldChildren
  <2> QED
    BY <1>4, <2>3, <2>4 DEF NewChildren
<1> QED
  BY <1>1, <1>3, <1>4

LEMMA CardKeepsAbove ==
  ASSUME Treed(fields), NEW P, IsForm(P), LocksKept(P), NoAnswersJoin(P),
         NEW saved, saved = ConditionsCleared(P), Whole(saved),
         NEW i \in DOMAIN fields, HasResponses(i), i \in DOMAIN P
  PROVE  /\ Above(saved, i) = Above(fields, i)
         /\ \A p \in Above(fields, i) : /\ p \in DOMAIN saved
                                        /\ saved[p].cond = fields[p].cond
                                        /\ saved[p].mode = fields[p].mode
<1>1. /\ DOMAIN saved = DOMAIN P /\ \A j \in DOMAIN P : saved[j].parent = P[j].parent
      /\ \A j \in DOMAIN P : NewChildren(P, j) # {} => saved[j] = P[j]
  BY ClearedIsForm
<1>2. ASSUME NEW p \in Above(fields, i)
      PROVE  /\ p \in DOMAIN saved
             /\ saved[p].cond = fields[p].cond /\ saved[p].mode = fields[p].mode
  <2>1. PICK k \in DOMAIN P : P[k].parent = p
    BY AnswersLockAbove
  <2>2. k \in Governed(saved) /\ saved[k].parent = p
    BY <1>1, <1>2, <2>1, AboveAreParents DEF Governed
  <2>3. p \in DOMAIN P
    BY <1>1, <2>2, WholeIsTreed DEF Treed
  <2>4. saved[p] = P[p]
    BY <1>1, <2>1, <2>3 DEF NewChildren
  <2> QED
    BY <1>1, <2>3, <2>4, AnswersLockAbove
<1>3. \A j \in Above(fields, i) \cup {i} :
        j \in DOMAIN saved /\ j \in DOMAIN fields /\ fields[j].parent = saved[j].parent
  BY <1>1, <1>2, AnswersKeepParents
<1>4. Above(saved, i) = Above(fields, i)
  BY <1>3, SameAbove
<1> QED
  BY <1>2, <1>4

-----------------------------------------------------------------------------
(***************************************************************************)
(* The inductive invariant.  Of what Whole asks of a form only the parents *)
(* are kept by every step (the per-field routes reorder and unrequire      *)
(* freely), and they are all the two properties need.                      *)
(***************************************************************************)
FieldsInv ==
    /\ TypeOK
    /\ Treed(fields)
    /\ ClosedBranchesHoldNothing
    /\ StampedSheetsAreComplete

LEMMA InitHolds ==
  ASSUME Init
  PROVE  FieldsInv
<1>1. PICK file \in [DOMAIN fields -> Answers \cup {Blank}] : sheet = LoadedSheet(fields, file)
  BY DEF Init
<1>2. /\ DOMAIN sheet = DOMAIN fields /\ Answered(sheet) \subseteq Applies(fields, sheet)
      /\ \A i \in DOMAIN fields : sheet[i] = file[i] \/ sheet[i] = Blank
  BY <1>1, DropClosedLeavesApplying DEF LoadedSheet
<1>3. sheet = [i \in DOMAIN fields |-> sheet[i]]
  BY <1>1 DEF LoadedSheet, DropClosed
<1>4. sheet \in [DOMAIN fields -> Answers \cup {Blank}]
  BY <1>2, <1>3
<1>5. DOMAIN fields \subseteq FieldIds /\ fields \in [DOMAIN fields -> Field] /\ Whole(fields)
  BY FieldsAssumption DEF Init
<1>6. 0 \in 0..MaxEdits
  BY FieldsAssumption
<1>7. TypeOK
  BY <1>4, <1>5, <1>6 DEF TypeOK, Init
<1> QED
  BY <1>2, <1>5, <1>7, WholeIsTreed
     DEF FieldsInv, ClosedBranchesHoldNothing, StampedSheetsAreComplete, Init

-----------------------------------------------------------------------------
(* The card's Save.                                                        *)
LEMMA CardKeeps ==
  ASSUME FieldsInv, NEW payload, IsForm(payload), NEW acknowledged, CardSave(payload, acknowledged)
  PROVE  /\ FieldsInv' /\ Answered(sheet') = Answered(sheet)
         /\ \A i \in DOMAIN sheet \cap DOMAIN sheet' : sheet'[i] = sheet[i]
<1> DEFINE P == HideBelowHidden(payload)
           saved == ConditionsCleared(P)
<1>1. IsForm(P) /\ IsForm(saved) /\ DOMAIN saved = DOMAIN P
  BY HiddenIsForm, ClearedIsForm
<1>2. /\ edits < MaxEdits /\ LocksKept(P) /\ NoAnswersJoin(P) /\ Whole(saved)
      /\ \A i \in DOMAIN fields \ DOMAIN P : ~HasResponses(i)
      /\ fields' = saved
      /\ sheet' = [i \in DOMAIN P |-> IF i \in DOMAIN fields THEN sheet[i] ELSE Blank]
      /\ edits' = edits + 1 /\ edited' = TRUE
      /\ UNCHANGED <<stamped, open>>
  BY DEF CardSave
<1> HIDE DEF P, saved
<1>3. /\ DOMAIN fields \subseteq FieldIds /\ fields \in [DOMAIN fields -> Field]
      /\ sheet \in [DOMAIN fields -> Answers \cup {Blank}] /\ stamped \subseteq Answered(sheet)
      /\ Treed(fields) /\ Answered(sheet) \subseteq Applies(fields, sheet)
  BY DEF FieldsInv, TypeOK, ClosedBranchesHoldNothing
<1>4. sheet' \in [DOMAIN fields' -> Answers \cup {Blank}]
  BY <1>1, <1>2, <1>3
<1>5. \A i \in DOMAIN sheet \cap DOMAIN sheet' : sheet'[i] = sheet[i]
  BY <1>2, <1>3
<1>6. Answered(sheet') = Answered(sheet)
  BY <1>2, <1>3 DEF Answered, HasResponses
<1>7. TypeOK'
  <2>1. edits' \in 0..MaxEdits
    BY <1>2, FieldsAssumption DEF FieldsInv, TypeOK
  <2> QED
    BY <1>1, <1>2, <1>3, <1>4, <1>6, <2>1 DEF TypeOK, FieldsInv, IsForm
<1>8. Treed(fields')
  BY <1>2, WholeIsTreed
<1>9. ASSUME NEW i \in Answered(sheet') PROVE i \in Applies(fields', sheet')
  <2>1. i \in DOMAIN fields /\ HasResponses(i) /\ i \in DOMAIN P
    BY <1>2, <1>3, <1>6, <1>9 DEF HasResponses, Answered
  <2>2. /\ Above(fields', i) = Above(fields, i)
        /\ \A p \in Above(fields, i) : /\ p \in DOMAIN fields'
                                       /\ fields'[p].cond = fields[p].cond
                                       /\ fields'[p].mode = fields[p].mode
    BY <1>1, <1>2, <1>3, <2>1, CardKeepsAbove DEF saved
  <2>3. i \in Applies(fields, sheet)
    BY <1>3, <1>6, <1>9
  <2>4. \A p \in Above(fields, i) : sheet'[p] = sheet[p]
    BY <1>1, <1>2, <1>3, <2>2, TreedAbove
  <2>5. \A p \in Above(fields, i) : fields[p].mode = "require" \/ Open(fields, p, sheet)
    BY <2>3 DEF Applies
  <2>6. \A p \in Above(fields', i) : fields'[p].mode = "require" \/ Open(fields', p, sheet')
    BY <2>2, <2>4, <2>5 DEF Open
  <2>7. i \in DOMAIN fields'
    BY <1>1, <1>2, <2>1
  <2> QED
    BY <1>8, <2>6, <2>7, TreedApplies
<1> QED
  BY <1>2, <1>5, <1>6, <1>7, <1>8, <1>9
     DEF FieldsInv, ClosedBranchesHoldNothing, StampedSheetsAreComplete

-----------------------------------------------------------------------------
(* The per-field routes.                                                   *)
LEMMA RepackedIsForm ==
  ASSUME NEW F, IsForm(F)
  PROVE  /\ IsForm(Repacked(F)) /\ DOMAIN Repacked(F) = DOMAIN F
         /\ \A i \in DOMAIN F : /\ Repacked(F)[i].parent = F[i].parent
                                /\ Repacked(F)[i].cond = F[i].cond
                                /\ Repacked(F)[i].mode = F[i].mode
<1>1. ASSUME NEW i \in DOMAIN F
      PROVE  /\ Repacked(F)[i] \in Field
             /\ Repacked(F)[i].parent = F[i].parent
             /\ Repacked(F)[i].cond = F[i].cond
             /\ Repacked(F)[i].mode = F[i].mode
  <2> DEFINE n == Rank(F, i)
  <2>1. n \in Nat /\ F[i] \in Field
    BY RankIsNat, FieldAt DEF IsForm
  <2>2. Repacked(F)[i] = [F[i] EXCEPT !.ord = n]
    BY DEF Repacked
  <2> HIDE DEF n
  <2> QED
    BY <2>1, <2>2 DEF Field
<1>2. Repacked(F) = [i \in DOMAIN F |-> Repacked(F)[i]]
  BY DEF Repacked
<1> QED
  BY <1>1, <1>2 DEF IsForm

LEMMA WithNewIsForm ==
  ASSUME IsForm(fields), NEW F, IsForm(F), NewId <= MaxFields, NEW new \in Field
  PROVE  IsForm(WithNew(F, new))
<1>1. NewId \in FieldIds
  BY NewIdIsNew DEF IsForm
<1> QED
  BY <1>1 DEF WithNew, IsForm

LEMMA RouteEditKeeps ==
  ASSUME FieldsInv, NEW F, IsForm(F), RouteEdit(F)
  PROVE  /\ TypeOK' /\ StampedSheetsAreComplete' /\ fields' = F /\ DOMAIN sheet' = DOMAIN F
         /\ \A i \in DOMAIN F : sheet'[i] = sheet[i] \/ (i \notin DOMAIN fields /\ sheet'[i] = Blank)
<1>1. /\ fields' = F
      /\ sheet' = [i \in DOMAIN F |-> IF i \in DOMAIN sheet THEN sheet[i] ELSE Blank]
      /\ stamped' = stamped \cap DOMAIN F /\ edited' = TRUE /\ open' = open
      /\ edits < MaxEdits /\ edits' = edits + 1
  BY DEF RouteEdit
<1>2. /\ sheet \in [DOMAIN fields -> Answers \cup {Blank}] /\ stamped \subseteq Answered(sheet)
      /\ edits \in 0..MaxEdits /\ open \in BOOLEAN
  BY DEF FieldsInv, TypeOK
<1>3. sheet' \in [DOMAIN fields' -> Answers \cup {Blank}]
  BY <1>1, <1>2
<1>4. edits' \in 0..MaxEdits
  BY <1>1, <1>2, FieldsAssumption
<1>5. stamped' \subseteq Answered(sheet')
  BY <1>1, <1>2 DEF Answered
<1>6. TypeOK'
  BY <1>1, <1>2, <1>3, <1>4, <1>5 DEF TypeOK, IsForm
<1>7. \A i \in DOMAIN F : sheet'[i] = sheet[i] \/ (i \notin DOMAIN fields /\ sheet'[i] = Blank)
  BY <1>1, <1>2
<1>8. StampedSheetsAreComplete'
  BY <1>1 DEF StampedSheetsAreComplete
<1> QED
  BY <1>1, <1>6, <1>7, <1>8

LEMMA UnbranchedRouteKeeps ==
  ASSUME FieldsInv, NEW F, IsForm(F), RouteEdit(F), Governed(F) = {}
  PROVE  FieldsInv'
<1>1. /\ TypeOK' /\ StampedSheetsAreComplete' /\ fields' = F /\ DOMAIN sheet' = DOMAIN F
  BY RouteEditKeeps
<1>2. Treed(F) /\ Applies(F, sheet') = DOMAIN F
  BY UnbranchedApplies
<1>3. Answered(sheet') \subseteq Applies(fields', sheet')
  BY <1>1, <1>2 DEF Answered
<1> QED
  BY <1>1, <1>2, <1>3 DEF FieldsInv, ClosedBranchesHoldNothing

LEMMA AddFieldKeeps ==
  ASSUME FieldsInv, NEW r \in BOOLEAN, AddField(r)
  PROVE  FieldsInv' /\ DOMAIN fields \subseteq DOMAIN fields'
<1> DEFINE new == [FreshField(Cardinality(DOMAIN fields)) EXCEPT !.req = r]
           G == WithNew(fields, new)
           F == Repacked(G)
<1>1. IsForm(fields) /\ Treed(fields) /\ Answered(sheet) \subseteq Applies(fields, sheet)
      /\ DOMAIN sheet = DOMAIN fields
  BY DEF FieldsInv, TypeOK, IsForm, ClosedBranchesHoldNothing
<1>2. RouteEdit(F) /\ NewId <= MaxFields
  BY DEF AddField
<1>3. new \in Field /\ new.parent = NoField
  BY <1>1, FieldIdsFinite, FreshIsField DEF IsForm
<1> HIDE DEF new
<1>4. IsForm(G) /\ NewId \notin DOMAIN fields /\ DOMAIN G = DOMAIN fields \cup {NewId}
  BY <1>1, <1>2, <1>3, WithNewIsForm, NewIdIsNew DEF WithNew, IsForm
<1>5. G[NewId].parent = NoField /\ \A i \in DOMAIN fields : G[i] = fields[i]
  BY <1>3, <1>4 DEF WithNew
<1> HIDE DEF G
<1>6. /\ IsForm(F) /\ DOMAIN F = DOMAIN fields \cup {NewId}
      /\ F[NewId].parent = NoField
      /\ \A i \in DOMAIN fields : /\ F[i].parent = fields[i].parent
                                  /\ F[i].cond = fields[i].cond
                                  /\ F[i].mode = fields[i].mode
  BY <1>4, <1>5, RepackedIsForm
<1> HIDE DEF F
<1>7. ASSUME NEW i \in DOMAIN fields PROVE Above(F, i) = Above(fields, i)
  <2>1. \A j \in Above(fields, i) \cup {i} : j \in DOMAIN fields
    BY <1>1, TreedAbove
  <2> QED
    BY <1>6, <2>1, SameAbove
<1>8. Treed(F)
  <2> SUFFICES ASSUME NEW i \in Governed(F)
               PROVE  F[i].parent \in DOMAIN F /\ i \notin Above(F, i)
    BY DEF Treed
  <2>1. i \in DOMAIN fields /\ i \in Governed(fields)
    BY <1>6 DEF Governed
  <2> QED
    BY <1>1, <1>6, <1>7, <2>1 DEF Treed
<1>9. /\ TypeOK' /\ StampedSheetsAreComplete' /\ fields' = F /\ DOMAIN sheet' = DOMAIN F
      /\ \A i \in DOMAIN F : sheet'[i] = sheet[i] \/ (i \notin DOMAIN fields /\ sheet'[i] = Blank)
  BY <1>2, <1>6, RouteEditKeeps
<1>10. ASSUME NEW i \in Answered(sheet') PROVE i \in Applies(F, sheet')
  <2>0. i \in DOMAIN F
    BY <1>9, <1>10 DEF Answered
  <2>1. CASE i \notin DOMAIN fields
    <3>1. i = NewId /\ i \notin Governed(F)
      BY <1>6, <2>0, <2>1 DEF Governed
    <3>2. Above(F, i) = {}
      BY <3>1, AboveAreParents
    <3> QED
      BY <1>8, <2>0, <3>2, TreedApplies
  <2>2. CASE i \in DOMAIN fields
    <3>1. i \in Answered(sheet)
      BY <1>1, <1>9, <1>10, <2>0, <2>2 DEF Answered
    <3>2. \A p \in Above(fields, i) : fields[p].mode = "require" \/ Open(fields, p, sheet)
      BY <1>1, <3>1 DEF Applies
    <3>3. \A p \in Above(fields, i) : /\ p \in DOMAIN fields /\ sheet'[p] = sheet[p]
                                      /\ F[p].cond = fields[p].cond /\ F[p].mode = fields[p].mode
      BY <1>1, <1>6, <1>9, TreedAbove
    <3>4. \A p \in Above(F, i) : F[p].mode = "require" \/ Open(F, p, sheet')
      BY <1>7, <2>2, <3>2, <3>3 DEF Open
    <3> QED
      BY <1>8, <2>0, <3>4, TreedApplies
  <2> QED
    BY <2>1, <2>2
<1> QED
  BY <1>6, <1>8, <1>9, <1>10 DEF FieldsInv, ClosedBranchesHoldNothing

LEMMA AddDefaultFieldKeeps ==
  ASSUME FieldsInv, NEW anchor \in DOMAIN fields \cup {NoField}, NEW r \in BOOLEAN,
         AddDefaultField(anchor, r)
  PROVE  FieldsInv' /\ DOMAIN fields \subseteq DOMAIN fields'
<1> DEFINE place == IF anchor = NoField THEN Cardinality(DOMAIN fields)
                                        ELSE fields[anchor].ord + 1
           new == [FreshField(place) EXCEPT !.req = r]
           bumped == [i \in DOMAIN fields |->
               [fields[i] EXCEPT !.ord = IF anchor # NoField /\ @ >= place THEN @ + 1 ELSE @]]
           F == WithNew(bumped, new)
<1>1. IsForm(fields)
  BY DEF FieldsInv, TypeOK, IsForm
<1>2. RouteEdit(F) /\ NewId <= MaxFields /\ Governed(fields) = {}
  BY DEF AddDefaultField, Branched, Governed
<1>3. place \in Nat
  <2>1. Cardinality(DOMAIN fields) \in Nat
    BY <1>1, FieldIdsFinite DEF IsForm
  <2>2. anchor \in DOMAIN fields => fields[anchor].ord \in Nat
    BY <1>1, FieldAt DEF Field
  <2> QED
    BY <2>1, <2>2
<1> HIDE DEF place
<1>4. new \in Field /\ new.parent = NoField
  BY <1>3, FreshIsField
<1> HIDE DEF new
<1>5. ASSUME NEW i \in DOMAIN fields
      PROVE  bumped[i] \in Field /\ bumped[i].parent = fields[i].parent
  <2> DEFINE n == IF anchor # NoField /\ fields[i].ord >= place
                    THEN fields[i].ord + 1 ELSE fields[i].ord
  <2>1. fields[i] \in Field
    BY <1>1, FieldAt
  <2>2. n \in Nat
    BY <2>1 DEF Field
  <2>3. bumped[i] = [fields[i] EXCEPT !.ord = n]
    OBVIOUS
  <2> HIDE DEF n, bumped
  <2> QED
    BY <2>1, <2>2, <2>3 DEF Field
<1>6. DOMAIN bumped = DOMAIN fields /\ bumped = [i \in DOMAIN fields |-> bumped[i]]
  OBVIOUS
<1> HIDE DEF bumped
<1>7. IsForm(bumped)
  BY <1>1, <1>5, <1>6 DEF IsForm
<1>8. IsForm(F) /\ DOMAIN F = DOMAIN fields \cup {NewId}
  <2>1. IsForm(F)
    BY <1>1, <1>2, <1>4, <1>7, WithNewIsForm
  <2> QED
    BY <1>6, <2>1 DEF WithNew
<1>9. Governed(F) = {}
  <2>1. \A i \in DOMAIN F : F[i].parent = NoField
    BY <1>2, <1>4, <1>5, <1>6 DEF Governed, WithNew
  <2> HIDE DEF F
  <2> QED
    BY <2>1 DEF Governed
<1> HIDE DEF F
<1>10. fields' = F
  BY <1>2, <1>8, RouteEditKeeps
<1> QED
  BY <1>2, <1>8, <1>9, <1>10, UnbranchedRouteKeeps

LEMMA UpdateFieldKeeps ==
  ASSUME FieldsInv, NEW i \in DOMAIN fields, NEW r \in BOOLEAN, UpdateField(i, r)
  PROVE  FieldsInv' /\ DOMAIN fields \subseteq DOMAIN fields'
<1> DEFINE F == [fields EXCEPT ![i].req = r]
<1>1. IsForm(fields)
  BY DEF FieldsInv, TypeOK, IsForm
<1>2. RouteEdit(F) /\ Governed(fields) = {}
  BY DEF UpdateField, Branched, Governed
<1>3. DOMAIN F = DOMAIN fields /\ F = [j \in DOMAIN fields |-> F[j]]
  OBVIOUS
<1>4. \A j \in DOMAIN fields : F[j] \in Field /\ F[j].parent = fields[j].parent
  BY <1>1 DEF IsForm, Field
<1> HIDE DEF F
<1>5. IsForm(F) /\ Governed(F) = {}
  BY <1>1, <1>2, <1>3, <1>4 DEF IsForm, Governed
<1>6. fields' = F
  BY <1>2, <1>5, RouteEditKeeps
<1> QED
  BY <1>2, <1>3, <1>5, <1>6, UnbranchedRouteKeeps

LEMMA MoveFieldKeeps ==
  ASSUME FieldsInv, NEW i \in DOMAIN fields, NEW j \in DOMAIN fields, MoveField(i, j)
  PROVE  FieldsInv' /\ DOMAIN fields \subseteq DOMAIN fields'
<1> DEFINE G == Repacked(fields)
           H == [k \in DOMAIN fields |-> IF k = i THEN [G[i] EXCEPT !.ord = Rank(fields, j)] ELSE G[k]]
           F == [k \in DOMAIN fields |-> IF k = j THEN [H[j] EXCEPT !.ord = Rank(fields, i)] ELSE H[k]]
<1>1. IsForm(fields)
  BY DEF FieldsInv, TypeOK, IsForm
<1>2. /\ IsForm(G) /\ DOMAIN G = DOMAIN fields
      /\ \A k \in DOMAIN fields : G[k].parent = fields[k].parent
  BY <1>1, RepackedIsForm
<1>3. RouteEdit(F) /\ Governed(fields) = {}
  <2>1. RouteEdit([[G EXCEPT ![i].ord = Rank(fields, j)] EXCEPT ![j].ord = Rank(fields, i)])
    BY DEF MoveField
  <2> HIDE DEF G
  <2>2. [G EXCEPT ![i].ord = Rank(fields, j)] = H
    BY <1>2
  <2>3. [H EXCEPT ![j].ord = Rank(fields, i)] = F
    <3>1. DOMAIN H = DOMAIN fields
      OBVIOUS
    <3> HIDE DEF H
    <3> QED
      BY <3>1
  <2> HIDE DEF F, H
  <2> QED
    BY <2>1, <2>2, <2>3 DEF MoveField, Branched, Governed
<1>4. Rank(fields, i) \in Nat /\ Rank(fields, j) \in Nat
  BY <1>1, RankIsNat DEF IsForm
<1> HIDE DEF G
<1>5. DOMAIN H = DOMAIN fields /\ \A k \in DOMAIN fields : H[k] \in Field /\ H[k].parent = fields[k].parent
  BY <1>2, <1>4 DEF IsForm, Field
<1> HIDE DEF H
<1>6. \A k \in DOMAIN fields : F[k] \in Field /\ F[k].parent = fields[k].parent
  BY <1>4, <1>5 DEF Field
<1>7. DOMAIN F = DOMAIN fields /\ F = [k \in DOMAIN fields |-> F[k]]
  OBVIOUS
<1> HIDE DEF F
<1>8. IsForm(F) /\ Governed(F) = {}
  BY <1>1, <1>3, <1>6, <1>7 DEF IsForm, Governed
<1>9. fields' = F
  BY <1>3, <1>8, RouteEditKeeps
<1> QED
  BY <1>3, <1>7, <1>8, <1>9, UnbranchedRouteKeeps

LEMMA DeleteFieldKeeps ==
  ASSUME FieldsInv, NEW i \in DOMAIN fields, NEW confirm, DeleteField(i, confirm)
  PROVE  /\ FieldsInv' /\ Governed(fields) = {}
         /\ Answered(sheet') = Answered(sheet) \ {i}
         /\ \A j \in DOMAIN sheet \cap DOMAIN sheet' : sheet'[j] = sheet[j]
<1> DEFINE G == [j \in DOMAIN fields \ {i} |-> fields[j]]
           F == Repacked(G)
<1>1. IsForm(fields) /\ DOMAIN sheet = DOMAIN fields
  BY DEF FieldsInv, TypeOK, IsForm
<1>2. IsForm(G) /\ DOMAIN G = DOMAIN fields \ {i}
  BY <1>1 DEF IsForm
<1>3. RouteEdit(F) /\ Governed(fields) = {}
  BY DEF DeleteField, Branched, Governed
<1>4. \A j \in DOMAIN G : G[j].parent = fields[j].parent
  OBVIOUS
<1> HIDE DEF G
<1>5. /\ IsForm(F) /\ DOMAIN F = DOMAIN fields \ {i}
      /\ \A j \in DOMAIN F : F[j].parent = fields[j].parent
  BY <1>2, <1>4, RepackedIsForm
<1> HIDE DEF F
<1>6. Governed(F) = {}
  BY <1>3, <1>5 DEF Governed
<1>7. /\ DOMAIN sheet' = DOMAIN F
      /\ \A j \in DOMAIN F : sheet'[j] = sheet[j] \/ (j \notin DOMAIN fields /\ sheet'[j] = Blank)
  BY <1>3, <1>5, RouteEditKeeps
<1>8. \A j \in DOMAIN F : sheet'[j] = sheet[j]
  BY <1>5, <1>7
<1>9. Answered(sheet') = Answered(sheet) \ {i}
  BY <1>1, <1>5, <1>7, <1>8 DEF Answered
<1> QED
  BY <1>3, <1>5, <1>6, <1>7, <1>8, <1>9, UnbranchedRouteKeeps

-----------------------------------------------------------------------------
(* A reviewer's save writes answers, and leaves none under a closed branch.*)
LEMMA WrittenIsSheet ==
  ASSUME FieldsInv, NEW post \in Posts
  PROVE  /\ Written(post) \in [DOMAIN fields -> Answers \cup {Blank}]
         /\ Kept(post) \subseteq DOMAIN fields
         /\ \A i \in DOMAIN fields : i \in Kept(post) => Written(post)[i] = post[i]
         /\ \A i \in DOMAIN fields : i \notin Kept(post) => Written(post)[i] = sheet[i]
<1>1. sheet \in [DOMAIN fields -> Answers \cup {Blank}]
  BY DEF FieldsInv, TypeOK
<1>2. Kept(post) \subseteq DOMAIN fields /\ \A i \in Kept(post) : post[i] \in Answers \cup {Blank}
  <2>1. DOMAIN Shown(fields) \subseteq DOMAIN fields
    BY DEF Shown
  <2>2. DOMAIN post = DOMAIN Shown(fields) /\ \A i \in DOMAIN post : post[i] \in Answers \cup {Blank, Bad}
    BY DEF Posts
  <2>3. Kept(post) \subseteq DOMAIN post /\ \A i \in Kept(post) : post[i] # Bad
    BY DEF Kept, Refused
  <2> QED
    BY <2>1, <2>2, <2>3
<1>3. Written(post) = [i \in DOMAIN fields |-> IF i \in Kept(post) THEN post[i] ELSE sheet[i]]
  BY <1>1 DEF Written
<1>4. \A i \in DOMAIN fields : sheet[i] \in Answers \cup {Blank}
  BY <1>1
<1> HIDE DEF Posts
<1> QED
  BY <1>2, <1>3, <1>4

LEMMA SavedIsSheet ==
  ASSUME FieldsInv, NEW post \in Posts
  PROVE  /\ Saved(post) \in [DOMAIN fields -> Answers \cup {Blank}]
         /\ Answered(Saved(post)) \subseteq Applies(fields, Saved(post))
<1>1. /\ sheet \in [DOMAIN fields -> Answers \cup {Blank}]
      /\ Answered(sheet) \subseteq Applies(fields, sheet)
  BY DEF FieldsInv, TypeOK, ClosedBranchesHoldNothing
<1>2. CASE Kept(post) = {}
  BY <1>1, <1>2 DEF Saved
<1>3. CASE Kept(post) # {}
  <2> DEFINE w == Written(post)
             s == Saved(post)
  <2>1. w \in [DOMAIN fields -> Answers \cup {Blank}]
    BY WrittenIsSheet
  <2>2. s = DropClosed(fields, w)
    BY <1>3 DEF Saved
  <2> HIDE DEF w, s
  <2>3. DOMAIN w = DOMAIN fields
    BY <2>1
  <2>4. /\ DOMAIN s = DOMAIN fields /\ Answered(s) \subseteq Applies(fields, s)
        /\ \A i \in DOMAIN fields : s[i] = w[i] \/ s[i] = Blank
    BY <2>2, <2>3, DropClosedLeavesApplying
  <2>5. s = [i \in DOMAIN fields |-> s[i]]
    BY <2>2, <2>3 DEF DropClosed
  <2>6. s \in [DOMAIN fields -> Answers \cup {Blank}]
    BY <2>1, <2>4, <2>5
  <2> QED
    BY <2>4, <2>6 DEF s
<1> QED
  BY <1>2, <1>3

(***************************************************************************)
(* The stamps.  A save that leaves every remaining answer stamped changed  *)
(* nothing: what it wrote has lost its stamp, a blanked answer would have  *)
(* taken all of them, and an answer it dropped lay under a branch some     *)
(* other change closed - follow those changes up to the highest, which     *)
(* nothing dropped.                                                        *)
(***************************************************************************)
LEMMA DropsHaveCauses ==
  ASSUME FieldsInv, NEW post \in Posts,
         \A i \in Kept(post) : post[i] = Blank => sheet[i] = Blank,
         \A i \in Answered(Saved(post)) : i \in Kept(post) => post[i] = sheet[i],
         NEW i \in DOMAIN fields, Saved(post)[i] # sheet[i]
  PROVE  \E p \in Above(fields, i) : p \in DOMAIN fields /\ Saved(post)[p] # sheet[p]
<1> DEFINE w == Written(post)
           s == Saved(post)
<1>1. /\ sheet \in [DOMAIN fields -> Answers \cup {Blank}] /\ Treed(fields)
      /\ Answered(sheet) \subseteq Applies(fields, sheet)
  BY DEF FieldsInv, TypeOK, ClosedBranchesHoldNothing
<1>2. /\ w \in [DOMAIN fields -> Answers \cup {Blank}]
      /\ \A j \in DOMAIN fields : j \in Kept(post) => w[j] = post[j]
      /\ \A j \in DOMAIN fields : j \notin Kept(post) => w[j] = sheet[j]
  BY WrittenIsSheet
<1>3. s = DropClosed(fields, w)
  BY DEF Saved
<1>4. \A j \in DOMAIN fields : j \in Answered(s) => (j \in Kept(post) => post[j] = sheet[j])
  OBVIOUS
<1>5. s[i] # sheet[i]
  OBVIOUS
<1>6. s \in [DOMAIN fields -> Answers \cup {Blank}]
  BY SavedIsSheet
<1> HIDE DEF w, s
<1>7. /\ \A j \in DOMAIN fields : s[j] = w[j] \/ s[j] = Blank
      /\ \A j \in DOMAIN fields : s[j] # w[j] => j \in ClosedGoverned(fields, w)
  BY <1>2, <1>3, DropClosedLeavesApplying
<1>8. s[i] = Blank /\ sheet[i] # Blank
  BY <1>2, <1>4, <1>5, <1>6, <1>7 DEF Answered
<1>9. i \notin Applies(fields, w)
  BY <1>2, <1>7, <1>8 DEF ClosedGoverned
<1>10. PICK p \in Above(fields, i) : fields[p].mode # "require" /\ ~Open(fields, p, w)
  BY <1>1, <1>9, TreedApplies
<1>11. Open(fields, p, sheet)
  BY <1>1, <1>8, <1>10, TreedApplies DEF Answered
<1>12. p \in DOMAIN fields
  BY <1>1, TreedAbove
<1>13. sheet[p] # Blank
  BY <1>11, <1>12, FieldsAssumption DEF Open, FieldsInv, TypeOK, Field
<1>14. w[p] # sheet[p]
  BY <1>10, <1>11 DEF Open
<1> QED
  BY <1>7, <1>12, <1>13, <1>14 DEF s

LEMMA StampedSavesChangeNothing ==
  ASSUME FieldsInv, NEW post \in Posts,
         StampsLeft(post) \cap Answered(Saved(post)) = Answered(Saved(post)),
         Answered(Saved(post)) # {}
  PROVE  Saved(post) = sheet /\ Answered(sheet) \subseteq stamped
<1> DEFINE s == Saved(post)
           D == {i \in DOMAIN fields : s[i] # sheet[i]}
<1>1. /\ \A i \in Kept(post) : post[i] = Blank => sheet[i] = Blank
      /\ StampsLeft(post) = stamped \ {i \in Kept(post) : post[i] # sheet[i]}
  BY DEF StampsLeft
<1>2. \A i \in Answered(s) : i \in stamped /\ (i \in Kept(post) => post[i] = sheet[i])
  BY <1>1
<1>3. /\ sheet \in [DOMAIN fields -> Answers \cup {Blank}] /\ DOMAIN fields \subseteq FieldIds
      /\ Treed(fields)
  BY DEF FieldsInv, TypeOK
<1>4. s \in [DOMAIN fields -> Answers \cup {Blank}]
  BY SavedIsSheet
<1>5. \A i \in D : \E p \in Above(fields, i) : p \in D
  BY <1>1, <1>2, DropsHaveCauses
<1> HIDE DEF s, D
<1>6. ASSUME D # {} PROVE FALSE
  <2> DEFINE parts == {Above(fields, i) : i \in D}
  <2>1. IsFiniteSet(DOMAIN fields)
    BY <1>3, FieldIdsFinite
  <2>2. parts # {} /\ \A T \in parts : T \subseteq DOMAIN fields
    BY <1>3, <1>6, TreedAbove
  <2>3. PICK T \in parts : \A U \in parts : U \subseteq T => U = T
    <3> HIDE DEF parts
    <3> QED
      BY <2>1, <2>2, SmallestPart
  <2>4. PICK i \in D : T = Above(fields, i)
    OBVIOUS
  <2>5. PICK p \in Above(fields, i) : p \in D
    BY <1>5
  <2>6. Above(fields, p) \subseteq Above(fields, i) /\ p \notin Above(fields, p)
    BY <1>3, AboveOfAbove, TreedAbove
  <2> QED
    BY <2>3, <2>4, <2>5, <2>6
<1>7. s = sheet
  BY <1>3, <1>4, <1>6 DEF D
<1> QED
  BY <1>2, <1>7 DEF s

-----------------------------------------------------------------------------
(* The reviewer's steps.                                                   *)
LEMMA SaveKeeps ==
  ASSUME FieldsInv, NEW post \in Posts, sheet' = Saved(post),
         stamped' = StampsLeft(post) \cap Answered(sheet'), UNCHANGED <<fields, open, edits, edited>>
  PROVE  FieldsInv'
<1> DEFINE s == Saved(post)
<1>1. /\ DOMAIN fields \subseteq FieldIds /\ fields \in [DOMAIN fields -> Field]
      /\ open \in BOOLEAN /\ edits \in 0..MaxEdits /\ edited \in BOOLEAN
      /\ stamped \subseteq Answered(sheet) /\ Treed(fields) /\ StampedSheetsAreComplete
  BY DEF FieldsInv, TypeOK
<1>2. s \in [DOMAIN fields -> Answers \cup {Blank}] /\ Answered(s) \subseteq Applies(fields, s)
  BY SavedIsSheet
<1>3. TypeOK'
  BY <1>1, <1>2 DEF TypeOK
<1>4. ASSUME stamped' # {}, stamped' = Answered(sheet'), ~edited'
      PROVE  Missing(fields', sheet') = {}
  <2>1. s = sheet /\ Answered(sheet) \subseteq stamped
    BY <1>4, StampedSavesChangeNothing
  <2>2. stamped = Answered(sheet) /\ stamped # {} /\ ~edited
    BY <1>1, <1>4, <2>1
  <2> QED
    BY <1>1, <2>1, <2>2 DEF StampedSheetsAreComplete
<1> QED
  BY <1>1, <1>2, <1>3, <1>4 DEF FieldsInv, ClosedBranchesHoldNothing, StampedSheetsAreComplete

LEMMA SubmitKeeps ==
  ASSUME FieldsInv, NEW post \in Posts, Submit(post)
  PROVE  FieldsInv'
<1>1. CASE Kept(post) = DOMAIN post /\ Missing(fields, sheet') = {}
  <2>1. /\ sheet' = Saved(post) /\ stamped' = Answered(sheet') /\ edited' = FALSE
        /\ UNCHANGED <<fields, open, edits>>
    BY <1>1 DEF Submit
  <2>2. /\ Saved(post) \in [DOMAIN fields -> Answers \cup {Blank}]
        /\ Answered(Saved(post)) \subseteq Applies(fields, Saved(post))
    BY SavedIsSheet
  <2>3. TypeOK'
    BY <2>1, <2>2 DEF FieldsInv, TypeOK
  <2>4. StampedSheetsAreComplete'
    BY <1>1, <2>1 DEF StampedSheetsAreComplete
  <2> QED
    BY <2>1, <2>2, <2>3, <2>4 DEF FieldsInv, ClosedBranchesHoldNothing
<1>2. CASE ~(Kept(post) = DOMAIN post /\ Missing(fields, sheet') = {})
  <2>1. /\ sheet' = Saved(post) /\ stamped' = StampsLeft(post) \cap Answered(sheet')
        /\ UNCHANGED <<fields, open, edits, edited>>
    BY <1>2 DEF Submit
  <2> QED
    BY <2>1, SaveKeeps
<1> QED
  BY <1>1, <1>2

LEMMA EmptyingKeeps ==
  ASSUME FieldsInv, sheet' = [i \in DOMAIN sheet |-> Blank], stamped' = {},
         UNCHANGED <<fields, open, edits, edited>>
  PROVE  FieldsInv'
<1>1. sheet \in [DOMAIN fields -> Answers \cup {Blank}]
  BY DEF FieldsInv, TypeOK
<1>2. sheet' \in [DOMAIN fields -> Answers \cup {Blank}] /\ Answered(sheet') = {}
  BY <1>1 DEF Answered
<1> QED
  BY <1>2 DEF FieldsInv, TypeOK, ClosedBranchesHoldNothing, StampedSheetsAreComplete

-----------------------------------------------------------------------------
(* Every step keeps the invariant, and every edit the answers.             *)
AnswersKept ==
    fields' # fields =>
        /\ \A i \in DOMAIN sheet \cap DOMAIN sheet' : sheet'[i] = sheet[i]
        /\ Cardinality(Answered(sheet)) - Cardinality(Answered(sheet')) \in {0, 1}
        /\ Governed(fields) # {} => Answered(sheet') = Answered(sheet)

LEMMA AnsweredCount ==
  ASSUME FieldsInv
  PROVE  /\ IsFiniteSet(Answered(sheet)) /\ Cardinality(Answered(sheet)) \in Nat
         /\ Cardinality(Answered(sheet)) - Cardinality(Answered(sheet)) \in {0, 1}
<1>1. Answered(sheet) \in SUBSET FieldIds
  BY DEF FieldsInv, TypeOK, Answered
<1>2. IsFiniteSet(Answered(sheet)) /\ Cardinality(Answered(sheet)) \in Nat
  BY <1>1, FieldIdsFinite
<1> QED
  BY <1>2

LEMMA CardStep ==
  ASSUME FieldsInv, SaveCard
  PROVE  FieldsInv' /\ AnswersKept
<1>1. IsForm(fields)
  BY DEF FieldsInv, TypeOK, IsForm
<1>2. PICK payload \in Reordered \cup Rebranched \cup Retyped \cup Shortened
                         \cup (IF NewId <= MaxFields THEN Lengthened ELSE {}),
           acknowledged \in BOOLEAN : CardSave(payload, acknowledged)
  BY DEF SaveCard
<1>3. IsForm(payload)
  BY <1>1, PayloadsAreForms
<1> QED
  BY <1>2, <1>3, CardKeeps, AnsweredCount DEF AnswersKept

(* A route that deletes no field leaves the answers as they were.          *)
LEMMA GrowingRouteKeepsAnswers ==
  ASSUME FieldsInv, FieldsInv', NEW F, RouteEdit(F), DOMAIN fields \subseteq DOMAIN fields'
  PROVE  AnswersKept
<1>1. /\ DOMAIN sheet = DOMAIN fields /\ DOMAIN sheet' = DOMAIN fields'
      /\ fields' = F
      /\ sheet' = [i \in DOMAIN F |-> IF i \in DOMAIN sheet THEN sheet[i] ELSE Blank]
  BY DEF FieldsInv, TypeOK, RouteEdit
<1>2. \A i \in DOMAIN sheet \cap DOMAIN sheet' : sheet'[i] = sheet[i]
  BY <1>1
<1>3. Answered(sheet') = Answered(sheet)
  BY <1>1 DEF Answered
<1> QED
  BY <1>2, <1>3, AnsweredCount DEF AnswersKept

LEMMA RouteStep ==
  ASSUME FieldsInv, FieldRoutes
  PROVE  FieldsInv' /\ AnswersKept
<1>1. ASSUME NEW r \in BOOLEAN, AddField(r) PROVE FieldsInv' /\ AnswersKept
  BY <1>1, AddFieldKeeps, GrowingRouteKeepsAnswers DEF AddField
<1>2. ASSUME NEW a \in DOMAIN fields \cup {NoField}, NEW r \in BOOLEAN, AddDefaultField(a, r)
      PROVE  FieldsInv' /\ AnswersKept
  <2>1. \E F : RouteEdit(F)
    BY <1>2 DEF AddDefaultField
  <2> QED
    BY <1>2, <2>1, AddDefaultFieldKeeps, GrowingRouteKeepsAnswers
<1>3. ASSUME NEW i \in DOMAIN fields, NEW r \in BOOLEAN, UpdateField(i, r)
      PROVE  FieldsInv' /\ AnswersKept
  BY <1>3, UpdateFieldKeeps, GrowingRouteKeepsAnswers DEF UpdateField
<1>4. ASSUME NEW i \in DOMAIN fields, NEW c \in BOOLEAN, DeleteField(i, c)
      PROVE  FieldsInv' /\ AnswersKept
  <2>1. /\ FieldsInv' /\ Governed(fields) = {}
        /\ Answered(sheet') = Answered(sheet) \ {i}
        /\ \A j \in DOMAIN sheet \cap DOMAIN sheet' : sheet'[j] = sheet[j]
    BY <1>4, DeleteFieldKeeps
  <2>2. Cardinality(Answered(sheet)) - Cardinality(Answered(sheet')) \in {0, 1}
    <3>1. CASE i \in Answered(sheet)
      <4>1. Cardinality(Answered(sheet) \ {i}) = Cardinality(Answered(sheet)) - 1
        BY <3>1, AnsweredCount, FS_RemoveElement
      <4> QED
        BY <2>1, <4>1, AnsweredCount
    <3>2. CASE i \notin Answered(sheet)
      <4>1. Answered(sheet') = Answered(sheet)
        BY <2>1, <3>2
      <4> QED
        BY <4>1, AnsweredCount
    <3> QED
      BY <3>1, <3>2
  <2> QED
    BY <2>1, <2>2 DEF AnswersKept
<1>5. ASSUME NEW i \in DOMAIN fields, NEW j \in DOMAIN fields, MoveField(i, j)
      PROVE  FieldsInv' /\ AnswersKept
  <2>1. \E F : RouteEdit(F)
    BY <1>5 DEF MoveField
  <2> QED
    BY <1>5, <2>1, MoveFieldKeeps, GrowingRouteKeepsAnswers
<1> QED
  BY <1>1, <1>2, <1>3, <1>4, <1>5 DEF FieldRoutes

LEMMA StepsKeep ==
  ASSUME FieldsInv, [Next]_vars
  PROVE  FieldsInv' /\ [AnswersKept]_vars
<1>1. CASE SaveCard
  BY <1>1, CardStep
<1>2. CASE FieldRoutes
  BY <1>2, RouteStep
<1>3. ASSUME NEW post \in Posts, SaveDraft(post) PROVE FieldsInv' /\ AnswersKept
  <2>1. FieldsInv'
    BY <1>3, SaveKeeps DEF SaveDraft
  <2> QED
    BY <1>3, <2>1 DEF SaveDraft, AnswersKept
<1>4. ASSUME NEW post \in Posts, Submit(post) PROVE FieldsInv' /\ AnswersKept
  <2>1. FieldsInv'
    BY <1>4, SubmitKeeps
  <2> QED
    BY <1>4, <2>1 DEF Submit, AnswersKept
<1>5. CASE Recall
  BY <1>5 DEF Recall, AnswersKept, FieldsInv, TypeOK, ClosedBranchesHoldNothing,
              StampedSheetsAreComplete
<1>6. CASE ClearAll
  BY <1>6, EmptyingKeeps DEF ClearAll, AnswersKept
<1>7. CASE Activate
  BY <1>7 DEF Activate, AnswersKept, FieldsInv, TypeOK, ClosedBranchesHoldNothing,
              StampedSheetsAreComplete
<1>8. CASE Revert
  BY <1>8 DEF Revert, AnswersKept, FieldsInv, TypeOK, ClosedBranchesHoldNothing,
              StampedSheetsAreComplete
<1>9. CASE DeleteAll
  BY <1>9, EmptyingKeeps DEF DeleteAll, AnswersKept
<1>10. CASE UNCHANGED vars
  BY <1>10 DEF vars, FieldsInv, TypeOK, ClosedBranchesHoldNothing, StampedSheetsAreComplete
<1> QED
  BY <1>1, <1>2, <1>3, <1>4, <1>5, <1>6, <1>7, <1>8, <1>9, <1>10 DEF Next

LEMMA AlwaysHolds == Spec => []FieldsInv
<1>1. Init => FieldsInv
  BY InitHolds
<1>2. FieldsInv /\ [Next]_vars => FieldsInv'
  BY StepsKeep
<1> QED
  BY <1>1, <1>2, PTL DEF Spec

-----------------------------------------------------------------------------
(***************************************************************************)
(* The form, the sheet and its stamps are well formed: fields keep their   *)
(* types through every payload and route, the sheet has exactly the form's *)
(* fields, and only an answer is stamped.                                  *)
(***************************************************************************)
THEOREM TypeCorrect == Spec => []TypeOK
<1>1. FieldsInv => TypeOK
  BY DEF FieldsInv
<1> QED
  BY <1>1, AlwaysHolds, PTL

(***************************************************************************)
(* Whatever card saves, field routes, drafts and submits come in whatever  *)
(* order, on forms of any size and branches of any depth, no stored answer *)
(* sits under a condition the answers above it do not meet.  The card's    *)
(* locks are enough: see AnswersLockAbove.                                 *)
(***************************************************************************)
THEOREM NothingUnderClosedBranches == Spec => []ClosedBranchesHoldNothing
<1>1. FieldsInv => ClosedBranchesHoldNothing
  BY DEF FieldsInv
<1> QED
  BY <1>1, AlwaysHolds, PTL

(***************************************************************************)
(* A sheet whose every row is stamped is complete while the form is the    *)
(* one it was submitted on: no draft or refused Submit leaves all of its   *)
(* rows stamped unless it changed none (StampedSavesChangeNothing).        *)
(***************************************************************************)
THEOREM StampsMeanComplete == Spec => []StampedSheetsAreComplete
<1>1. FieldsInv => StampedSheetsAreComplete
  BY DEF FieldsInv
<1> QED
  BY <1>1, AlwaysHolds, PTL

(***************************************************************************)
(* No edit of a form changes an answer it keeps; at most one answer leaves *)
(* with an edit, by a field's own deletion, and none from a form that has  *)
(* branches.                                                               *)
(***************************************************************************)
THEOREM NoEditLosesAnswers == Spec => EditsKeepAnswers
<1>1. FieldsInv /\ [Next]_vars => [AnswersKept]_vars
  BY StepsKeep
<1> QED
  BY <1>1, AlwaysHolds, PTL DEF Spec, EditsKeepAnswers, AnswersKept

-----------------------------------------------------------------------------
(* AnswerTabs reads the branches as InstrumentFields does.                 *)
LEMMA TabsReadBranches ==
  /\ \A F, s : Tabs!Applies(F, s) = Applies(F, s)
  /\ \A F, s : Tabs!ClosedGoverned(F, s) = ClosedGoverned(F, s)
  /\ \A s : Tabs!Answered(s) = Answered(s)
<1>1. \A F, i : Tabs!Above(F, i) = Above(F, i)
  BY DEF Tabs!Above, Above, Tabs!ParentsOf, ParentsOf, Tabs!NoField, NoField
<1>2. \A F, s : Tabs!Applies(F, s) = Applies(F, s)
  BY <1>1 DEF Tabs!Applies, Applies, Tabs!Open, Open
<1>3. \A F, s : Tabs!ClosedGoverned(F, s) = ClosedGoverned(F, s)
  BY <1>2 DEF Tabs!ClosedGoverned, ClosedGoverned, Tabs!Governed, Governed, Tabs!NoField, NoField
<1>4. \A s : Tabs!Answered(s) = Answered(s)
  BY DEF Tabs!Answered, Answered, Tabs!Blank, Blank
<1> QED
  BY <1>2, <1>3, <1>4

(***************************************************************************)
(* A tab that has met no other is the only one at work, so nothing but its *)
(* own writes changes what it sees; and after drop_closed_branch_answers   *)
(* what it sees has no answer under a closed branch.                       *)
(***************************************************************************)
Seen(t) == Tabs!Vals(Tabs!View(t))
SeesNoneClosed(t) == Answered(Seen(t)) \subseteq Applies(SharedForm, Seen(t))

TabsInv ==
    /\ DOMAIN tx = TabIds
    /\ \A t \in TabIds :
          /\ tx[t] = [pc |-> tx[t].pc, kind |-> tx[t].kind, post |-> tx[t].post,
                      read |-> tx[t].read, wrote |-> tx[t].wrote]
          /\ tx[t].pc # "idle" /\ t \notin shared =>
                /\ \A u \in TabIds \ {t} : tx[u].pc = "idle"
                /\ tx[t].pc \in {"check", "stamp", "commit"} => SeesNoneClosed(t)

LEMMA WriteSees ==
  ASSUME TabsInv, NEW t \in TabIds, NEW ws, NEW to, Tabs!Write(t, ws, to)
  PROVE  /\ DOMAIN tx' = TabIds /\ \A u \in TabIds \ {t} : tx'[u] = tx[u]
         /\ tx'[t] = [pc |-> tx'[t].pc, kind |-> tx'[t].kind, post |-> tx'[t].post,
                      read |-> tx'[t].read, wrote |-> tx'[t].wrote]
         /\ tx'[t].pc = to
         /\ Tabs!View(t)' = [f \in Tabs!Fields |-> IF f \in DOMAIN ws THEN ws[f]
                                                  ELSE Tabs!View(t)[f]]
<1> DEFINE w == [f \in DOMAIN tx[t].wrote \cup DOMAIN ws |->
                   IF f \in DOMAIN ws THEN ws[f] ELSE tx[t].wrote[f]]
<1>1. tx' = [tx EXCEPT ![t].pc = to, ![t].wrote = w] /\ row' = row
  BY DEF Tabs!Write
<1>2. DOMAIN w = DOMAIN tx[t].wrote \cup DOMAIN ws
  OBVIOUS
<1>3. \A f \in DOMAIN w : w[f] = IF f \in DOMAIN ws THEN ws[f] ELSE tx[t].wrote[f]
  OBVIOUS
<1> HIDE DEF w
<1>4. /\ tx[t] = [pc |-> tx[t].pc, kind |-> tx[t].kind, post |-> tx[t].post,
                  read |-> tx[t].read, wrote |-> tx[t].wrote]
      /\ DOMAIN tx = TabIds
  BY DEF TabsInv
<1>5. tx'[t] = [pc |-> to, kind |-> tx[t].kind, post |-> tx[t].post, read |-> tx[t].read,
               wrote |-> w]
  BY <1>1, <1>4
<1>6. DOMAIN tx' = TabIds /\ \A u \in TabIds \ {t} : tx'[u] = tx[u]
  BY <1>1, <1>4
<1>7. Tabs!View(t)' = [f \in Tabs!Fields |-> IF f \in DOMAIN w THEN w[f] ELSE row[f]]
  BY <1>1, <1>5 DEF Tabs!View, Tabs!Fields
<1>8. \A f \in Tabs!Fields :
        (IF f \in DOMAIN w THEN w[f] ELSE row[f])
          = IF f \in DOMAIN ws THEN ws[f] ELSE Tabs!View(t)[f]
  BY <1>2, <1>3 DEF Tabs!View
<1> QED
  BY <1>5, <1>6, <1>7, <1>8

(* What a tab sees is rows.                                                *)
IsRow(r) == r = [val |-> r.val, stamp |-> r.stamp]
RowsAreRows ==
    \A f \in Tabs!Fields :
        /\ IsRow(row[f])
        /\ \A t \in TabIds : f \in DOMAIN tx[t].wrote => IsRow(tx[t].wrote[f])

LEMMA SeesRows ==
  ASSUME RowsAreRows, NEW t \in TabIds, NEW f \in Tabs!Fields
  PROVE  /\ IsRow(Tabs!View(t)[f])
         /\ \A s : /\ IsRow([Tabs!View(t)[f] EXCEPT !.stamp = s])
                   /\ [Tabs!View(t)[f] EXCEPT !.stamp = s].val = Tabs!View(t)[f].val
<1>1. IsRow(Tabs!View(t)[f])
  BY DEF RowsAreRows, Tabs!View
<1> QED
  BY <1>1 DEF IsRow

LEMMA WritesAreRows ==
  ASSUME TabsInv, RowsAreRows, NEW t \in TabIds, NEW ws, NEW to, Tabs!Write(t, ws, to),
         \A f \in Tabs!Fields : f \in DOMAIN ws => IsRow(ws[f])
  PROVE  RowsAreRows'
<1> DEFINE w == [f \in DOMAIN tx[t].wrote \cup DOMAIN ws |->
                   IF f \in DOMAIN ws THEN ws[f] ELSE tx[t].wrote[f]]
<1>1. tx' = [tx EXCEPT ![t].pc = to, ![t].wrote = w] /\ row' = row
  BY DEF Tabs!Write
<1>2. \A f \in Tabs!Fields : f \in DOMAIN w => IsRow(w[f])
  BY DEF RowsAreRows
<1> HIDE DEF w
<1>3. tx'[t].wrote = w /\ \A u \in TabIds \ {t} : tx'[u] = tx[u]
  BY <1>1, WriteSees DEF TabsInv
<1>4. ASSUME NEW f \in Tabs!Fields PROVE IsRow(row'[f])
  BY <1>1 DEF RowsAreRows
<1>5. ASSUME NEW f \in Tabs!Fields, NEW u \in TabIds, f \in DOMAIN tx'[u].wrote
      PROVE  IsRow(tx'[u].wrote[f])
  BY <1>2, <1>3, <1>5 DEF RowsAreRows
<1> QED
  BY <1>4, <1>5 DEF RowsAreRows, Tabs!Fields, IsRow

LEMMA IdleHasNoRows ==
  ASSUME TabsInv, RowsAreRows, NEW t \in TabIds, DOMAIN tx'[t].wrote = {},
         \A u \in TabIds \ {t} : tx'[u] = tx[u], row' = row \/ row' = Tabs!View(t)
  PROVE  RowsAreRows'
<1>1. \A f \in Tabs!Fields : IsRow(row'[f])
  BY SeesRows DEF RowsAreRows
<1>2. \A f \in Tabs!Fields, u \in TabIds : f \in DOMAIN tx'[u].wrote => IsRow(tx'[u].wrote[f])
  BY DEF RowsAreRows
<1> QED
  BY <1>1, <1>2 DEF RowsAreRows, Tabs!Fields, IsRow

(* A step of t that is no Post and leaves the row and the other tabs alone *)
(* keeps the invariant, if t sees no closed answer where it must not.      *)
LEMMA OwnStepKeeps ==
  ASSUME TabsInv, NEW t \in TabIds, tx[t].pc # "idle",
         DOMAIN tx' = TabIds, \A u \in TabIds \ {t} : tx'[u] = tx[u],
         tx'[t] = [pc |-> tx'[t].pc, kind |-> tx'[t].kind, post |-> tx'[t].post,
                   read |-> tx'[t].read, wrote |-> tx'[t].wrote],
         UNCHANGED shared,
         tx'[t].pc = "idle" \/ UNCHANGED row,
         t \notin shared /\ tx'[t].pc \in {"check", "stamp", "commit"} => SeesNoneClosed(t)'
  PROVE  TabsInv'
<1> SUFFICES ASSUME NEW u \in TabIds
             PROVE  /\ tx'[u] = [pc |-> tx'[u].pc, kind |-> tx'[u].kind, post |-> tx'[u].post,
                                 read |-> tx'[u].read, wrote |-> tx'[u].wrote]
                    /\ tx'[u].pc # "idle" /\ u \notin shared =>
                          /\ \A v \in TabIds \ {u} : tx'[v].pc = "idle"
                          /\ tx'[u].pc \in {"check", "stamp", "commit"} => SeesNoneClosed(u)'
  BY DEF TabsInv
<1>1. CASE u = t
  <2>1. tx'[t].pc # "idle" /\ t \notin shared => \A v \in TabIds \ {t} : tx'[v].pc = "idle"
    BY DEF TabsInv
  <2> QED
    BY <1>1, <2>1
<1>2. CASE u # t
  <2>1. tx'[u] = tx[u]
    BY <1>2
  <2>2. tx[u].pc = "idle" \/ u \in shared
    BY <1>2 DEF TabsInv
  <2>3. tx[u] = [pc |-> tx[u].pc, kind |-> tx[u].kind, post |-> tx[u].post,
                 read |-> tx[u].read, wrote |-> tx[u].wrote]
    BY DEF TabsInv
  <2> QED
    BY <2>1, <2>2, <2>3
<1> QED
  BY <1>1, <1>2

LEMMA PostKeeps ==
  ASSUME TabsInv, NEW t \in TabIds, Tabs!Post(t)
  PROVE  TabsInv'
<1>1. PICK k, p : tx' = [tx EXCEPT ![t] = [Tabs!Idle EXCEPT !.pc = "flush", !.kind = k,
                                                             !.post = p, !.read = row]]
  BY DEF Tabs!Post
<1>2. tx'[t] = [pc |-> "flush", kind |-> k, post |-> p, read |-> row, wrote |-> << >>]
  BY <1>1 DEF TabsInv, Tabs!Idle
<1>3. DOMAIN tx' = TabIds /\ \A u \in TabIds \ {t} : tx'[u] = tx[u]
  BY <1>1 DEF TabsInv
<1>4. ASSUME NEW u \in TabIds
      PROVE  tx'[u] = [pc |-> tx'[u].pc, kind |-> tx'[u].kind, post |-> tx'[u].post,
                       read |-> tx'[u].read, wrote |-> tx'[u].wrote]
  BY <1>2, <1>3 DEF TabsInv
<1>5. ASSUME NEW u \in TabIds, tx'[u].pc # "idle", u \notin shared'
      PROVE  u = t /\ \A v \in TabIds \ {t} : tx'[v].pc = "idle"
  <2>1. CASE Tabs!Busy = {}
    BY <1>3, <1>5, <2>1 DEF Tabs!Busy
  <2>2. CASE Tabs!Busy # {}
    <3>1. shared' = shared \cup Tabs!Busy \cup {t}
      BY <2>2 DEF Tabs!Post
    <3> QED
      BY <1>3, <1>5, <3>1 DEF Tabs!Busy
  <2> QED
    BY <2>1, <2>2
<1>6. tx'[t].pc \notin {"check", "stamp", "commit"}
  BY <1>2
<1> QED
  BY <1>3, <1>4, <1>5, <1>6 DEF TabsInv

(* What drop_closed_branch_answers writes.                                 *)
LEMMA DropSees ==
  ASSUME TabsInv, NEW t \in TabIds, Tabs!Drop(t)
  PROVE  SeesNoneClosed(t)'
<1> DEFINE ws == [f \in Tabs!ClosedRows(t) |-> Tabs!NoRow]
           s == Seen(t)
<1>1. PICK to : Tabs!Write(t, ws, to)
  BY DEF Tabs!Drop
<1>2. DOMAIN ws = Answered(s) \cap ClosedGoverned(SharedForm, s)
  BY TabsReadBranches DEF Tabs!ClosedRows, Seen
<1>3. \A f \in DOMAIN ws : ws[f] = [val |-> Blank, stamp |-> FALSE]
  BY DEF Tabs!NoRow, Tabs!Blank, Blank
<1> HIDE DEF ws
<1>4. Tabs!View(t)' = [f \in Tabs!Fields |-> IF f \in DOMAIN ws THEN ws[f]
                                            ELSE Tabs!View(t)[f]]
  BY <1>1, WriteSees
<1>5. DOMAIN s = DOMAIN SharedForm /\ \A f \in DOMAIN s : s[f] = Tabs!View(t)[f].val
  BY DEF Seen, Tabs!Vals, Tabs!View, Tabs!Fields
<1>6. Seen(t)' = [f \in DOMAIN SharedForm |-> IF f \in DOMAIN ws THEN Blank ELSE s[f]]
  BY <1>3, <1>4, <1>5 DEF Seen, Tabs!Vals, Tabs!Fields
<1>7. Seen(t)' = DropClosed(SharedForm, s)
  BY <1>2, <1>5, <1>6 DEF DropClosed, Answered
<1> HIDE DEF s
<1> QED
  BY <1>5, <1>7, DropClosedLeavesApplying DEF SeesNoneClosed

(* A write that changes no value it sees.                                  *)
LEMMA SameValuesSeen ==
  ASSUME TabsInv, NEW t \in TabIds, NEW ws, NEW to, Tabs!Write(t, ws, to),
         \A f \in DOMAIN ws : ws[f].val = Tabs!View(t)[f].val
  PROVE  Seen(t)' = Seen(t)
<1>1. Tabs!View(t)' = [f \in Tabs!Fields |-> IF f \in DOMAIN ws THEN ws[f]
                                            ELSE Tabs!View(t)[f]]
  BY WriteSees
<1>2. DOMAIN Tabs!View(t) = Tabs!Fields
  BY DEF Tabs!View
<1> QED
  BY <1>1, <1>2 DEF Seen, Tabs!Vals

(* A flush of one tab keeps the invariant, if it may go on to where it is. *)
LEMMA WriteKeeps ==
  ASSUME TabsInv, NEW t \in TabIds, NEW ws, NEW to, Tabs!Write(t, ws, to), tx[t].pc # "idle",
         t \notin shared /\ to \in {"check", "stamp", "commit"} => SeesNoneClosed(t)'
  PROVE  TabsInv'
<1>1. UNCHANGED <<row, shared>>
  BY DEF Tabs!Write
<1>2. /\ DOMAIN tx' = TabIds /\ \A u \in TabIds \ {t} : tx'[u] = tx[u]
      /\ tx'[t] = [pc |-> tx'[t].pc, kind |-> tx'[t].kind, post |-> tx'[t].post,
                   read |-> tx'[t].read, wrote |-> tx'[t].wrote]
      /\ tx'[t].pc = to
  BY WriteSees
<1>3. t \notin shared /\ tx'[t].pc \in {"check", "stamp", "commit"} => SeesNoneClosed(t)'
  BY <1>2
<1> QED
  BY <1>1, <1>2, <1>3, OwnStepKeeps

LEMMA AbortKeeps ==
  ASSUME TabsInv, NEW t \in TabIds, Tabs!Abort(t), tx[t].pc # "idle"
  PROVE  TabsInv'
<1>1. /\ DOMAIN tx' = TabIds /\ \A u \in TabIds \ {t} : tx'[u] = tx[u]
      /\ tx'[t] = Tabs!Idle /\ UNCHANGED <<row, shared>>
  BY DEF Tabs!Abort, TabsInv
<1>2. /\ tx'[t] = [pc |-> tx'[t].pc, kind |-> tx'[t].kind, post |-> tx'[t].post,
                   read |-> tx'[t].read, wrote |-> tx'[t].wrote]
      /\ tx'[t].pc = "idle"
  BY <1>1 DEF Tabs!Idle
<1> QED
  BY <1>1, <1>2, OwnStepKeeps

(* One step of one tab.                                                    *)
Clean(t) == tx[t].pc = "commit" /\ tx'[t].pc = "idle" /\ t \notin shared =>
                Answered(Tabs!Vals(row)') \subseteq Applies(SharedForm, Tabs!Vals(row)')

LEMMA TabStepKeeps ==
  ASSUME TabsInv, RowsAreRows, NEW t \in TabIds, Tabs!Post(t) \/ Tabs!Step(t)
  PROVE  TabsInv' /\ \A u \in TabIds : Clean(u)
<1>1. ASSUME NEW ws, NEW to, Tabs!Write(t, ws, to), to # "idle"
      PROVE  \A u \in TabIds : Clean(u)
  BY <1>1, WriteSees DEF Clean
<1>2. ASSUME Tabs!Abort(t), tx[t].pc # "commit"
      PROVE  \A u \in TabIds : Clean(u)
  BY <1>2 DEF Clean, Tabs!Abort, TabsInv
<1>3. CASE Tabs!Post(t)
  <2>1. \A u \in TabIds \ {t} : tx'[u] = tx[u]
    BY <1>3 DEF Tabs!Post, TabsInv
  <2>2. tx[t].pc # "commit"
    BY <1>3 DEF Tabs!Post
  <2> QED
    BY <1>3, <2>1, <2>2, PostKeeps DEF Clean
<1>4. CASE Tabs!Flush(t)
  <2>1. PICK ws, to : Tabs!Write(t, ws, to) /\ to \in {"drop", "unstamp"}
    BY <1>4 DEF Tabs!Flush
  <2>2. tx[t].pc # "idle"
    BY <1>4 DEF Tabs!Flush
  <2> QED
    BY <1>1, <2>1, <2>2, WriteKeeps
<1>5. CASE Tabs!FlushFails(t)
  <2>1. Tabs!Abort(t) /\ tx[t].pc = "flush"
    BY <1>5 DEF Tabs!FlushFails
  <2> QED
    BY <1>2, <2>1, AbortKeeps
<1>6. CASE Tabs!Unstamp(t)
  <2>1. PICK ws : Tabs!Write(t, ws, "drop")
    BY <1>6 DEF Tabs!Unstamp
  <2>2. tx[t].pc # "idle"
    BY <1>6 DEF Tabs!Unstamp
  <2> QED
    BY <1>1, <2>1, <2>2, WriteKeeps
<1>7. CASE Tabs!Drop(t)
  <2>1. PICK ws, to : Tabs!Write(t, ws, to) /\ to \in {"commit", "check"}
    BY <1>7 DEF Tabs!Drop
  <2>2. tx[t].pc # "idle"
    BY <1>7 DEF Tabs!Drop
  <2>3. SeesNoneClosed(t)'
    BY <1>7, DropSees
  <2> QED
    BY <1>1, <2>1, <2>2, <2>3, WriteKeeps
<1>8. CASE Tabs!Check(t)
  <2>1. PICK to : Tabs!Write(t, << >>, to) /\ to \in {"stamp", "commit"}
    BY <1>8 DEF Tabs!Check
  <2>2. tx[t].pc = "check"
    BY <1>8 DEF Tabs!Check
  <2>3. Seen(t)' = Seen(t)
    BY <2>1, SameValuesSeen
  <2>4. t \notin shared => SeesNoneClosed(t)'
    BY <2>2, <2>3 DEF TabsInv, SeesNoneClosed
  <2> QED
    BY <1>1, <2>1, <2>2, <2>4, WriteKeeps
<1>9. CASE Tabs!Stamp(t)
  <2> DEFINE ws == [f \in Tabs!Targets(t) |-> [Tabs!View(t)[f] EXCEPT !.stamp = TRUE]]
  <2>1. Tabs!Write(t, ws, "commit") /\ tx[t].pc = "stamp"
    BY <1>9 DEF Tabs!Stamp
  <2>2. \A f \in DOMAIN ws : ws[f].val = Tabs!View(t)[f].val
    <3>1. DOMAIN ws \subseteq Tabs!Fields
      BY <2>1 DEF Tabs!Targets, Tabs!Answered, Tabs!Vals, Tabs!View
    <3> QED
      BY <3>1, SeesRows
  <2> HIDE DEF ws
  <2>3. Seen(t)' = Seen(t)
    BY <2>1, <2>2, SameValuesSeen
  <2>4. t \notin shared => SeesNoneClosed(t)'
    BY <2>1, <2>3 DEF TabsInv, SeesNoneClosed
  <2> QED
    BY <1>1, <2>1, <2>4, WriteKeeps
<1>10. CASE Tabs!Commit(t)
  <2>1. /\ DOMAIN tx' = TabIds /\ \A u \in TabIds \ {t} : tx'[u] = tx[u]
        /\ tx'[t] = Tabs!Idle /\ row' = Tabs!View(t) /\ UNCHANGED shared
        /\ tx[t].pc = "commit"
    BY <1>10 DEF Tabs!Commit, TabsInv
  <2>2. /\ tx'[t] = [pc |-> tx'[t].pc, kind |-> tx'[t].kind, post |-> tx'[t].post,
                     read |-> tx'[t].read, wrote |-> tx'[t].wrote]
        /\ tx'[t].pc = "idle"
    BY <2>1 DEF Tabs!Idle
  <2>3. TabsInv'
    BY <2>1, <2>2, OwnStepKeeps
  <2>4. Tabs!Vals(row)' = Seen(t)
    BY <2>1 DEF Tabs!Vals, Seen
  <2>5. t \notin shared => SeesNoneClosed(t)
    BY <2>1 DEF TabsInv
  <2>6. Clean(t)
    BY <2>4, <2>5 DEF Clean, SeesNoneClosed
  <2>7. \A u \in TabIds \ {t} : Clean(u)
    BY <2>1 DEF Clean
  <2> QED
    BY <2>3, <2>6, <2>7
<1>11. CASE Tabs!DeadlockVictim(t)
  <2>1. Tabs!Abort(t) /\ tx[t].pc \in {"flush", "unstamp", "drop", "stamp"}
    BY <1>11 DEF Tabs!DeadlockVictim, Tabs!Waits, Tabs!Targets
  <2> QED
    BY <1>2, <2>1, AbortKeeps
<1> QED
  BY <1>3, <1>4, <1>5, <1>6, <1>7, <1>8, <1>9, <1>10, <1>11 DEF Tabs!Step

LEMMA TabStepKeepsRows ==
  ASSUME TabsInv, RowsAreRows, NEW t \in TabIds, Tabs!Post(t) \/ Tabs!Step(t)
  PROVE  RowsAreRows'
<1>1. IsRow(Tabs!NoRow)
  BY DEF IsRow, Tabs!NoRow
<1>2. \A v, s : IsRow([val |-> v, stamp |-> s])
  BY DEF IsRow
<1>3. CASE Tabs!Post(t)
  <2>1. PICK k, p : tx' = [tx EXCEPT ![t] = [Tabs!Idle EXCEPT !.pc = "flush", !.kind = k,
                                                               !.post = p, !.read = row]]
    BY <1>3 DEF Tabs!Post
  <2>2. DOMAIN tx'[t].wrote = {} /\ \A u \in TabIds \ {t} : tx'[u] = tx[u]
    BY <2>1 DEF TabsInv, Tabs!Idle
  <2>3. row' = row
    BY <1>3 DEF Tabs!Post
  <2> QED
    BY <2>2, <2>3, IdleHasNoRows
<1>4. CASE Tabs!Flush(t)
  <2> DEFINE ws == [f \in Tabs!Targets(t) |->
                      IF f \in Tabs!Deletes(t) THEN Tabs!NoRow
                      ELSE [val |-> tx[t].post[f],
                            stamp |-> f \in Tabs!Updates(t) /\ ~tx[t].read[f].stamp
                                        /\ Tabs!View(t)[f].stamp]]
  <2>1. PICK to : Tabs!Write(t, ws, to)
    BY <1>4 DEF Tabs!Flush
  <2>2. \A f \in DOMAIN ws : IsRow(ws[f])
    BY <1>1, <1>2
  <2> HIDE DEF ws
  <2> QED
    BY <2>1, <2>2, WritesAreRows
<1>5. CASE Tabs!FlushFails(t) \/ Tabs!DeadlockVictim(t)
  <2>1. Tabs!Abort(t)
    BY <1>5 DEF Tabs!FlushFails, Tabs!DeadlockVictim
  <2>2. DOMAIN tx'[t].wrote = {} /\ row' = row /\ \A u \in TabIds \ {t} : tx'[u] = tx[u]
    BY <2>1 DEF Tabs!Abort, TabsInv, Tabs!Idle
  <2> QED
    BY <2>2, IdleHasNoRows
<1>6. CASE Tabs!Unstamp(t)
  <2> DEFINE ws == [f \in Tabs!Targets(t) |-> [Tabs!View(t)[f] EXCEPT !.stamp = FALSE]]
  <2>1. Tabs!Write(t, ws, "drop")
    BY <1>6 DEF Tabs!Unstamp
  <2>2. \A f \in Tabs!Fields : f \in DOMAIN ws => IsRow(ws[f])
    BY SeesRows
  <2> HIDE DEF ws
  <2> QED
    BY <2>1, <2>2, WritesAreRows
<1>7. CASE Tabs!Drop(t)
  <2> DEFINE ws == [f \in Tabs!ClosedRows(t) |-> Tabs!NoRow]
  <2>1. PICK to : Tabs!Write(t, ws, to)
    BY <1>7 DEF Tabs!Drop
  <2>2. \A f \in DOMAIN ws : IsRow(ws[f])
    BY <1>1
  <2> HIDE DEF ws
  <2> QED
    BY <2>1, <2>2, WritesAreRows
<1>8. CASE Tabs!Check(t)
  <2>1. PICK to : Tabs!Write(t, << >>, to)
    BY <1>8 DEF Tabs!Check
  <2>2. DOMAIN << >> = {}
    OBVIOUS
  <2> QED
    BY <2>1, <2>2, WritesAreRows
<1>9. CASE Tabs!Stamp(t)
  <2> DEFINE ws == [f \in Tabs!Targets(t) |-> [Tabs!View(t)[f] EXCEPT !.stamp = TRUE]]
  <2>1. Tabs!Write(t, ws, "commit")
    BY <1>9 DEF Tabs!Stamp
  <2>2. \A f \in Tabs!Fields : f \in DOMAIN ws => IsRow(ws[f])
    BY SeesRows
  <2> HIDE DEF ws
  <2> QED
    BY <2>1, <2>2, WritesAreRows
<1>10. CASE Tabs!Commit(t)
  <2>1. /\ DOMAIN tx'[t].wrote = {} /\ row' = Tabs!View(t)
        /\ \A u \in TabIds \ {t} : tx'[u] = tx[u]
    BY <1>10 DEF Tabs!Commit, TabsInv, Tabs!Idle
  <2> QED
    BY <2>1, IdleHasNoRows
<1> QED
  BY <1>3, <1>4, <1>5, <1>6, <1>7, <1>8, <1>9, <1>10 DEF Tabs!Step

LEMMA AllStepsOfTabs ==
  ASSUME which = "tabs" => TabsInv /\ RowsAreRows, [NextAnswers]_allVars
  PROVE  (which = "tabs" => TabsInv /\ RowsAreRows)'
         /\ [which = "tabs" => \A t \in TabIds : Clean(t)]_allVars
<1>1. CASE UNCHANGED allVars
  <2>1. UNCHANGED <<which, row, tx, shared>>
    BY <1>1 DEF allVars, tabVars
  <2> QED
    BY <1>1, <2>1 DEF TabsInv, RowsAreRows, IsRow, SeesNoneClosed, Seen, Tabs!Vals, Tabs!View, Tabs!Fields
<1>2. CASE NextAnswers /\ which # "tabs"
  BY <1>2 DEF NextAnswers, InFields, InTabs, InGroups
<1>3. CASE NextAnswers /\ which = "tabs"
  <2>1. PICK t \in TabIds : Tabs!Post(t) \/ Tabs!Step(t)
    BY <1>3 DEF NextAnswers, InFields, InTabs, InGroups, Tabs!Step
  <2> QED
    BY <1>3, <2>1, TabStepKeeps, TabStepKeepsRows
<1> QED
  BY <1>1, <1>2, <1>3

(***************************************************************************)
(* Whatever two overlapping saves left behind, a save that meets no other  *)
(* commits a sheet without an answer under a closed branch: the pass over  *)
(* the closed rows reads the transaction's own rows, after its writes.     *)
(***************************************************************************)
THEOREM SaveAlonePutsRight == SpecAnswers => AloneCommitsRight
<1>1. InitAnswers => (which = "tabs" => TabsInv /\ RowsAreRows)
  <2> SUFFICES ASSUME Tabs!Init PROVE TabsInv /\ RowsAreRows
    BY DEF InitAnswers
  <2>1. TabsInv
    BY DEF Tabs!Init, TabsInv, Tabs!Idle
  <2>2. \A f \in Tabs!Fields : IsRow(row[f])
    <3>1. PICK shown \in [Tabs!Fields -> Answers \cup {Tabs!Blank}], m \in BOOLEAN :
             row = [f \in Tabs!Fields |-> IF shown[f] = Tabs!Blank THEN Tabs!NoRow
                                         ELSE [val |-> shown[f], stamp |-> m]]
      BY DEF Tabs!Init
    <3>2. ASSUME NEW f \in Tabs!Fields PROVE IsRow(row[f])
      <4>1. CASE shown[f] = Tabs!Blank
        BY <3>1, <4>1 DEF Tabs!NoRow, IsRow
      <4>2. CASE shown[f] # Tabs!Blank
        BY <3>1, <4>2 DEF IsRow
      <4> QED
        BY <4>1, <4>2
    <3> QED
      BY <3>2
  <2>3. \A t \in TabIds : DOMAIN tx[t].wrote = {}
    BY DEF Tabs!Init, Tabs!Idle
  <2> QED
    BY <2>1, <2>2, <2>3 DEF RowsAreRows
<1>2. (\A t \in TabIds : Clean(t)) => Tabs!AloneCommitsRight
  BY TabsReadBranches DEF Clean, Tabs!AloneCommitsRight, Tabs!NoClosedAnswers
<1>3. /\ (which = "tabs" => TabsInv /\ RowsAreRows) /\ [NextAnswers]_allVars => (which = "tabs" => TabsInv /\ RowsAreRows)'
      /\ (which = "tabs" => TabsInv /\ RowsAreRows) /\ [NextAnswers]_allVars
            => [which = "tabs" => Tabs!AloneCommitsRight]_allVars
  BY <1>2, AllStepsOfTabs
<1> QED
  BY <1>1, <1>3, PTL DEF SpecAnswers, AloneCommitsRight

-----------------------------------------------------------------------------
(***************************************************************************)
(* GroupAnswers.  Its theorems (GroupAnswersProofs) hold of the behaviours *)
(* of AnswersMC that are its own, step for step.                           *)
(***************************************************************************)
G == INSTANCE GroupAnswersProofs WITH MaxEdits <- GroupEdits, edits <- groupEdits

LEMMA GroupsAreTheSame ==
  /\ Groups!ConstantsAssumption <=> G!ConstantsAssumption
  /\ Groups!Init <=> G!Init
  /\ Groups!Prepare <=> G!Prepare
  /\ Groups!Activate <=> G!Activate
  /\ Groups!Revert <=> G!Revert
  /\ Groups!RosterEdit <=> G!RosterEdit
  /\ Groups!Append <=> G!Append
  /\ Groups!RelationshipEdit <=> G!RelationshipEdit
  /\ Groups!InstrumentEdit <=> G!InstrumentEdit
  /\ Groups!Pairs = G!Pairs /\ Groups!Posts = G!Posts
  /\ \A p, post : Groups!SaveDraft(p, post) <=> G!SaveDraft(p, post)
  /\ \A p, post : Groups!Submit(p, post) <=> G!Submit(p, post)
  /\ \A r : Groups!Recall(r) <=> G!Recall(r)
  /\ \A r : Groups!ClearAll(r) <=> G!ClearAll(r)
  /\ Groups!CopiesAgree <=> G!CopiesAgree
  /\ Groups!AnswersDescribeTheirGroup <=> G!AnswersDescribeTheirGroup
  /\ Groups!FlagsFollowEdits <=> G!FlagsFollowEdits
  /\ Groups!LossIsWhatWasShown <=> G!LossIsWhatWasShown
<1> USE DEF
    Groups!Blank, Groups!Bad, Groups!Pairs, Groups!Fields, Groups!NoTie,
    Groups!Ties, Groups!Kinds, Groups!OnRoster, Groups!Matchings,
    Groups!Setups, Groups!NoAnswer, Groups!Cells, Groups!Rows,
    Groups!ConstantsAssumption, Groups!vars, Groups!Init, Groups!IsActive,
    Groups!GroupKey, Groups!IsCatchAll, Groups!GroupOf, Groups!Classify,
    Groups!Recompute, Groups!Empty, Groups!AnswersIn, Groups!Partition,
    Groups!SharesAMember, Groups!Keeps, Groups!ClearChanged, Groups!NewPairs,
    Groups!PairInclude, Groups!Generated, Groups!DeletedAnswers,
    Groups!ClearsAmongKept, Groups!ProjectedGroupClears, Groups!ResponsesLost,
    Groups!Prepare, Groups!Activate, Groups!Revert, Groups!Spend,
    Groups!Redraw, Groups!Without, Groups!RowsWithout, Groups!Matched,
    Groups!Filed, Groups!CreateReviewee, Groups!UpdateReviewee,
    Groups!UpdateReviewer, Groups!CreateReviewer, Groups!RecheckDirectory,
    Groups!DeleteReviewees, Groups!DeleteReviewers, Groups!ReplaceReviewees,
    Groups!MergeReviewees, Groups!AppendReviewees, Groups!RedrawTies,
    Groups!CreateRelationship, Groups!UpdateRelationship,
    Groups!BulkSetRelationshipStatus, Groups!DeleteRelationships,
    Groups!DeleteAllRelationships, Groups!SaveRelationships,
    Groups!SetGroupBoundary, Groups!SetUnitOfReview, Groups!SetStatus,
    Groups!SetRule, Groups!SetSelfReviewsActive, Groups!BulkSetInclude,
    Groups!DeleteAllResponses, Groups!Included, Groups!Members,
    Groups!WithoutExcludedMembers, Groups!WithExcludedMembers, Groups!Written,
    Groups!BlanksAnAnswer, Groups!Applied, Groups!Missing, Groups!Stamp,
    Groups!Posts, Groups!SaveDraft, Groups!Submit, Groups!Recall,
    Groups!ClearAll, Groups!RosterEdit, Groups!Append,
    Groups!RelationshipEdit, Groups!InstrumentEdit, Groups!CopiesAgree,
    Groups!AnswersDescribeTheirGroup, Groups!FlagsCurrent,
    Groups!FlagsFollowEdits, Groups!LossIsWhatWasShown, Groups!SymDiff,
    Groups!Restrict, G!Blank, G!Bad, G!Pairs, G!Fields, G!NoTie, G!Ties,
    G!Kinds, G!OnRoster, G!Matchings, G!Setups, G!NoAnswer, G!Cells, G!Rows,
    G!ConstantsAssumption, G!vars, G!Init, G!IsActive, G!GroupKey,
    G!IsCatchAll, G!GroupOf, G!Classify, G!Recompute, G!Empty, G!AnswersIn,
    G!Partition, G!SharesAMember, G!Keeps, G!ClearChanged, G!NewPairs,
    G!PairInclude, G!Generated, G!DeletedAnswers, G!ClearsAmongKept,
    G!ProjectedGroupClears, G!ResponsesLost, G!Prepare, G!Activate, G!Revert,
    G!Spend, G!Redraw, G!Without, G!RowsWithout, G!Matched, G!Filed,
    G!CreateReviewee, G!UpdateReviewee, G!UpdateReviewer, G!CreateReviewer,
    G!RecheckDirectory, G!DeleteReviewees, G!DeleteReviewers,
    G!ReplaceReviewees, G!MergeReviewees, G!AppendReviewees, G!RedrawTies,
    G!CreateRelationship, G!UpdateRelationship, G!BulkSetRelationshipStatus,
    G!DeleteRelationships, G!DeleteAllRelationships, G!SaveRelationships,
    G!SetGroupBoundary, G!SetUnitOfReview, G!SetStatus, G!SetRule,
    G!SetSelfReviewsActive, G!BulkSetInclude, G!DeleteAllResponses,
    G!Included, G!Members, G!WithoutExcludedMembers, G!WithExcludedMembers,
    G!Written, G!BlanksAnAnswer, G!Applied, G!Missing, G!Stamp, G!Posts,
    G!SaveDraft, G!Submit, G!Recall, G!ClearAll, G!RosterEdit, G!Append,
    G!RelationshipEdit, G!InstrumentEdit, G!CopiesAgree,
    G!AnswersDescribeTheirGroup, G!FlagsCurrent, G!FlagsFollowEdits,
    G!LossIsWhatWasShown, G!SymDiff, G!Restrict
<1>1. Groups!ConstantsAssumption <=> G!ConstantsAssumption
  OBVIOUS
<1>2. Groups!Init <=> G!Init
  OBVIOUS
<1>3. Groups!Prepare <=> G!Prepare
  OBVIOUS
<1>4. Groups!Activate <=> G!Activate
  OBVIOUS
<1>5. Groups!Revert <=> G!Revert
  OBVIOUS
<1>6. Groups!RosterEdit <=> G!RosterEdit
  OBVIOUS
<1>7. Groups!Append <=> G!Append
  OBVIOUS
<1>8. Groups!RelationshipEdit <=> G!RelationshipEdit
  OBVIOUS
<1>9. Groups!InstrumentEdit <=> G!InstrumentEdit
  OBVIOUS
<1>10. Groups!Pairs = G!Pairs /\ Groups!Posts = G!Posts
  OBVIOUS
<1>11. \A p, post : Groups!SaveDraft(p, post) <=> G!SaveDraft(p, post)
  OBVIOUS
<1>12. \A p, post : Groups!Submit(p, post) <=> G!Submit(p, post)
  OBVIOUS
<1>13. \A r : Groups!Recall(r) <=> G!Recall(r)
  OBVIOUS
<1>14. \A r : Groups!ClearAll(r) <=> G!ClearAll(r)
  OBVIOUS
<1>15. Groups!CopiesAgree <=> G!CopiesAgree
  OBVIOUS
<1>16. Groups!AnswersDescribeTheirGroup <=> G!AnswersDescribeTheirGroup
  OBVIOUS
<1>17. Groups!FlagsFollowEdits <=> G!FlagsFollowEdits
  OBVIOUS
<1>18. Groups!LossIsWhatWasShown <=> G!LossIsWhatWasShown
  OBVIOUS
<1> QED
  BY <1>1, <1>2, <1>3, <1>4, <1>5, <1>6, <1>7, <1>8, <1>9, <1>10, <1>11, <1>12, <1>13, <1>14, <1>15, <1>16, <1>17, <1>18

LEMMA GroupSteps ==
  ASSUME which = "groups", [NextAnswers]_allVars
  PROVE  which' = "groups" /\ [G!Next]_G!vars
<1>1. CASE UNCHANGED allVars
  BY <1>1 DEF allVars, groupVars, G!vars
<1>2. CASE NextAnswers
  <2>1. which' = "groups"
    BY <1>2 DEF NextAnswers, InFields, InTabs, InGroups
  <2>2. \/ Groups!Prepare \/ Groups!Activate \/ Groups!Revert
        \/ Groups!RosterEdit \/ Groups!Append
        \/ Groups!RelationshipEdit \/ Groups!InstrumentEdit
        \/ \E p \in Groups!Pairs, post \in Groups!Posts :
              Groups!SaveDraft(p, post) \/ Groups!Submit(p, post)
        \/ \E r \in Reviewers : Groups!Recall(r) \/ Groups!ClearAll(r)
    BY <1>2 DEF NextAnswers, InFields, InTabs, InGroups
  <2> QED
    BY <2>1, <2>2, GroupsAreTheSame DEF G!Next
<1> QED
  BY <1>1, <1>2

OfGroups == which = "groups"

LEMMA GroupBehaviours ==
  /\ SpecAnswers /\ OfGroups => G!Spec
  /\ SpecAnswers => []OfGroups \/ []~OfGroups
<1>1. InitAnswers /\ OfGroups => G!Init
  BY GroupsAreTheSame DEF InitAnswers, OfGroups
<1>2. OfGroups /\ [NextAnswers]_allVars => OfGroups' /\ [G!Next]_G!vars
  BY GroupSteps DEF OfGroups
<1>3. ~OfGroups /\ [NextAnswers]_allVars => ~OfGroups'
  BY DEF NextAnswers, InFields, InTabs, InGroups, allVars, OfGroups
<1> QED
  BY <1>1, <1>2, <1>3, PTL DEF SpecAnswers, G!Spec

(***************************************************************************)
(* However the groups are redrawn, generated, saved, submitted and         *)
(* recalled, a group's rows hold one answer, in value and in stamp         *)
(* (_apply_upserts, _excluded_group_members).                              *)
(***************************************************************************)
THEOREM CopiesAlwaysAgree == SpecAnswers => []CopiesAgree
<1>1. G!Spec => []G!CopiesAgree
  BY G!CopiesAlwaysAgree, GroupsAssumption, GroupsAreTheSame
<1>2. G!CopiesAgree \/ ~OfGroups => CopiesAgree
  BY GroupsAreTheSame DEF CopiesAgree, OfGroups
<1> QED
  BY <1>1, <1>2, GroupBehaviours, PTL

(***************************************************************************)
(* clear_changed_groups: no edit and no run leaves an answer on a group    *)
(* with a member it was not given about.                                   *)
(***************************************************************************)
THEOREM AnswersStayAboutTheirGroup == SpecAnswers => []AnswersDescribeTheirGroup
<1>1. G!Spec => []G!AnswersDescribeTheirGroup
  BY G!AnswersStayAboutTheirGroup, GroupsAssumption, GroupsAreTheSame
<1>2. G!AnswersDescribeTheirGroup \/ ~OfGroups => AnswersDescribeTheirGroup
  BY GroupsAreTheSame DEF AnswersDescribeTheirGroup, OfGroups
<1> QED
  BY <1>1, <1>2, GroupBehaviours, PTL

(***************************************************************************)
(* recompute_self_review_classification: of every step, flags that are     *)
(* right stay right through all but the append of a file, and a session    *)
(* that leaves draft has them right.                                       *)
(***************************************************************************)
THEOREM FlagsFollow == SpecAnswers => FlagsFollowEdits
<1>1. G!Spec => [][G!FlagsFollowEdits]_G!vars
  BY G!FlagsFollow, GroupsAssumption, GroupsAreTheSame
<1>2. [G!FlagsFollowEdits]_G!vars /\ OfGroups /\ [NextAnswers]_allVars
        => [which = "groups" => Groups!FlagsFollowEdits]_allVars
  <2> SUFFICES ASSUME UNCHANGED G!vars, OfGroups, NextAnswers
               PROVE  Groups!FlagsFollowEdits
    BY GroupsAreTheSame
  <2>1. UNCHANGED <<stage, setup, rows>>
    BY DEF G!vars
  <2> QED
    BY <2>1 DEF Groups!FlagsFollowEdits, Groups!FlagsCurrent, Groups!Classify
<1>3. ~OfGroups => [which = "groups" => Groups!FlagsFollowEdits]_allVars
  BY DEF OfGroups
<1> QED
  BY <1>1, <1>2, <1>3, GroupBehaviours, PTL DEF SpecAnswers, FlagsFollowEdits

(***************************************************************************)
(* reconcile_impact: of every run of Generate, the answers it takes are    *)
(* the ones the confirmation counted without running it.                   *)
(***************************************************************************)
THEOREM OnlyTheShownIsLost == SpecAnswers => LossIsWhatWasShown
<1>1. G!Spec => []G!GroupsInv
  BY G!InvariantHolds, GroupsAssumption, GroupsAreTheSame
<1>2. G!GroupsInv => [which = "groups" => Groups!LossIsWhatWasShown]_allVars
  BY G!PrepareLosesWhatWasShown, GroupsAreTheSame
<1>3. ~OfGroups => [which = "groups" => Groups!LossIsWhatWasShown]_allVars
  BY DEF OfGroups
<1> QED
  BY <1>1, <1>2, <1>3, GroupBehaviours, PTL DEF SpecAnswers, LossIsWhatWasShown
=============================================================================
