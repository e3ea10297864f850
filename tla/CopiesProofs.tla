----------------------------- MODULE CopiesProofs -----------------------------
(***************************************************************************)
(* Proofs about SetupCopies, for any cards, rule sets, shapes and files:   *)
(* cards own what they name, since every id a copy or an import gives out  *)
(* is new; an import drops no more of them than the operator ticked; and a *)
(* copy of a session whose looks nobody changed meanwhile looks as it did, *)
(* which takes an invariant of what an export or a Duplicate has read at   *)
(* each of its statements.                                                 *)
(***************************************************************************)
EXTENDS SetupMC, FiniteSetTheorems, TLAPS

-----------------------------------------------------------------------------
(* Numbers: a least one, and counting up to every one.                     *)
LEMMA LeastExists ==
  ASSUME NEW S \in SUBSET Nat, S # {}
  PROVE  \E m \in S : \A j \in S : m <= j
<1> DEFINE below == OpToRel(<, Nat)
<1>1. PICK m \in S : \A j \in S : ~(<<j, m>> \in below)
  <2> HIDE DEF below
  <2>1. IsWellFoundedOn(below, Nat)
    BY NatLessThanWellFounded DEF below
  <2> QED
    BY <2>1, WFMin
<1>2. ASSUME NEW j \in S PROVE m <= j
  <2>1. <<j, m>> \in below <=> j < m
    BY DEF OpToRel
  <2> HIDE DEF below
  <2> QED
    BY <1>1, <2>1
<1> QED
  BY <1>2

LEMMA CountingUp ==
  ASSUME NEW S, 0 \in S, \A m \in Nat : m \in S => m + 1 \in S
  PROVE  Nat \subseteq S
<1> SUFFICES ASSUME Nat \ S # {} PROVE FALSE
  OBVIOUS
<1>1. PICK m \in Nat \ S : \A j \in Nat \ S : m <= j
  BY LeastExists
<1>2. m # 0 /\ m - 1 \in Nat
  BY <1>1
<1>3. m - 1 \in S
  BY <1>1, <1>2
<1>4. (m - 1) + 1 \in S
  BY <1>2, <1>3
<1> QED
  BY <1>1, <1>2, <1>4

-----------------------------------------------------------------------------
(***************************************************************************)
(* SetupCopies.  A session fits a sequence of ids when its rows are rows,  *)
(* have ids the sequence has handed out, and its cards own what they name. *)
(***************************************************************************)
Fits(s, free) == Copies!IsSession(s, free) /\ Copies!Owns(s)

CopiesInv == Copies!TypeOK /\ Copies!CardsOwnWhatTheyName

OwnSort(c) == c.sort \in Copies!Range(c.fields) \cup {Copies!NoSort}

LEMMA FitsIs ==
  ASSUME NEW s, NEW free
  PROVE  Fits(s, free) <=>
            /\ s = [inst |-> s.inst, sets |-> s.sets, shapes |-> s.shapes]
            /\ DOMAIN s.inst \cup DOMAIN s.sets \subseteq 1..(free - 1)
            /\ \A i \in DOMAIN s.inst :
                  /\ Copies!IsCard(s.inst[i]) /\ OwnSort(s.inst[i])
                  /\ s.inst[i].set \in DOMAIN s.sets \cup {0}
            /\ \A i, j \in DOMAIN s.inst :
                  i # j /\ s.inst[i].set # 0 => s.inst[i].set # s.inst[j].set
            /\ Copies!Range(s.shapes) \subseteq DOMAIN s.inst \cup {0}
BY DEF Fits, OwnSort, Copies!IsSession, Copies!Owns, Copies!None

LEMMA InvFits == CopiesInv => Fits(here, next) /\ next \in Nat \ {0}
BY DEF CopiesInv, Fits, Copies!TypeOK, Copies!CardsOwnWhatTheyName

(* The instance's own names for the operators of the library.              *)
LEMMA CopiesLibrary ==
  ASSUME NEW S
  PROVE  /\ Copies!IsFiniteSet(S) <=> IsFiniteSet(S)
         /\ Copies!Cardinality(S) = Cardinality(S)
         /\ Copies!SetToSeq(S) = SetToSeq(S)
<1>1. Copies!IsFiniteSet(S) <=> IsFiniteSet(S)
  BY DEF Copies!IsFiniteSet, IsFiniteSet
<1>2. Copies!Cardinality(S) = Cardinality(S)
  BY DEF Copies!Cardinality, Cardinality
<1>3. Copies!SetToSeq(S) = SetToSeq(S)
  BY <1>2 DEF Copies!SetToSeq, SetToSeq, Copies!IsInjective, IsInjective
<1> QED
  BY <1>1, <1>2, <1>3

(* The ranks of a finite set in a strict total order.                      *)
Preceding(S, R, i) == {j \in S : <<j, i>> \in R}

IsOrder(S, R) ==
    /\ \A i \in S : <<i, i>> \notin R
    /\ \A i, j \in S : i # j => <<i, j>> \in R \/ <<j, i>> \in R
    /\ \A i, j, k \in S : <<i, j>> \in R /\ <<j, k>> \in R => <<i, k>> \in R

LEMMA RanksInOrder ==
  ASSUME NEW S, IsFiniteSet(S), NEW R, IsOrder(S, R)
  PROVE  /\ Cardinality(S) \in Nat
         /\ \A i \in S : Cardinality(Preceding(S, R, i)) \in 0..(Cardinality(S) - 1)
         /\ \A i, j \in S : Cardinality(Preceding(S, R, i)) = Cardinality(Preceding(S, R, j)) => i = j
         /\ \A n \in 1..Cardinality(S) : \E i \in S : Cardinality(Preceding(S, R, i)) = n - 1
<1> DEFINE size == Cardinality(S)
           before(i) == Preceding(S, R, i)
           rank == [i \in S |-> Cardinality(before(i)) + 1]
<1>1. size \in Nat
  BY FS_CardinalityType
<1>2. \A i \in S : /\ IsFiniteSet(before(i)) /\ Cardinality(before(i)) \in Nat
                   /\ Cardinality(before(i)) < size
  <2> TAKE i \in S
  <2>1. before(i) \in SUBSET S /\ before(i) # S
    BY DEF Preceding, IsOrder
  <2> HIDE DEF before
  <2>2. /\ IsFiniteSet(before(i)) /\ Cardinality(before(i)) <= size
        /\ Cardinality(before(i)) # size
    BY <2>1, FS_Subset
  <2>3. Cardinality(before(i)) \in Nat
    BY <2>2, FS_CardinalityType
  <2> QED
    BY <1>1, <2>2, <2>3
<1>3. ASSUME NEW i \in S, NEW j \in S, <<i, j>> \in R
      PROVE  Cardinality(before(i)) < Cardinality(before(j))
  <2>1. before(i) \in SUBSET before(j) /\ i \in before(j) /\ i \notin before(i)
    BY <1>3 DEF Preceding, IsOrder
  <2> HIDE DEF before
  <2>2. /\ Cardinality(before(i)) <= Cardinality(before(j))
        /\ Cardinality(before(i)) # Cardinality(before(j))
    BY <1>2, <2>1, FS_Subset
  <2> QED
    BY <1>2, <2>2
<1>4. \A i, j \in S : Cardinality(before(i)) = Cardinality(before(j)) => i = j
  <2> SUFFICES ASSUME NEW i \in S, NEW j \in S, i # j
               PROVE  Cardinality(before(i)) # Cardinality(before(j))
    OBVIOUS
  <2>1. <<i, j>> \in R \/ <<j, i>> \in R
    BY DEF IsOrder
  <2> HIDE DEF before
  <2> QED
    BY <1>2, <1>3, <2>1
<1> HIDE DEF before
<1>5. rank \in [S -> 1..size] /\ DOMAIN rank = S
  BY <1>1, <1>2
<1>6. \A i, j \in S : rank[i] = rank[j] => i = j
  BY <1>2, <1>4
<1>7. rank \in Surjection(S, 1..size)
  <2>1. IsFiniteSet(1..size) /\ Cardinality(1..size) = size
    <3> HIDE DEF size
    <3>1. IsFiniteSet(1..size) /\ Cardinality(1..size) = IF 1 > size THEN 0 ELSE size - 1 + 1
      BY <1>1, FS_Interval
    <3> QED
      BY <1>1, <3>1
  <2>2. rank \in Injection(S, 1..size)
    <3> HIDE DEF rank, size
    <3> QED
      BY <1>5, <1>6 DEF Injection, IsInjective
  <2> HIDE DEF rank
  <2> QED
    BY <2>1, <2>2, FS_Injection
<1>8. ASSUME NEW n \in 1..size PROVE \E i \in S : Cardinality(before(i)) = n - 1
  <2>1. PICK i \in S : rank[i] = n
    BY <1>7 DEF Surjection
  <2>2. Cardinality(before(i)) + 1 = n /\ Cardinality(before(i)) \in Nat
    BY <1>2, <2>1
  <2> QED
    BY <2>2
<1>9. \A i \in S : Cardinality(before(i)) \in 0..(size - 1)
  BY <1>1, <1>2
<1> QED
  BY <1>1, <1>4, <1>8, <1>9 DEF before

(* No more than c of them have a rank below c.                             *)
LEMMA FewRankLow ==
  ASSUME NEW S, IsFiniteSet(S), NEW R, IsOrder(S, R), NEW c \in Nat,
         NEW low \in SUBSET S, \A i \in low : Cardinality(Preceding(S, R, i)) < c
  PROVE  IsFiniteSet(low) /\ Cardinality(low) \in Nat /\ Cardinality(low) <= c
<1> DEFINE rank == [i \in low |-> Cardinality(Preceding(S, R, i)) + 1]
<1>1. \A i \in S : Cardinality(Preceding(S, R, i)) \in Nat
  BY RanksInOrder
<1>2. \A i, j \in S : Cardinality(Preceding(S, R, i)) = Cardinality(Preceding(S, R, j)) => i = j
  BY RanksInOrder
<1>3. rank \in [low -> 1..c] /\ DOMAIN rank = low
  BY <1>1
<1>4. \A i, j \in low : rank[i] = rank[j] => i = j
  <2> SUFFICES ASSUME NEW i \in low, NEW j \in low, rank[i] = rank[j] PROVE i = j
    OBVIOUS
  <2>1. Cardinality(Preceding(S, R, i)) + 1 = Cardinality(Preceding(S, R, j)) + 1
    OBVIOUS
  <2>2. Cardinality(Preceding(S, R, i)) \in Nat /\ Cardinality(Preceding(S, R, j)) \in Nat
    BY <1>1
  <2> QED
    BY <1>2, <2>1, <2>2
<1>5. rank \in Injection(low, 1..c)
  <2> HIDE DEF rank
  <2> QED
    BY <1>3, <1>4 DEF Injection, IsInjective
<1>6. IsFiniteSet(1..c) /\ Cardinality(1..c) = IF 1 > c THEN 0 ELSE c - 1 + 1
  BY FS_Interval
<1>7. Cardinality(low) <= Cardinality(1..c)
  <2> HIDE DEF rank
  <2> QED
    BY <1>5, <1>6, FS_Injection
<1>8. IsFiniteSet(low) /\ Cardinality(low) \in Nat
  BY FS_Subset, FS_CardinalityType
<1> QED
  BY <1>6, <1>7, <1>8

(* Cards in their order.                                                   *)
OrderOf(s) == {x \in (DOMAIN s.inst) \X (DOMAIN s.inst) : Copies!Before(s, x[1], x[2])}

LEMMA CardsInOrder ==
  ASSUME NEW s, NEW free \in Nat \ {0}, Fits(s, free), NEW S \in SUBSET DOMAIN s.inst
  PROVE  /\ IsFiniteSet(S) /\ IsOrder(S, OrderOf(s))
         /\ \A i \in S : {j \in S : Copies!Before(s, j, i)} = Preceding(S, OrderOf(s), i)
<1>1. DOMAIN s.inst \subseteq 1..(free - 1) /\ IsFiniteSet(1..(free - 1))
  BY FitsIs, FS_Interval
<1>2. IsFiniteSet(S)
  BY <1>1, FS_Subset
<1>3. \A i \in S : i \in Int /\ s.inst[i].ord \in Int
  <2> TAKE i \in S
  <2>1. i \in Int
    BY <1>1
  <2>2. Copies!IsCard(s.inst[i])
    BY FitsIs
  <2> QED
    BY <2>1, <2>2 DEF Copies!IsCard
<1>4. \A i, j \in S : <<i, j>> \in OrderOf(s) <=> Copies!Before(s, i, j)
  BY DEF OrderOf
<1>5. IsOrder(S, OrderOf(s))
  <2> DEFINE ord(i) == s.inst[i].ord
  <2>1. \A i, j \in S : Copies!Before(s, i, j) <=> ord(i) < ord(j) \/ (ord(i) = ord(j) /\ i < j)
    BY DEF Copies!Before
  <2>2. \A i \in S : ord(i) \in Int
    BY <1>3
  <2> HIDE DEF ord
  <2>3. \A i \in S : ~Copies!Before(s, i, i)
    BY <1>3, <2>1, <2>2
  <2>4. \A i, j \in S : i # j => Copies!Before(s, i, j) \/ Copies!Before(s, j, i)
    BY <1>3, <2>1, <2>2
  <2>5. \A i, j, k \in S : Copies!Before(s, i, j) /\ Copies!Before(s, j, k) => Copies!Before(s, i, k)
    <3> TAKE i, j, k \in S
    <3>1. /\ ord(i) \in Int /\ ord(j) \in Int /\ ord(k) \in Int
          /\ i \in Int /\ j \in Int /\ k \in Int
      BY <1>3, <2>2
    <3> QED
      BY <2>1, <3>1
  <2> QED
    BY <1>4, <2>3, <2>4, <2>5 DEF IsOrder
<1>6. \A i \in S : {j \in S : Copies!Before(s, j, i)} = Preceding(S, OrderOf(s), i)
  BY <1>4 DEF Preceding
<1> QED
  BY <1>2, <1>5, <1>6

LEMMA SortedCards ==
  ASSUME NEW s, NEW free \in Nat \ {0}, Fits(s, free)
  PROVE  /\ Copies!Sorted(s) \in Seq(DOMAIN s.inst)
         /\ Copies!Range(Copies!Sorted(s)) = DOMAIN s.inst
         /\ DOMAIN Copies!Sorted(s) = 1..Cardinality(DOMAIN s.inst)
         /\ \A j, k \in DOMAIN Copies!Sorted(s) : Copies!Sorted(s)[j] = Copies!Sorted(s)[k] => j = k
<1> DEFINE S == DOMAIN s.inst
           R == OrderOf(s)
           n == Cardinality(S)
           pick(k) == CHOOSE i \in S : Cardinality(Preceding(S, R, i)) = k - 1
<1>1. /\ IsFiniteSet(S) /\ IsOrder(S, R)
      /\ \A i \in S : {j \in S : Copies!Before(s, j, i)} = Preceding(S, R, i)
  BY CardsInOrder
<1>2. /\ n \in Nat /\ \A i \in S : Cardinality(Preceding(S, R, i)) \in 0..(n - 1)
      /\ \A i, j \in S : Cardinality(Preceding(S, R, i)) = Cardinality(Preceding(S, R, j)) => i = j
      /\ \A k \in 1..n : \E i \in S : Cardinality(Preceding(S, R, i)) = k - 1
  BY <1>1, RanksInOrder
<1>3. Copies!Sorted(s) = [k \in 1..n |-> pick(k)]
  <2>1. Copies!Sorted(s) = [k \in 1..n |-> CHOOSE i \in S :
                              Cardinality({j \in S : Copies!Before(s, j, i)}) = k - 1]
    <3> DEFINE before(i) == {j \in S : Copies!Before(s, j, i)}
    <3>1. /\ \A i : Copies!Cardinality(before(i)) = Cardinality(before(i))
          /\ Copies!Cardinality(S) = n
      BY CopiesLibrary
    <3>2. Copies!Sorted(s) = [k \in 1..Copies!Cardinality(S) |->
                                CHOOSE i \in S : Copies!Cardinality(before(i)) = k - 1]
      BY DEF Copies!Sorted
    <3> HIDE DEF before, n
    <3>3. \A k : (CHOOSE i \in S : Copies!Cardinality(before(i)) = k - 1)
                  = (CHOOSE i \in S : Cardinality(before(i)) = k - 1)
      BY <3>1
    <3>4. Copies!Sorted(s) = [k \in 1..n |-> CHOOSE i \in S : Cardinality(before(i)) = k - 1]
      BY <3>1, <3>2, <3>3
    <3> QED
      BY <3>4 DEF before
  <2>2. ASSUME NEW k \in 1..n
        PROVE  (CHOOSE i \in S : Cardinality({j \in S : Copies!Before(s, j, i)}) = k - 1) = pick(k)
    <3>1. \A i \in S : Cardinality({j \in S : Copies!Before(s, j, i)}) = Cardinality(Preceding(S, R, i))
      BY <1>1
    <3> QED
      BY <3>1
  <2> QED
    BY <2>1, <2>2
<1>4. \A k \in 1..n : pick(k) \in S /\ Cardinality(Preceding(S, R, pick(k))) = k - 1
  BY <1>2
<1> HIDE DEF S, R
<1> HIDE DEF n, pick
<1>5. Copies!Sorted(s) \in Seq(S)
  BY <1>2, <1>3, <1>4
<1>6. ASSUME NEW i \in S PROVE \E k \in 1..n : pick(k) = i
  <2> DEFINE r == Cardinality(Preceding(S, R, i))
  <2>1. r \in 0..(n - 1)
    BY <1>2
  <2> HIDE DEF r
  <2>2. r + 1 \in 1..n /\ (r + 1) - 1 = r
    BY <1>2, <2>1
  <2>3. pick(r + 1) \in S /\ Cardinality(Preceding(S, R, pick(r + 1))) = Cardinality(Preceding(S, R, i))
    BY <1>4, <2>2 DEF r
  <2> QED
    BY <1>2, <2>2, <2>3
<1>7. Copies!Range(Copies!Sorted(s)) = S
  <2>1. Copies!Range(Copies!Sorted(s)) = {pick(k) : k \in 1..n}
    BY <1>3 DEF Copies!Range
  <2> QED
    BY <1>4, <1>6, <2>1
<1>8. \A j, k \in 1..n : pick(j) = pick(k) => j = k
  <2> TAKE j, k \in 1..n
  <2> HAVE pick(j) = pick(k)
  <2>1. j - 1 = k - 1
    BY <1>4
  <2> QED
    BY <1>2, <2>1
<1>9. /\ DOMAIN Copies!Sorted(s) = 1..n
      /\ \A j, k \in 1..n : Copies!Sorted(s)[j] = Copies!Sorted(s)[k] => j = k
  BY <1>3, <1>8
<1> QED
  BY <1>5, <1>7, <1>9 DEF S, n

LEMMA PlaceIsInt ==
  ASSUME NEW seq, DOMAIN seq \subseteq Int, NEW x
  PROVE  Copies!Place(seq, x) \in Int
<1>1. ASSUME x \in Copies!Range(seq) PROVE (CHOOSE k \in DOMAIN seq : seq[k] = x) \in DOMAIN seq
  BY <1>1 DEF Copies!Range
<1> QED
  BY <1>1 DEF Copies!Place, Copies!None

LEMMA FitsLater ==
  ASSUME NEW s, NEW free \in Nat, NEW later \in Nat, free <= later, Fits(s, free)
  PROVE  Fits(s, later)
<1>1. 1..(free - 1) \subseteq 1..(later - 1)
  OBVIOUS
<1> QED
  BY <1>1, FitsIs

LEMMA CardFields ==
  ASSUME NEW c, Copies!IsCard(c)
  PROVE  /\ c.ord \in Int /\ c.set \in Nat /\ c.fields \in Seq(Copies!Refs)
         /\ \A ord \in Int :
                     /\ Copies!IsCard([c EXCEPT !.ord = ord])
                     /\ [c EXCEPT !.ord = ord].set = c.set
                     /\ OwnSort(c) => OwnSort([c EXCEPT !.ord = ord])
BY DEF Copies!IsCard, OwnSort

(* Cards that go or change keep their rule set or leave it.                *)
LEMMA EditedFits ==
  ASSUME NEW s, NEW free, Fits(s, free), NEW cards, NEW shapes, NEW t,
         t = [inst |-> cards, sets |-> s.sets, shapes |-> shapes],
         DOMAIN cards \subseteq DOMAIN s.inst,
         \A i \in DOMAIN cards : /\ Copies!IsCard(cards[i]) /\ OwnSort(cards[i])
                                /\ cards[i].set = s.inst[i].set,
         Copies!Range(shapes) \subseteq DOMAIN cards \cup {0}
  PROVE  Fits(t, free)
BY FitsIs

(* A new card has a new rule set, or none.                                 *)
LEMMA AddedFits ==
  ASSUME NEW s, NEW free \in Nat \ {0}, Fits(s, free), NEW later \in Nat, free < later,
         NEW id \in free..(later - 1), NEW c, Copies!IsCard(c), OwnSort(c), NEW sets, NEW t,
         t = [inst |-> Copies!Put(s.inst, id, c), sets |-> sets, shapes |-> s.shapes],
         DOMAIN s.sets \subseteq DOMAIN sets, DOMAIN sets \subseteq 1..(later - 1),
         c.set = 0 \/ (c.set \in DOMAIN sets /\ c.set >= free)
  PROVE  Fits(t, later)
<1>1. /\ DOMAIN s.inst \cup DOMAIN s.sets \subseteq 1..(free - 1)
      /\ \A i \in DOMAIN s.inst : i # id
  BY FitsIs
<1>2. /\ DOMAIN Copies!Put(s.inst, id, c) = DOMAIN s.inst \cup {id}
      /\ Copies!Put(s.inst, id, c)[id] = c
      /\ \A i \in DOMAIN s.inst : Copies!Put(s.inst, id, c)[i] = s.inst[i]
  BY <1>1 DEF Copies!Put
<1>3. \A i \in DOMAIN s.inst : s.inst[i].set # 0 => s.inst[i].set # c.set
  <2> SUFFICES ASSUME NEW i \in DOMAIN s.inst, s.inst[i].set # 0, c.set # 0 PROVE s.inst[i].set # c.set
    OBVIOUS
  <2>1. s.inst[i].set \in 1..(free - 1) /\ c.set \in Nat /\ c.set >= free
    BY FitsIs, CardFields
  <2> QED
    BY <2>1
<1>4. 1..(free - 1) \subseteq 1..(later - 1) /\ id \in 1..(later - 1)
  OBVIOUS
<1>5. t.inst = Copies!Put(s.inst, id, c) /\ t.sets = sets /\ t.shapes = s.shapes
  OBVIOUS
<1>6. \A i \in DOMAIN t.inst : i \in DOMAIN s.inst \/ i = id
  BY <1>2, <1>5
<1>7. \A i \in DOMAIN t.inst :
        /\ Copies!IsCard(t.inst[i]) /\ OwnSort(t.inst[i])
        /\ t.inst[i].set \in DOMAIN t.sets \cup {0}
  BY <1>2, <1>5, <1>6, FitsIs
<1>8. \A i, j \in DOMAIN t.inst : i # j /\ t.inst[i].set # 0 => t.inst[i].set # t.inst[j].set
  BY <1>2, <1>3, <1>5, <1>6, FitsIs
<1>9. DOMAIN t.inst \cup DOMAIN t.sets \subseteq 1..(later - 1)
  BY <1>1, <1>2, <1>4, <1>5
<1>10. Copies!Range(t.shapes) \subseteq DOMAIN t.inst \cup {0}
  BY <1>2, <1>5, FitsIs
<1> QED
  BY <1>5, <1>7, <1>8, <1>9, <1>10, FitsIs

(* One card edited in place.                                               *)
LEMMA CardFits ==
  ASSUME NEW s, NEW free, Fits(s, free), NEW i \in DOMAIN s.inst, NEW c,
         Copies!IsCard(c), OwnSort(c), c.set = s.inst[i].set,
         NEW t, t = [s EXCEPT !.inst = [s.inst EXCEPT ![i] = c]]
  PROVE  Fits(t, free)
<1> DEFINE cards == [s.inst EXCEPT ![i] = c]
<1>1. s = [inst |-> s.inst, sets |-> s.sets, shapes |-> s.shapes]
  BY FitsIs
<1>2. t = [inst |-> cards, sets |-> s.sets, shapes |-> s.shapes]
  BY <1>1
<1>3. \A j \in DOMAIN cards : /\ Copies!IsCard(cards[j]) /\ OwnSort(cards[j])
                             /\ cards[j].set = s.inst[j].set
  BY FitsIs
<1>4. DOMAIN cards = DOMAIN s.inst /\ Copies!Range(s.shapes) \subseteq DOMAIN cards \cup {0}
  BY FitsIs
<1> HIDE DEF cards
<1> QED
  BY <1>2, <1>3, <1>4, EditedFits

(* The parts of the invariant that are not about the session's rows.       *)
LEMMA Turned ==
  ASSUME CopiesInv, UNCHANGED <<copier, file>>, held' = held \/ held' = Copies!NoRequest,
         offer' \in {offer, Copies!Nothing} \/ offer'.count \in Nat,
         next' \in Nat \ {0}, Fits(here', next')
  PROVE  CopiesInv'
BY DEF CopiesInv, Fits, Copies!TypeOK, Copies!CardsOwnWhatTheyName, Copies!NoRequest

LEMMA EditTurns ==
  ASSUME NEW s, Copies!Edit, Copies!Becomes(s)
  PROVE  here' = s /\ UNCHANGED <<copier, file, offer>>
BY DEF Copies!Edit, Copies!Becomes, Copies!Turns

PlaceAfter(after) ==
    LET order == Copies!Sorted(here)
    IN  IF after # Copies!None THEN here.inst[after].ord + 1
        ELSE IF order = << >> THEN 0 ELSE here.inst[Copies!Last(order)].ord + 1

LEMMA PlaceAfterIsInt ==
  ASSUME CopiesInv, NEW after \in Copies!Cards \cup {Copies!None}
  PROVE  PlaceAfter(after) \in Int
<1> DEFINE order == Copies!Sorted(here)
<1>1. Fits(here, next) /\ next \in Nat \ {0}
  BY InvFits
<1>2. order \in Seq(DOMAIN here.inst)
  BY <1>1, SortedCards
<1>3. \A i \in DOMAIN here.inst : here.inst[i].ord \in Int
  BY <1>1, FitsIs, CardFields
<1>4. ASSUME order # << >> PROVE Copies!Last(order) \in DOMAIN here.inst
  <2> HIDE DEF order
  <2>1. Len(order) \in 1..Len(order)
    BY <1>2, <1>4
  <2> QED
    BY <1>2, <2>1 DEF Copies!Last
<1> HIDE DEF order
<1> QED
  BY <1>3, <1>4 DEF PlaceAfter, Copies!Cards, order

LEMMA CreateKeeps ==
  ASSUME CopiesInv, NEW after \in Copies!Cards \cup {Copies!None}, Copies!Create(after)
  PROVE  CopiesInv'
<1>0. PlaceAfter(after) \in Int
  BY PlaceAfterIsInt
<1>1. PICK ord \in Int : \E name :
        LET bumped == [i \in DOMAIN here.inst |->
                          IF here.inst[i].ord >= ord THEN [here.inst[i] EXCEPT !.ord = @ + 1]
                          ELSE here.inst[i]]
            card == [ord |-> ord, name |-> name, label |-> Copies!NoLabel, brk |-> FALSE,
                     set |-> Copies!None, sort |-> Copies!NoSort,
                     fields |-> [k \in Copies!Seeded |-> [of |-> next, nth |-> k]]]
        IN  Copies!Becomes([here EXCEPT !.inst = Copies!Put(bumped, next, card)])
  BY <1>0 DEF Copies!Create, PlaceAfter
<1>9. PICK name :
        LET bumped == [i \in DOMAIN here.inst |->
                          IF here.inst[i].ord >= ord THEN [here.inst[i] EXCEPT !.ord = @ + 1]
                          ELSE here.inst[i]]
            card == [ord |-> ord, name |-> name, label |-> Copies!NoLabel, brk |-> FALSE,
                     set |-> Copies!None, sort |-> Copies!NoSort,
                     fields |-> [k \in Copies!Seeded |-> [of |-> next, nth |-> k]]]
        IN  Copies!Becomes([here EXCEPT !.inst = Copies!Put(bumped, next, card)])
  BY <1>1
<1> DEFINE bumped == [i \in DOMAIN here.inst |->
                         IF here.inst[i].ord >= ord THEN [here.inst[i] EXCEPT !.ord = @ + 1]
                         ELSE here.inst[i]]
           fields == [k \in Copies!Seeded |-> [of |-> next, nth |-> k]]
           card == [ord |-> ord, name |-> name, label |-> Copies!NoLabel, brk |-> FALSE,
                    set |-> Copies!None, sort |-> Copies!NoSort, fields |-> fields]
           moved == [inst |-> bumped, sets |-> here.sets, shapes |-> here.shapes]
<1>2. /\ here' = [here EXCEPT !.inst = Copies!Put(bumped, next, card)]
      /\ UNCHANGED <<copier, file, offer, held>> /\ next' = next + 1
  BY <1>9, EditTurns DEF Copies!Create
<1>3. Fits(here, next) /\ next \in Nat \ {0}
  BY InvFits
<1>4. Fits(moved, next)
  <2>1. ASSUME NEW i \in DOMAIN bumped
        PROVE  /\ Copies!IsCard(bumped[i]) /\ OwnSort(bumped[i])
               /\ bumped[i].set = here.inst[i].set
    <3> DEFINE c == here.inst[i]
    <3>1. Copies!IsCard(c) /\ OwnSort(c)
      BY <1>3, FitsIs
    <3>2. bumped[i] = c \/ bumped[i] = [c EXCEPT !.ord = c.ord + 1]
      OBVIOUS
    <3> HIDE DEF c, bumped
    <3>3. c.ord + 1 \in Int
      BY <3>1, CardFields
    <3>4. /\ Copies!IsCard(bumped[i]) /\ OwnSort(bumped[i])
          /\ bumped[i].set = c.set
      BY <3>1, <3>2, <3>3, CardFields
    <3> QED
      BY <3>4 DEF c
  <2>2. DOMAIN bumped = DOMAIN here.inst
    OBVIOUS
  <2>3. Copies!Range(here.shapes) \subseteq DOMAIN bumped \cup {0}
    BY <1>3, FitsIs
  <2> HIDE DEF bumped
  <2> QED
    BY <1>3, <2>1, <2>2, <2>3, EditedFits
<1>5. Copies!IsCard(card) /\ OwnSort(card) /\ card.set = 0
  <2>1. fields \in Seq(Copies!Refs)
    BY <1>3 DEF Copies!Seeded, Copies!Refs
  <2> HIDE DEF fields
  <2> QED
    BY <2>1 DEF Copies!IsCard, OwnSort, Copies!None
<1> HIDE DEF bumped, card
<1>6. here' = [inst |-> Copies!Put(bumped, next, card), sets |-> here.sets, shapes |-> here.shapes]
  BY <1>2, <1>3, FitsIs
<1>7. DOMAIN here.sets \subseteq 1..((next + 1) - 1)
  BY <1>3, FitsIs
<1>8. Fits(here', next + 1)
  <2>1. moved.inst = bumped /\ moved.sets = here.sets /\ moved.shapes = here.shapes
    OBVIOUS
  <2> HIDE DEF moved
  <2> QED
    BY <1>3, <1>4, <1>5, <1>6, <1>7, <2>1, AddedFits
<1> QED
  BY <1>2, <1>3, <1>8, Turned

LEMMA DeleteKeeps ==
  ASSUME CopiesInv, NEW i, Copies!Delete(i)
  PROVE  CopiesInv'
<1> DEFINE rest == Copies!Restrict(here.inst, DOMAIN here.inst \ {i})
           left == [here EXCEPT !.inst = rest]
           cards == [j \in DOMAIN rest |->
                       [rest[j] EXCEPT !.ord = Copies!Place(Copies!Sorted(left), j) - 1]]
           shapes == Copies!Restrict(here.shapes, {n \in DOMAIN here.shapes : here.shapes[n] # i})
<1>1. Fits(here, next) /\ next \in Nat \ {0}
  BY InvFits
<1>2. here' = [inst |-> cards, sets |-> here.sets, shapes |-> shapes]
  <2>1. here = [inst |-> here.inst, sets |-> here.sets, shapes |-> here.shapes]
    BY <1>1, FitsIs
  <2>2. left.inst = rest /\ left = [inst |-> rest, sets |-> here.sets, shapes |-> here.shapes]
    BY <2>1
  <2>3. here' = [left EXCEPT !.inst = cards, !.shapes = shapes]
    BY <2>2, EditTurns DEF Copies!Delete, Copies!Without
  <2> HIDE DEF rest, cards, shapes
  <2> QED
    BY <2>2, <2>3
<1>3. UNCHANGED <<copier, file, offer, held, next>>
  BY EditTurns DEF Copies!Delete
<1>4. DOMAIN cards = DOMAIN here.inst \ {i}
  BY DEF Copies!Restrict
<1>5. \A j \in DOMAIN cards : /\ Copies!IsCard(cards[j]) /\ OwnSort(cards[j])
                             /\ cards[j].set = here.inst[j].set
  <2>1. \A j \in DOMAIN cards : j \in DOMAIN here.inst /\ rest[j] = here.inst[j]
    BY DEF Copies!Restrict
  <2>3. DOMAIN Copies!Sorted(left) \subseteq Int
    BY DEF Copies!Sorted
  <2> TAKE j \in DOMAIN cards
  <2>4. Copies!Place(Copies!Sorted(left), j) - 1 \in Int
    <3>1. Copies!Place(Copies!Sorted(left), j) \in Int
      BY <2>3, PlaceIsInt
    <3> QED
      BY <3>1
  <2>2. Copies!IsCard(rest[j]) /\ OwnSort(rest[j]) /\ rest[j].set = here.inst[j].set
    BY <1>1, <2>1, FitsIs
  <2>5. cards[j] = [rest[j] EXCEPT !.ord = Copies!Place(Copies!Sorted(left), j) - 1]
    OBVIOUS
  <2> HIDE DEF cards, rest
  <2> QED
    BY <2>2, <2>4, <2>5, CardFields
<1>6. Copies!Range(shapes) \subseteq DOMAIN cards \cup {0}
  <2>1. Copies!Range(shapes) \subseteq Copies!Range(here.shapes) \ {i}
    BY DEF Copies!Restrict, Copies!Range
  <2> HIDE DEF cards, shapes
  <2> QED
    BY <1>1, <1>4, <2>1, FitsIs
<1>7. Fits(here', next)
  <2> HIDE DEF cards, shapes
  <2> QED
    BY <1>1, <1>2, <1>4, <1>5, <1>6, EditedFits
<1> QED
  BY <1>1, <1>3, <1>7, Turned

LEMMA CardBreaks ==
  ASSUME NEW c, Copies!IsCard(c), NEW brk
  PROVE  LET d == [c EXCEPT !.brk = brk]
         IN  Copies!IsCard(d) /\ d.set = c.set /\ (OwnSort(c) => OwnSort(d))
BY DEF Copies!IsCard, OwnSort

LEMMA CardMoves ==
  ASSUME NEW c, Copies!IsCard(c), OwnSort(c), NEW ord \in Int, NEW brk
  PROVE  LET d == [c EXCEPT !.ord = ord, !.brk = brk]
         IN  Copies!IsCard(d) /\ OwnSort(d) /\ d.set = c.set
<1> DEFINE moved == [c EXCEPT !.ord = ord]
<1>1. [c EXCEPT !.ord = ord, !.brk = brk] = [moved EXCEPT !.brk = brk]
  OBVIOUS
<1>2. Copies!IsCard(moved) /\ OwnSort(moved) /\ moved.set = c.set
  BY CardFields
<1> HIDE DEF moved
<1> QED
  BY <1>1, <1>2, CardBreaks

LEMMA CardLabelled ==
  ASSUME NEW c, Copies!IsCard(c), OwnSort(c), NEW label
  PROVE  LET d == [c EXCEPT !.label = label]
         IN  Copies!IsCard(d) /\ OwnSort(d) /\ d.set = c.set
BY DEF Copies!IsCard, OwnSort

LEMMA CardSorted ==
  ASSUME NEW c, Copies!IsCard(c), NEW sort, sort \in Copies!Range(c.fields) \cup {Copies!NoSort}
  PROVE  LET d == [c EXCEPT !.sort = sort]
         IN  Copies!IsCard(d) /\ OwnSort(d) /\ d.set = c.set
BY DEF Copies!IsCard, OwnSort

LEMMA ReorderKeeps ==
  ASSUME CopiesInv, NEW order \in Copies!SetToSeqs(Copies!Cards), NEW breaks,
         Copies!Reorder(order, breaks)
  PROVE  CopiesInv'
<1> DEFINE cards == [i \in DOMAIN here.inst |->
                       [here.inst[i] EXCEPT !.ord = Copies!Place(order, i) - 1, !.brk = i \in breaks]]
<1>1. Fits(here, next) /\ next \in Nat \ {0}
  BY InvFits
<1>2. here' = [here EXCEPT !.inst = cards] /\ UNCHANGED <<copier, file, offer, held, next>>
  BY EditTurns DEF Copies!Reorder
<1>3. ASSUME NEW i \in DOMAIN cards
      PROVE  Copies!IsCard(cards[i]) /\ OwnSort(cards[i]) /\ cards[i].set = here.inst[i].set
  <2>1. Copies!IsCard(here.inst[i]) /\ OwnSort(here.inst[i])
    BY <1>1, FitsIs
  <2>2. DOMAIN order \subseteq Int
    BY DEF Copies!SetToSeqs
  <2>3. Copies!Place(order, i) \in Int
    BY <2>2, PlaceIsInt
  <2>4. Copies!Place(order, i) - 1 \in Int
    BY <2>3
  <2> QED
    BY <2>1, <2>4, CardMoves
<1>4. DOMAIN cards = DOMAIN here.inst
  OBVIOUS
<1>5. Fits(here', next)
  <2> HIDE DEF cards
  <2>1. here' = [inst |-> cards, sets |-> here.sets, shapes |-> here.shapes]
    BY <1>1, <1>2, FitsIs
  <2>2. Copies!Range(here.shapes) \subseteq DOMAIN cards \cup {0}
    BY <1>1, <1>4, FitsIs
  <2> QED
    BY <1>1, <1>3, <1>4, <2>1, <2>2, EditedFits
<1> QED
  BY <1>1, <1>2, <1>5, Turned

LEMMA ReversedFields ==
  ASSUME NEW S, NEW seq \in Seq(S)
  PROVE  Copies!Reverse(seq) \in Seq(S) /\ Copies!Range(Copies!Reverse(seq)) = Copies!Range(seq)
<1> DEFINE back == Copies!Reverse(seq)
<1>1. Len(seq) \in Nat /\ DOMAIN seq = 1..Len(seq) /\ \A k \in 1..Len(seq) : seq[k] \in S
  OBVIOUS
<1>2. back = [k \in 1..Len(seq) |-> seq[(Len(seq) - k) + 1]]
  BY DEF Copies!Reverse
<1>3. back \in Seq(S) /\ DOMAIN back = 1..Len(seq)
  BY <1>1, <1>2
<1>4. \A k \in 1..Len(seq) : /\ back[k] = seq[(Len(seq) - k) + 1]
                             /\ (Len(seq) - k) + 1 \in 1..Len(seq)
                             /\ (Len(seq) - ((Len(seq) - k) + 1)) + 1 = k
  BY <1>1, <1>2
<1> HIDE DEF back
<1>5. \A k \in 1..Len(seq) : \E m \in 1..Len(seq) : seq[k] = back[m]
  BY <1>4
<1>6. \A k \in 1..Len(seq) : \E m \in 1..Len(seq) : back[k] = seq[m]
  BY <1>4
<1>7. Copies!Range(back) = Copies!Range(seq)
  <2>1. Copies!Range(back) = {back[k] : k \in 1..Len(seq)}
    BY <1>3 DEF Copies!Range
  <2>2. Copies!Range(seq) = {seq[k] : k \in 1..Len(seq)}
    BY <1>1 DEF Copies!Range
  <2>3. {back[k] : k \in 1..Len(seq)} \subseteq {seq[k] : k \in 1..Len(seq)}
    BY <1>6
  <2>4. {seq[k] : k \in 1..Len(seq)} \subseteq {back[k] : k \in 1..Len(seq)}
    BY <1>5
  <2> QED
    BY <2>1, <2>2, <2>3, <2>4
<1> QED
  BY <1>3, <1>7 DEF back

LEMMA DragFieldsKeeps ==
  ASSUME CopiesInv, NEW i \in Copies!Cards, Copies!DragFields(i)
  PROVE  CopiesInv'
<1> DEFINE c == [here.inst[i] EXCEPT !.fields = Copies!Reverse(@)]
<1>1. Fits(here, next) /\ next \in Nat \ {0} /\ i \in DOMAIN here.inst
  BY InvFits DEF Copies!Cards
<1>2. here' = [here EXCEPT !.inst = [here.inst EXCEPT ![i] = c]]
  BY EditTurns DEF Copies!DragFields
<1>3. UNCHANGED <<copier, file, offer, held, next>>
  BY EditTurns DEF Copies!DragFields
<1>4. Copies!IsCard(here.inst[i]) /\ OwnSort(here.inst[i])
  BY <1>1, FitsIs
<1>5. Copies!IsCard(c) /\ OwnSort(c) /\ c.set = here.inst[i].set
  BY <1>4, ReversedFields DEF Copies!IsCard, OwnSort
<1> HIDE DEF c
<1> QED
  BY <1>1, <1>2, <1>3, <1>5, CardFits, Turned

LEMMA SetSortKeeps ==
  ASSUME CopiesInv, NEW i \in Copies!Cards, NEW f, Copies!SetSort(i, f),
         f \in Copies!Range(here.inst[i].fields) \cup {Copies!NoSort}
  PROVE  CopiesInv'
<1> DEFINE c == [here.inst[i] EXCEPT !.sort = f]
<1>1. Fits(here, next) /\ next \in Nat \ {0} /\ i \in DOMAIN here.inst
  BY InvFits DEF Copies!Cards
<1>2. /\ here' = [here EXCEPT !.inst = [here.inst EXCEPT ![i] = c]]
      /\ UNCHANGED <<copier, file, offer, held, next>>
  BY EditTurns DEF Copies!SetSort
<1>3. Copies!IsCard(c) /\ OwnSort(c) /\ c.set = here.inst[i].set
  <2>1. Copies!IsCard(here.inst[i])
    BY <1>1, FitsIs
  <2> QED
    BY <2>1, CardSorted
<1> HIDE DEF c
<1> QED
  BY <1>1, <1>2, <1>3, CardFits, Turned

LEMMA SetLabelKeeps ==
  ASSUME CopiesInv, NEW i \in Copies!Cards, NEW t, Copies!SetLabel(i, t)
  PROVE  CopiesInv'
<1> DEFINE c == [here.inst[i] EXCEPT !.label = [text |-> t, copies |-> 0]]
<1>1. Fits(here, next) /\ next \in Nat \ {0} /\ i \in DOMAIN here.inst
  BY InvFits DEF Copies!Cards
<1>2. /\ here' = [here EXCEPT !.inst = [here.inst EXCEPT ![i] = c]]
      /\ UNCHANGED <<copier, file, offer, held, next>>
  BY EditTurns DEF Copies!SetLabel
<1>3. Copies!IsCard(c) /\ OwnSort(c) /\ c.set = here.inst[i].set
  <2>1. Copies!IsCard(here.inst[i]) /\ OwnSort(here.inst[i])
    BY <1>1, FitsIs
  <2> QED
    BY <2>1, CardLabelled
<1> HIDE DEF c
<1> QED
  BY <1>1, <1>2, <1>3, CardFits, Turned

LEMMA TurnPageKeeps ==
  ASSUME CopiesInv, NEW i \in Copies!Cards, Copies!TurnPage(i)
  PROVE  CopiesInv'
<1> DEFINE c == [here.inst[i] EXCEPT !.brk = ~here.inst[i].brk]
<1>1. Fits(here, next) /\ next \in Nat \ {0} /\ i \in DOMAIN here.inst
  BY InvFits DEF Copies!Cards
<1>2. /\ here' = [here EXCEPT !.inst = [here.inst EXCEPT ![i] = c]]
      /\ UNCHANGED <<copier, file, offer, held, next>>
  BY EditTurns DEF Copies!TurnPage
<1>3. Copies!IsCard(c) /\ OwnSort(c) /\ c.set = here.inst[i].set
  <2>1. Copies!IsCard(here.inst[i]) /\ OwnSort(here.inst[i])
    BY <1>1, FitsIs
  <2> QED
    BY <2>1, CardBreaks
<1> HIDE DEF c
<1> QED
  BY <1>1, <1>2, <1>3, CardFits, Turned

LEMMA SaveShapeKeeps ==
  ASSUME CopiesInv, NEW i \in Copies!Cards, NEW n, Copies!SaveShape(n, i)
  PROVE  CopiesInv'
<1> DEFINE shapes == Copies!Put(here.shapes, n, i)
<1>1. Fits(here, next) /\ next \in Nat \ {0} /\ i \in DOMAIN here.inst
  BY InvFits DEF Copies!Cards
<1>2. here' = [here EXCEPT !.shapes = shapes] /\ UNCHANGED <<copier, file, offer, held, next>>
  BY EditTurns DEF Copies!SaveShape
<1>3. here' = [inst |-> here.inst, sets |-> here.sets, shapes |-> shapes]
  BY <1>1, <1>2, FitsIs
<1>4. Copies!Range(shapes) \subseteq DOMAIN here.inst \cup {0}
  <2>1. Copies!Range(shapes) \subseteq Copies!Range(here.shapes) \cup {i}
    BY DEF Copies!Put, Copies!Range
  <2> QED
    BY <1>1, <2>1, FitsIs
<1>5. \A j \in DOMAIN here.inst : Copies!IsCard(here.inst[j]) /\ OwnSort(here.inst[j])
  BY <1>1, FitsIs
<1> HIDE DEF shapes
<1>6. Fits(here', next)
  BY <1>1, <1>3, <1>4, <1>5, EditedFits
<1> QED
  BY <1>1, <1>2, <1>6, Turned

LEMMA LoadKeeps ==
  ASSUME CopiesInv, NEW i \in Copies!Cards, NEW op \in {"replicate", "rules"}, Copies!Load(op, i)
  PROVE  CopiesInv'
<1>1. Copies!IsCard(here.inst[i])
  BY InvFits, FitsIs DEF Copies!Cards
<1>2. UNCHANGED <<here, next, copier, file, offer>> /\ held' = [op |-> op, id |-> i, card |-> here.inst[i]]
  BY DEF Copies!Load
<1>3. held'.op = op /\ held'.card = here.inst[i]
  BY <1>2
<1> QED
  BY <1>1, <1>2, <1>3 DEF CopiesInv, Copies!TypeOK, Copies!CardsOwnWhatTheyName

-----------------------------------------------------------------------------
(* Replicate and the rules' Save, on the card as it was read.              *)
LEMMA CopyFits ==
  ASSUME NEW s, NEW free \in Nat \ {0}, Fits(s, free), NEW card, Copies!IsCard(card)
  PROVE  Fits(Copies!CopyOf(s, free, card), free + 2)
<1> DEFINE fields == [k \in DOMAIN card.fields |-> [of |-> free, nth |-> k]]
           sort == IF card.sort \in Copies!Range(card.fields)
                   THEN fields[Copies!Place(card.fields, card.sort)] ELSE Copies!NoSort
           own == card.set \in DOMAIN s.sets
           pin == IF own THEN free + 1 ELSE Copies!None
           copy == [card EXCEPT !.fields = fields, !.sort = sort, !.set = pin]
           rules == [name |-> Copies!RuleSetName(s.sets, free), rules |-> s.sets[card.set].rules]
           sets == IF own THEN Copies!Put(s.sets, free + 1, rules) ELSE s.sets
           t == [inst |-> Copies!Put(s.inst, free, copy), sets |-> sets, shapes |-> s.shapes]
<1>1. s = [inst |-> s.inst, sets |-> s.sets, shapes |-> s.shapes]
  BY FitsIs
<1>2. Copies!CopyOf(s, free, card) = t
  <2> DEFINE carded == [s EXCEPT !.inst = Copies!Put(s.inst, free, copy)]
  <2>1. Copies!CopyOf(s, free, card)
          = IF own THEN [carded EXCEPT !.sets = Copies!Put(carded.sets, free + 1, rules)] ELSE carded
    BY DEF Copies!CopyOf, Copies!With, Copies!WithSet
  <2> HIDE DEF copy, rules, own
  <2>2. carded = [inst |-> Copies!Put(s.inst, free, copy), sets |-> s.sets, shapes |-> s.shapes]
    BY <1>1
  <2> HIDE DEF carded
  <2>3. carded.sets = s.sets
    BY <2>2
  <2> QED
    BY <2>1, <2>2, <2>3
<1>3. fields \in Seq(Copies!Refs)
  <2>1. DOMAIN card.fields = 1..Len(card.fields) /\ Len(card.fields) \in Nat
    BY CardFields
  <2> QED
    BY <2>1 DEF Copies!Refs
<1>4. sort \in Copies!Range(fields) \cup {Copies!NoSort}
  <2>1. ASSUME card.sort \in Copies!Range(card.fields)
        PROVE  Copies!Place(card.fields, card.sort) \in DOMAIN card.fields
    <3>1. \E k \in DOMAIN card.fields : card.fields[k] = card.sort
      BY <2>1 DEF Copies!Range
    <3> QED
      BY <2>1, <3>1 DEF Copies!Place
  <2> QED
    BY <2>1 DEF Copies!Range
<1>5. pin \in Nat
  BY DEF Copies!None
<1> HIDE DEF fields, sort
<1>6. Copies!IsCard(copy) /\ OwnSort(copy) /\ copy.set = pin
  <2> DEFINE d1 == [card EXCEPT !.fields = fields]
             d2 == [d1 EXCEPT !.sort = sort]
             d3 == [d2 EXCEPT !.set = pin]
  <2>1. copy = d3
    OBVIOUS
  <2> HIDE DEF pin, copy
  <2>2. Copies!IsCard(d1) /\ d1.fields = fields
    BY <1>3 DEF Copies!IsCard
  <2> HIDE DEF d1
  <2>3. Copies!IsCard(d2) /\ d2.fields = fields /\ d2.sort = sort
    BY <2>2 DEF Copies!IsCard
  <2> HIDE DEF d2
  <2>4. Copies!IsCard(d3) /\ d3.fields = fields /\ d3.sort = sort /\ d3.set = pin
    BY <1>5, <2>3 DEF Copies!IsCard
  <2> HIDE DEF d3
  <2> QED
    BY <1>4, <2>1, <2>4 DEF OwnSort
<1>7. DOMAIN s.sets \subseteq 1..(free - 1) /\ 1..(free - 1) \subseteq 1..(free + 1)
  BY FitsIs
<1>8. /\ DOMAIN s.sets \subseteq DOMAIN sets /\ DOMAIN sets \subseteq 1..((free + 2) - 1)
      /\ pin = 0 \/ (pin \in DOMAIN sets /\ pin >= free)
  <2>1. DOMAIN sets = IF own THEN DOMAIN s.sets \cup {free + 1} ELSE DOMAIN s.sets
    BY DEF Copies!Put
  <2> HIDE DEF sets
  <2> QED
    BY <1>7, <2>1 DEF Copies!None
<1> HIDE DEF copy, sets, pin
<1>9. Fits(t, free + 2)
  BY <1>6, <1>8, AddedFits
<1> QED
  BY <1>2, <1>9

LEMMA ReplicateKeeps ==
  ASSUME CopiesInv, Copies!Replicate
  PROVE  CopiesInv'
<1> DEFINE i == held.id
           ord == held.card.ord + 1
           rest == [j \in DOMAIN here.inst |->
                       IF j # i /\ here.inst[j].ord >= ord
                       THEN [here.inst[j] EXCEPT !.ord = @ + 1] ELSE here.inst[j]]
           shifted == [here EXCEPT !.inst = rest]
           fields == IF i \in DOMAIN here.inst THEN here.inst[i].fields ELSE << >>
           label == held.card.label
           n == IF label = Copies!NoLabel THEN 0 ELSE label.copies + 1
           card == [held.card EXCEPT
                       !.ord = ord, !.brk = FALSE, !.fields = fields, !.name.copies = @ + 1,
                       !.label.copies = IF label = Copies!NoLabel THEN 0 ELSE @ + 1]
<1>1. Fits(here, next) /\ next \in Nat \ {0} /\ Copies!IsCard(held.card)
  BY InvFits DEF CopiesInv, Copies!TypeOK, Copies!Replicate
<1>2. /\ here' = Copies!CopyOf(shifted, next, card)
      /\ next' = next + 2 /\ held' = Copies!NoRequest /\ UNCHANGED <<copier, file, offer>>
  BY EditTurns DEF Copies!Replicate
<1>3. Fits(shifted, next)
  <2>1. shifted = [inst |-> rest, sets |-> here.sets, shapes |-> here.shapes]
    BY <1>1, FitsIs
  <2>2. \A j \in DOMAIN rest : /\ Copies!IsCard(rest[j]) /\ OwnSort(rest[j])
                               /\ rest[j].set = here.inst[j].set
    BY <1>1, FitsIs, CardFields
  <2>3. DOMAIN rest = DOMAIN here.inst /\ Copies!Range(here.shapes) \subseteq DOMAIN rest \cup {0}
    BY <1>1, FitsIs
  <2> HIDE DEF rest
  <2> QED
    BY <1>1, <2>1, <2>2, <2>3, EditedFits
<1>4. Copies!IsCard(card)
  <2> DEFINE c1 == [held.card EXCEPT !.ord = ord]
             c2 == [c1 EXCEPT !.brk = FALSE]
             c3 == [c2 EXCEPT !.fields = fields]
             c4 == [c3 EXCEPT !.name.copies = @ + 1]
             c5 == [c4 EXCEPT !.label.copies = IF label = Copies!NoLabel THEN 0 ELSE @ + 1]
  <2>1. fields \in Seq(Copies!Refs)
    BY <1>1, FitsIs, CardFields
  <2>2. card = c5
    OBVIOUS
  <2> HIDE DEF fields
  <2>3. Copies!IsCard(c1)
    BY <1>1 DEF Copies!IsCard
  <2> HIDE DEF c1
  <2>4. Copies!IsCard(c2)
    BY <2>3, CardBreaks
  <2> HIDE DEF c2
  <2>5. Copies!IsCard(c3)
    BY <2>1, <2>4 DEF Copies!IsCard
  <2> HIDE DEF c3
  <2>6. Copies!IsCard(c4)
    BY <2>5 DEF Copies!IsCard
  <2> HIDE DEF c4
  <2>7. Copies!IsCard(c5)
    BY <2>6 DEF Copies!IsCard
  <2> QED
    BY <2>2, <2>7
<1> HIDE DEF shifted, card
<1>5. Fits(here', next + 2)
  BY <1>1, <1>2, <1>3, <1>4, CopyFits
<1> QED
  BY <1>1, <1>2, <1>5, Turned

LEMMA SaveRulesKeeps ==
  ASSUME CopiesInv, NEW rules, Copies!SaveRules(rules)
  PROVE  CopiesInv'
<1> DEFINE id == held.id
           pin == held.card.set
           first == [name |-> Copies!RuleSetName(here.sets, id), rules |-> rules]
<1>1. /\ Fits(here, next) /\ next \in Nat \ {0}
      /\ here = [inst |-> here.inst, sets |-> here.sets, shapes |-> here.shapes]
  BY InvFits, FitsIs
<1>2. held' = Copies!NoRequest /\ UNCHANGED <<copier, file, offer>>
  BY DEF Copies!SaveRules, Copies!Edit
<1>3. \/ pin \in DOMAIN here.sets /\ next' = next
         /\ Copies!Becomes([here EXCEPT !.sets[pin].rules = rules])
      \/ id \in DOMAIN here.inst /\ next' = next + 1
         /\ Copies!Becomes(Copies!WithSet([here EXCEPT !.inst[id].set = next], next, first))
      \/ UNCHANGED <<here, next>>
  BY DEF Copies!SaveRules
<1>4. CASE pin \in DOMAIN here.sets /\ next' = next
           /\ Copies!Becomes([here EXCEPT !.sets[pin].rules = rules])
  <2> DEFINE sets == [here.sets EXCEPT ![pin] = [here.sets[pin] EXCEPT !.rules = rules]]
  <2>1. here' = [inst |-> here.inst, sets |-> sets, shapes |-> here.shapes]
    BY <1>1, <1>4 DEF Copies!Becomes, Copies!Turns
  <2>2. DOMAIN sets = DOMAIN here.sets
    OBVIOUS
  <2> HIDE DEF sets
  <2>3. Fits(here', next)
    BY <1>1, <2>1, <2>2, FitsIs
  <2> QED
    BY <1>1, <1>2, <1>4, <2>3, Turned
<1>5. CASE id \in DOMAIN here.inst /\ next' = next + 1
           /\ Copies!Becomes(Copies!WithSet([here EXCEPT !.inst[id].set = next], next, first))
  <2> DEFINE c == [here.inst[id] EXCEPT !.set = next]
             cards == [here.inst EXCEPT ![id] = c]
             sets == Copies!Put(here.sets, next, first)
             pinned == [here EXCEPT !.inst[id].set = next]
  <2>1. pinned = [inst |-> cards, sets |-> here.sets, shapes |-> here.shapes]
    BY <1>1
  <2>2. here' = [pinned EXCEPT !.sets = Copies!Put(@, next, first)]
    BY <1>5 DEF Copies!Becomes, Copies!Turns, Copies!WithSet
  <2> HIDE DEF pinned
  <2>3. here' = [inst |-> cards, sets |-> sets, shapes |-> here.shapes]
    BY <2>1, <2>2
  <2>4. Copies!IsCard(here.inst[id]) /\ OwnSort(here.inst[id])
    BY <1>1, <1>5, FitsIs
  <2>5. Copies!IsCard(c) /\ OwnSort(c) /\ c.set = next
    BY <1>1, <2>4 DEF Copies!IsCard, OwnSort
  <2>6. DOMAIN sets = DOMAIN here.sets \cup {next}
    BY DEF Copies!Put
  <2> HIDE DEF c, sets
  <2>7. /\ DOMAIN cards = DOMAIN here.inst /\ cards[id] = c
        /\ \A j \in DOMAIN here.inst : j # id => cards[j] = here.inst[j]
    BY <1>5
  <2> HIDE DEF cards
  <2>8. /\ DOMAIN here.inst \cup DOMAIN here.sets \subseteq 1..(next - 1)
        /\ 1..(next - 1) \subseteq 1..((next + 1) - 1) /\ next \in 1..((next + 1) - 1)
    BY <1>1, FitsIs
  <2>9. \A j \in DOMAIN here.inst : here.inst[j].set # next
    <3> SUFFICES ASSUME NEW j \in DOMAIN here.inst PROVE here.inst[j].set # next
      OBVIOUS
    <3>1. here.inst[j].set \in 1..(next - 1) \cup {0}
      BY <1>1, <2>8, FitsIs
    <3> QED
      BY <1>1, <3>1
  <2>10. \A j \in DOMAIN cards : /\ Copies!IsCard(cards[j]) /\ OwnSort(cards[j])
                                 /\ cards[j].set \in DOMAIN sets \cup {0}
    BY <1>1, <2>5, <2>6, <2>7, FitsIs
  <2>11. \A j, k \in DOMAIN cards : j # k /\ cards[j].set # 0 => cards[j].set # cards[k].set
    BY <1>1, <2>5, <2>7, <2>9, FitsIs
  <2>12. Copies!Range(here.shapes) \subseteq DOMAIN cards \cup {0}
    BY <1>1, <2>7, FitsIs
  <2>13. DOMAIN cards \cup DOMAIN sets \subseteq 1..((next + 1) - 1)
    BY <2>6, <2>7, <2>8
  <2>14. Fits(here', next + 1)
    BY <2>3, <2>10, <2>11, <2>12, <2>13, FitsIs
  <2> QED
    BY <1>1, <1>2, <1>5, <2>14, Turned
<1>6. CASE UNCHANGED <<here, next>>
  BY <1>1, <1>2, <1>6, Turned
<1> QED
  BY <1>3, <1>4, <1>5, <1>6

LEMMA CardEditKeeps ==
  ASSUME CopiesInv, Copies!CardEdit
  PROVE  CopiesInv'
<1>1. ASSUME NEW i \in Copies!Cards \cup {Copies!None}, Copies!Create(i) PROVE CopiesInv'
  BY <1>1, CreateKeeps
<1>2. ASSUME NEW i \in Copies!Cards,
             \/ Copies!Delete(i) \/ Copies!TurnPage(i) \/ Copies!DragFields(i)
             \/ Copies!Load("replicate", i) \/ Copies!Load("rules", i)
             \/ \E t \in LabelTexts : Copies!SetLabel(i, t)
             \/ \E f \in Copies!Range(here.inst[i].fields) \cup {Copies!NoSort} : Copies!SetSort(i, f)
             \/ \E n \in {"shape"} : Copies!SaveShape(n, i)
      PROVE  CopiesInv'
  BY <1>2, DeleteKeeps, TurnPageKeeps, DragFieldsKeeps, LoadKeeps, SetLabelKeeps, SetSortKeeps,
     SaveShapeKeeps
<1>3. ASSUME NEW order \in Copies!SetToSeqs(Copies!Cards), NEW breaks,
             Copies!Reorder(order, breaks)
      PROVE  CopiesInv'
  BY <1>3, ReorderKeeps
<1> QED
  BY <1>1, <1>2, <1>3 DEF Copies!CardEdit

-----------------------------------------------------------------------------
(* The rows an export and a settings file hold.                            *)
LEMMA SortedIs ==
  ASSUME NEW s, NEW free \in Nat \ {0}, Fits(s, free)
  PROVE  Copies!Sorted(s) \in Seq(Copies!Range(Copies!Sorted(s)))
<1> DEFINE n == Copies!Cardinality(DOMAIN s.inst)
<1>1. DOMAIN s.inst \subseteq 1..(free - 1) /\ IsFiniteSet(1..(free - 1))
  BY FitsIs, FS_Interval
<1>2. n \in Nat
  <2>1. IsFiniteSet(DOMAIN s.inst)
    BY <1>1, FS_Subset
  <2> QED
    BY <2>1, FS_CardinalityType, CopiesLibrary
<1> DEFINE pick(k) == CHOOSE i \in DOMAIN s.inst :
                        Copies!Cardinality({j \in DOMAIN s.inst : Copies!Before(s, j, i)}) = k - 1
<1>3. Copies!Sorted(s) = [k \in 1..n |-> pick(k)]
  BY DEF Copies!Sorted
<1> HIDE DEF n, pick
<1> QED
  BY <1>2, <1>3 DEF Copies!Range

LEMMA SetsAreFinite ==
  ASSUME NEW s, NEW free \in Nat \ {0}, Fits(s, free)
  PROVE  IsFiniteSet(Copies!Range(s.sets))
<1>1. DOMAIN s.sets \subseteq 1..(free - 1) /\ IsFiniteSet(1..(free - 1))
  BY FitsIs, FS_Interval
<1>2. IsFiniteSet(DOMAIN s.sets)
  BY <1>1, FS_Subset
<1>3. [i \in DOMAIN s.sets |-> s.sets[i]] \in Surjection(DOMAIN s.sets, Copies!Range(s.sets))
  BY DEF Surjection, Copies!Range
<1> QED
  BY <1>2, <1>3, FS_Surjection

LEMMA ExportNamesKeeps ==
  ASSUME CopiesInv, Copies!ExportNames
  PROVE  CopiesInv'
<1> DEFINE fields(i) == IF i \in DOMAIN here.inst THEN here.inst[i].fields ELSE << >>
           row(i) == LET c == copier.inst[i] IN
               [name |-> c.name, label |-> c.label, brk |-> c.brk,
                set |-> IF c.set \in DOMAIN here.sets THEN here.sets[c.set].name ELSE Copies!NoName,
                fields |-> Len(fields(i)), sort |-> Copies!Place(fields(i), c.sort)]
           cards == [k \in DOMAIN copier.order |-> row(copier.order[k])]
<1>1. /\ UNCHANGED <<here, next, held, file, offer>>
      /\ copier' = [at |-> "pooled", cards |-> cards]
      /\ copier.order \in Seq(Copies!Range(copier.order))
  BY DEF Copies!ExportNames, Copies!Reads, CopiesInv, Copies!TypeOK
<1>2. Fits(here, next)
  BY InvFits
<1>3. Copies!AreRows(cards)
  <2>1. \A k \in DOMAIN cards : Copies!IsRow(cards[k])
    <3> TAKE k \in DOMAIN cards
    <3>1. Len(fields(copier.order[k])) \in Nat
      BY <1>2, FitsIs, CardFields
    <3> HIDE DEF fields
    <3> QED
      BY <3>1 DEF Copies!IsRow
  <2>2. DOMAIN cards = 1..Len(copier.order) /\ Len(copier.order) \in Nat
    BY <1>1
  <2>3. cards = [k \in 1..Len(copier.order) |-> cards[k]]
    BY <2>2
  <2> HIDE DEF cards
  <2>4. cards \in Seq(Copies!Range(cards))
    BY <2>2, <2>3 DEF Copies!Range
  <2> QED
    BY <2>1, <2>4 DEF Copies!AreRows, Copies!Range
<1> HIDE DEF cards
<1>4. copier'.at = "pooled" /\ copier'.cards = cards
  BY <1>1
<1> QED
  BY <1>1, <1>3, <1>4 DEF CopiesInv, Copies!TypeOK, Copies!CardsOwnWhatTheyName

LEMMA ExportShapesKeeps ==
  ASSUME CopiesInv, Copies!ExportShapes
  PROVE  CopiesInv'
<1>1. PICK shapes : /\ UNCHANGED <<here, next, held>> /\ copier' = Copies!Idle
                    /\ offer' = Copies!Nothing
                    /\ file' = [cards |-> copier.cards, sets |-> copier.sets, of |-> seen,
                                shapes |-> shapes]
                    /\ copier.at = "shaped"
  BY DEF Copies!ExportShapes
<1>2. Copies!IsFile(file')
  BY <1>1 DEF Copies!IsFile, CopiesInv, Copies!TypeOK
<1> QED
  BY <1>1, <1>2 DEF CopiesInv, Copies!TypeOK, Copies!CardsOwnWhatTheyName, Copies!Idle

LEMMA CopierKeeps ==
  ASSUME CopiesInv,
         \/ Copies!Rebuild \/ Copies!Lapse \/ Copies!Begin("export") \/ Copies!Begin("clone")
         \/ Copies!ExportCards \/ Copies!ExportSets
         \/ Copies!CloneSets \/ Copies!CloneCards \/ Copies!CloneShapes
  PROVE  CopiesInv'
<1> USE DEF CopiesInv, Copies!TypeOK, Copies!CardsOwnWhatTheyName
<1>1. Fits(here, next) /\ next \in Nat \ {0}
  BY InvFits
<1>2. CASE Copies!Rebuild \/ Copies!Lapse
  BY <1>2 DEF Copies!Rebuild, Copies!Lapse
<1>3. CASE Copies!Begin("export") \/ Copies!Begin("clone")
  <2>1. /\ UNCHANGED <<here, next, held, file, offer>>
        /\ copier' = [at |-> "export"] \/ copier' = [at |-> "clone"]
    BY <1>3 DEF Copies!Begin
  <2> QED
    BY <2>1
<1>4. CASE Copies!ExportCards
  <2>1. /\ UNCHANGED <<here, next, held, file, offer>>
        /\ copier' = [at |-> "named", order |-> Copies!Sorted(here), inst |-> here.inst]
    BY <1>4 DEF Copies!ExportCards, Copies!Reads
  <2> QED
    BY <1>1, <2>1, SortedIs
<1>5. CASE Copies!ExportSets
  <2>1. /\ UNCHANGED <<here, next, held, file, offer>> /\ copier.at = "pooled"
        /\ copier' = [at |-> "shaped", cards |-> copier.cards, sets |-> Copies!Range(here.sets)]
    BY <1>5 DEF Copies!ExportSets, Copies!Reads
  <2>2. Copies!IsFiniteSet(Copies!Range(here.sets))
    BY <1>1, SetsAreFinite, CopiesLibrary
  <2> QED
    BY <2>1, <2>2
<1>6. CASE Copies!CloneSets
  BY <1>6 DEF Copies!CloneSets, Copies!Reads
<1>7. CASE Copies!CloneCards
  BY <1>7 DEF Copies!CloneCards, Copies!Reads
<1>8. CASE Copies!CloneShapes
  BY <1>8 DEF Copies!CloneShapes, Copies!Idle
<1> QED
  BY <1>2, <1>3, <1>4, <1>5, <1>6, <1>7, <1>8

LEMMA RowsAre ==
  ASSUME NEW cards
  PROVE  Copies!AreRows(cards) <=> /\ Len(cards) \in Nat
                                   /\ cards = [k \in 1..Len(cards) |-> cards[k]]
                                   /\ \A k \in 1..Len(cards) : Copies!IsRow(cards[k])
<1>1. ASSUME Copies!AreRows(cards)
      PROVE  /\ Len(cards) \in Nat /\ cards = [k \in 1..Len(cards) |-> cards[k]]
             /\ \A k \in 1..Len(cards) : Copies!IsRow(cards[k])
  <2>1. cards \in Seq(Copies!Range(cards)) /\ \A r \in Copies!Range(cards) : Copies!IsRow(r)
    BY <1>1 DEF Copies!AreRows
  <2>2. Len(cards) \in Nat /\ DOMAIN cards = 1..Len(cards) /\ cards = [k \in 1..Len(cards) |-> cards[k]]
    BY <2>1
  <2> QED
    BY <2>1, <2>2 DEF Copies!Range
<1>2. ASSUME Len(cards) \in Nat, cards = [k \in 1..Len(cards) |-> cards[k]],
             \A k \in 1..Len(cards) : Copies!IsRow(cards[k])
      PROVE  Copies!AreRows(cards)
  <2>1. DOMAIN cards = 1..Len(cards)
    BY <1>2
  <2>2. cards \in Seq(Copies!Range(cards))
    BY <1>2, <2>1 DEF Copies!Range
  <2> QED
    BY <1>2, <2>1, <2>2 DEF Copies!AreRows, Copies!Range
<1> QED
  BY <1>1, <1>2

LEMMA RemovedRows ==
  ASSUME NEW cards, Copies!AreRows(cards), NEW k \in DOMAIN cards
  PROVE  Copies!AreRows(Copies!RemoveAt(cards, k))
<1> DEFINE left == SubSeq(cards, 1, k - 1)
           right == SubSeq(cards, k + 1, Len(cards))
           rest == left \o right
           S == Copies!Range(cards)
<1>1. cards \in Seq(S) /\ \A r \in S : Copies!IsRow(r)
  BY DEF Copies!AreRows
<1>2. Len(cards) \in Nat /\ k \in 1..Len(cards) /\ \A j \in 1..Len(cards) : cards[j] \in S
  BY <1>1
<1>3. left \in Seq(S) /\ right \in Seq(S)
  <2> HIDE DEF S
  <2> QED
    BY <1>1, <1>2
<1>4. rest \in Seq(S)
  <2> HIDE DEF S, left, right
  <2> QED
    BY <1>3
<1>5. Copies!RemoveAt(cards, k) = rest
  BY DEF Copies!RemoveAt
<1> HIDE DEF rest, S
<1>6. /\ Len(rest) \in Nat /\ rest = [j \in 1..Len(rest) |-> rest[j]]
      /\ \A j \in 1..Len(rest) : Copies!IsRow(rest[j])
  BY <1>1, <1>4
<1> QED
  BY <1>5, <1>6, RowsAre

LEMMA HandEditKeeps ==
  ASSUME CopiesInv, Copies!HandEdit
  PROVE  CopiesInv'
<1>1. PICK f \in Copies!HandEdits(file) : file' = [f EXCEPT !.of = {}]
  BY DEF Copies!HandEdit
<1>2. Copies!IsFile(file)
  BY DEF CopiesInv, Copies!TypeOK, Copies!HandEdit
<1>3. /\ file = [cards |-> file.cards, sets |-> file.sets, of |-> file.of, shapes |-> file.shapes]
      /\ Copies!AreRows(file.cards) /\ IsFiniteSet(file.sets)
  BY <1>2, CopiesLibrary DEF Copies!IsFile
<1>4. \/ \E k \in DOMAIN file.cards : f = [file EXCEPT !.cards = Copies!RemoveAt(file.cards, k)]
      \/ \E j, k \in DOMAIN file.cards : f = [file EXCEPT !.cards[k].set = file.cards[j].set]
      \/ \E m \in file.sets : f = [file EXCEPT !.sets = @ \ {m}]
  BY DEF Copies!HandEdits
<1> DEFINE IsEdit(g) ==
        /\ g = [cards |-> g.cards, sets |-> g.sets, of |-> g.of, shapes |-> g.shapes]
        /\ Copies!AreRows(g.cards) /\ IsFiniteSet(g.sets)
<1>5. IsEdit(f)
  <2>1. ASSUME NEW k \in DOMAIN file.cards, f = [file EXCEPT !.cards = Copies!RemoveAt(file.cards, k)]
        PROVE  IsEdit(f)
    <3>1. Copies!AreRows(Copies!RemoveAt(file.cards, k))
      BY <1>3, RemovedRows
    <3> QED
      BY <1>3, <2>1, <3>1
  <2>2. ASSUME NEW j \in DOMAIN file.cards, NEW k \in DOMAIN file.cards,
               f = [file EXCEPT !.cards[k].set = file.cards[j].set]
        PROVE  IsEdit(f)
    <3> DEFINE row == [file.cards[k] EXCEPT !.set = file.cards[j].set]
               rows2 == [file.cards EXCEPT ![k] = row]
    <3>1. f = [file EXCEPT !.cards = rows2]
      BY <2>2
    <3>2. /\ Len(file.cards) \in Nat /\ file.cards = [i \in 1..Len(file.cards) |-> file.cards[i]]
          /\ \A i \in 1..Len(file.cards) : Copies!IsRow(file.cards[i])
      BY <1>3, RowsAre
    <3>3. Copies!IsRow(row)
      <4>1. Copies!IsRow(file.cards[k])
        BY <3>2
      <4> QED
        BY <4>1 DEF Copies!IsRow
    <3> HIDE DEF row
    <3>4. Len(rows2) = Len(file.cards) /\ rows2 = [i \in 1..Len(file.cards) |-> rows2[i]]
      BY <3>2
    <3>5. \A i \in 1..Len(rows2) : Copies!IsRow(rows2[i])
      BY <3>2, <3>3, <3>4
    <3> HIDE DEF rows2
    <3>6. Copies!AreRows(rows2)
      BY <3>2, <3>4, <3>5, RowsAre
    <3> QED
      BY <1>3, <3>1, <3>6
  <2>3. ASSUME NEW m \in file.sets, f = [file EXCEPT !.sets = @ \ {m}]
        PROVE  IsEdit(f)
    <3>1. IsFiniteSet(file.sets \ {m})
      BY <1>3, FS_RemoveElement
    <3> QED
      BY <1>3, <2>3, <3>1
  <2> QED
    BY <1>4, <2>1, <2>2, <2>3
<1>6. Copies!IsFile(file')
  BY <1>1, <1>5, CopiesLibrary DEF Copies!IsFile
<1> QED
  BY <1>6 DEF CopiesInv, Copies!TypeOK, Copies!CardsOwnWhatTheyName, Copies!HandEdit

-----------------------------------------------------------------------------
(* A settings file applied: new ids for every card, the rule sets the file *)
(* names found by name, and a set of its own for a card that comes second. *)
LEMMA SetInOrder ==
  ASSUME NEW S, IsFiniteSet(S)
  PROVE  LET seq == Copies!SetToSeq(S)
         IN  /\ Cardinality(S) \in Nat /\ DOMAIN seq = 1..Cardinality(S)
             /\ \A x \in S : \E k \in 1..Cardinality(S) : seq[k] = x
             /\ \A k \in 1..Cardinality(S) : seq[k] \in S
             /\ \A j, k \in 1..Cardinality(S) : seq[j] = seq[k] => j = k
<1> DEFINE n == Cardinality(S)
<1>1. n \in Nat /\ ExistsBijection(1..n, S)
  BY FS_CardinalityType
<1>2. \E f \in [1..n -> S] : IsInjective(f)
  <2>1. PICK f \in [1..n -> S] : \A a, b \in 1..n : f[a] = f[b] => a = b
    BY <1>1 DEF ExistsBijection, Bijection, Injection, IsInjective
  <2> QED
    BY <2>1 DEF IsInjective
<1>3. SetToSeq(S) \in [1..n -> S] /\ IsInjective(SetToSeq(S))
  BY <1>2 DEF SetToSeq
<1>4. SetToSeq(S) \in Injection(1..n, S)
  BY <1>3 DEF Injection, IsInjective
<1>7. /\ \A k \in 1..n : SetToSeq(S)[k] \in S
      /\ \A j, k \in 1..n : SetToSeq(S)[j] = SetToSeq(S)[k] => j = k
  BY <1>3 DEF IsInjective
<1>5. IsFiniteSet(1..n) /\ Cardinality(1..n) = n
  BY <1>1, FS_Interval
<1>6. SetToSeq(S) \in Surjection(1..n, S)
  BY <1>4, <1>5, FS_Injection
<1> QED
  BY <1>1, <1>3, <1>6, <1>7, CopiesLibrary DEF Surjection

LEMMA PoolIs ==
  ASSUME NEW s, NEW free \in Nat \ {0}, Fits(s, free), NEW f, Copies!IsFile(f),
         NEW at \in Nat, free <= at
  PROVE  LET pool == Copies!Upserted(s, f, at)
         IN  /\ Cardinality(f.sets) \in Nat
             /\ DOMAIN pool \subseteq 1..((at + Cardinality(f.sets)) - 1)
             /\ \A m \in f.sets : \E i \in DOMAIN pool : pool[i].name = m.name
<1> DEFINE new == {m \in f.sets : \A o \in Copies!Range(s.sets) : o.name # m.name}
           fresh == Copies!SetToSeq(new)
           kept == {i \in DOMAIN s.sets : \E m \in f.sets : m.name = s.sets[i].name}
           added == {at + k - 1 : k \in DOMAIN fresh}
           pool == Copies!Upserted(s, f, at)
           n == Cardinality(new)
           most == Cardinality(f.sets)
<1>1. IsFiniteSet(f.sets) /\ DOMAIN s.sets \subseteq 1..(free - 1)
  BY FitsIs, CopiesLibrary DEF Copies!IsFile
<1>2. IsFiniteSet(new) /\ most \in Nat /\ n \in Nat /\ n <= most
  BY <1>1, FS_Subset, FS_CardinalityType
<1>3. DOMAIN fresh = 1..n /\ \A m \in new : \E k \in 1..n : fresh[k] = m
  <2> HIDE DEF new
  <2> QED
    BY <1>2, SetInOrder
<1>4. pool = [i \in kept \cup added |->
                 IF i \in kept THEN CHOOSE m \in f.sets : m.name = s.sets[i].name
                 ELSE fresh[i - at + 1]]
  BY DEF Copies!Upserted
<1> HIDE DEF pool
<1>5. kept \subseteq 1..(free - 1)
  BY <1>1
<1>6. DOMAIN pool \subseteq 1..((at + most) - 1)
  <2>1. \A k \in 1..n : at + k - 1 \in 1..((at + most) - 1)
    <3> HIDE DEF n, most
    <3> QED
      BY <1>2
  <2>2. 1..(free - 1) \subseteq 1..((at + most) - 1)
    <3> HIDE DEF n, most
    <3> QED
      BY <1>2
  <2>3. added \subseteq 1..((at + most) - 1)
    <3> HIDE DEF n, most, fresh
    <3> QED
      BY <1>3, <2>1
  <2> HIDE DEF kept, added, most
  <2> QED
    BY <1>4, <1>5, <2>2, <2>3
<1>7. ASSUME NEW m \in f.sets PROVE \E i \in DOMAIN pool : pool[i].name = m.name
  <2>1. CASE m \notin new
    <3>1. PICK i \in DOMAIN s.sets : s.sets[i].name = m.name
      BY <2>1 DEF Copies!Range
    <3>2. i \in kept
      BY <3>1
    <3>3. (CHOOSE o \in f.sets : o.name = s.sets[i].name).name = s.sets[i].name
      BY <3>1
    <3>4. i \in DOMAIN pool /\ pool[i].name = m.name
      <4> HIDE DEF kept, added
      <4> QED
        BY <1>4, <3>1, <3>2, <3>3
    <3> QED
      BY <3>4
  <2>2. CASE m \in new
    <3>1. PICK k \in 1..n : fresh[k] = m
      BY <1>3, <2>2
    <3>2. (at + k - 1) - at + 1 = k /\ at + k - 1 >= free
      <4> HIDE DEF n
      <4> QED
        BY <1>2
    <3>3. at + k - 1 \notin kept
      <4> HIDE DEF kept, n
      <4> QED
        BY <1>2, <1>5, <3>2
    <3>4. at + k - 1 \in added
      <4> HIDE DEF n, fresh
      <4> QED
        BY <1>3, <3>1
    <3>5. at + k - 1 \in DOMAIN pool /\ pool[at + k - 1] = fresh[k]
      <4> HIDE DEF kept, added, fresh
      <4> QED
        BY <1>4, <3>2, <3>3, <3>4
    <3> QED
      BY <3>1, <3>5
  <2> QED
    BY <2>1, <2>2
<1> QED
  BY <1>2, <1>6, <1>7 DEF pool

(* The rule set the k-th card of the file is given.                        *)
SetGiven(s, f, at, k) ==
    IF Copies!Taken(f, k) THEN at + Len(f.cards) + Copies!Cardinality(f.sets) + k
    ELSE Copies!IdOf(Copies!Upserted(s, f, at + Len(f.cards)), f.cards[k].set)

LEMMA SetsGiven ==
  ASSUME NEW s, NEW free \in Nat \ {0}, Fits(s, free), NEW f, Copies!IsFile(f), Copies!Acceptable(f)
  PROVE  LET n == Len(f.cards)
             most == Copies!Cardinality(f.sets)
             pool == Copies!Upserted(s, f, free + n)
         IN  /\ n \in Nat /\ most \in Nat /\ DOMAIN f.cards = 1..n
             /\ DOMAIN pool \subseteq 1..((free + n + most) - 1)
             /\ \A k \in 1..n :
                   /\ Copies!Taken(f, k) => SetGiven(s, f, free, k) = free + n + most + k
                   /\ ~Copies!Taken(f, k) => SetGiven(s, f, free, k) \in DOMAIN pool \cup {0}
             /\ \A j, k \in 1..n : j # k /\ SetGiven(s, f, free, j) # 0
                                   => SetGiven(s, f, free, j) # SetGiven(s, f, free, k)
<1> DEFINE n == Len(f.cards)
           most == Copies!Cardinality(f.sets)
           pool == Copies!Upserted(s, f, free + n)
           given(k) == SetGiven(s, f, free, k)
           name(k) == f.cards[k].set
<1>1. n \in Nat /\ DOMAIN f.cards = 1..n /\ \A k \in 1..n : f.cards[k] \in Copies!Range(f.cards)
  <2>1. n \in Nat /\ f.cards = [k \in 1..n |-> f.cards[k]]
    BY RowsAre DEF Copies!IsFile
  <2> HIDE DEF n
  <2> QED
    BY <2>1 DEF Copies!Range
<1>2. /\ most \in Nat /\ DOMAIN pool \subseteq 1..((free + n + most) - 1)
      /\ \A m \in f.sets : \E i \in DOMAIN pool : pool[i].name = m.name
  <2>1. free + n \in Nat /\ free <= free + n
    BY <1>1
  <2>2. most = Cardinality(f.sets)
    BY CopiesLibrary
  <2> HIDE DEF n, most
  <2> QED
    BY <2>1, <2>2, PoolIs
<1> HIDE DEF n, most, pool
<1>3. ASSUME NEW k \in 1..n, ~Copies!Taken(f, k), name(k) # Copies!NoName
      PROVE  given(k) \in DOMAIN pool /\ pool[given(k)].name = name(k)
  <2>1. \E i \in DOMAIN pool : pool[i].name = name(k)
    BY <1>1, <1>2, <1>3 DEF Copies!Acceptable
  <2>2. given(k) = CHOOSE i \in DOMAIN pool : pool[i].name = name(k)
    BY <1>3 DEF SetGiven, Copies!IdOf, pool, n
  <2> QED
    BY <2>1, <2>2
<1>4. ASSUME NEW k \in 1..n, ~Copies!Taken(f, k), name(k) = Copies!NoName
      PROVE  given(k) = 0
  BY <1>4 DEF SetGiven, Copies!IdOf, Copies!None
<1>5. ASSUME NEW k \in 1..n, Copies!Taken(f, k)
      PROVE  given(k) = free + n + most + k
  BY <1>5 DEF SetGiven, n, most
<1>6. ASSUME NEW j \in 1..n, NEW k \in 1..n, j < k, given(j) # 0, given(j) = given(k)
      PROVE  FALSE
  <2>1. ASSUME NEW a \in 1..n, NEW b \in 1..n, Copies!Taken(f, a), ~Copies!Taken(f, b)
        PROVE  given(a) # given(b)
    <3>1. given(b) \in DOMAIN pool \cup {0}
      BY <1>3, <1>4, <2>1
    <3>2. given(a) = free + n + most + a
      BY <1>5, <2>1
    <3> HIDE DEF given
    <3>3. given(b) \in Int /\ given(b) <= free + n + most
      BY <1>1, <1>2, <3>1
    <3>4. a \in Nat /\ a > 0
      BY <1>1
    <3> QED
      BY <1>1, <1>2, <3>2, <3>3, <3>4
  <2>2. CASE Copies!Taken(f, j) /\ Copies!Taken(f, k)
    <3>1. given(j) = free + n + most + j /\ given(k) = free + n + most + k
      BY <1>5, <2>2
    <3>2. free + n + most + j = free + n + most + k
      BY <1>6, <3>1
    <3>3. j \in Nat /\ k \in Nat
      BY <1>1
    <3> HIDE DEF given
    <3> QED
      BY <1>1, <1>2, <1>6, <3>2, <3>3
  <2>3. CASE ~Copies!Taken(f, j) /\ ~Copies!Taken(f, k)
    <3>1. name(j) # Copies!NoName /\ name(k) # Copies!NoName
      BY <1>4, <1>6, <2>3
    <3>2. name(j) = name(k)
      BY <1>3, <1>6, <2>3, <3>1
    <3>3. j \in 1..(k - 1)
      BY <1>1, <1>6
    <3>4. Copies!Taken(f, k)
      BY <3>1, <3>2, <3>3 DEF Copies!Taken
    <3> QED
      BY <2>3, <3>4
  <2> QED
    BY <1>6, <2>1, <2>2, <2>3
<1>7. ASSUME NEW j \in 1..n, NEW k \in 1..n, j # k, given(j) # 0 PROVE given(j) # given(k)
  <2>1. j < k \/ k < j
    BY <1>1, <1>7
  <2> QED
    BY <1>6, <1>7, <2>1
<1>8. \A k \in 1..n : ~Copies!Taken(f, k) => given(k) \in DOMAIN pool \cup {0}
  BY <1>3, <1>4
<1> HIDE DEF given
<1> QED
  BY <1>1, <1>2, <1>5, <1>7, <1>8 DEF given, n, most, pool

LEMMA ScopeIs ==
  ASSUME NEW f, NEW shape, NEW ids, DOMAIN ids = DOMAIN f.cards
  PROVE  Copies!Scope(f, shape, ids) \in Copies!Range(ids) \cup {0}
<1> DEFINE named == {k \in DOMAIN f.cards : f.cards[k].label = shape.label}
<1>1. ASSUME Copies!Cardinality(named) = 1 PROVE named # {}
  BY <1>1, FS_EmptySet, CopiesLibrary
<1>2. Copies!Cardinality(named) = 1 => (CHOOSE k \in named : TRUE) \in DOMAIN ids
  <2> SUFFICES ASSUME Copies!Cardinality(named) = 1 PROVE (CHOOSE k \in named : TRUE) \in DOMAIN ids
    OBVIOUS
  <2>1. \E k : k \in named
    BY <1>1
  <2> QED
    BY <2>1
<1> QED
  BY <1>2 DEF Copies!Scope, Copies!Range, Copies!None

LEMMA AppliedFits ==
  ASSUME NEW s, NEW free \in Nat \ {0}, Fits(s, free), NEW f, Copies!IsFile(f), Copies!Acceptable(f)
  PROVE  /\ Fits(Copies!Applied(s, f, free), free + Copies!IdsOf(f))
         /\ Copies!IdsOf(f) \in Nat
<1> DEFINE n == Len(f.cards)
           most == Copies!Cardinality(f.sets)
           later == free + Copies!IdsOf(f)
           ids == [k \in 1..n |-> free + k - 1]
           pool == Copies!Upserted(s, f, free + n)
           copied == {k \in 1..n : Copies!Taken(f, k)}
           copyAt == [k \in copied |-> free + n + most + k]
           fields(k) == [j \in 1..f.cards[k].fields |-> [of |-> ids[k], nth |-> j]]
           sort(k) == IF f.cards[k].sort \in DOMAIN fields(k) THEN fields(k)[f.cards[k].sort]
                      ELSE Copies!NoSort
           given(k) == IF k \in copied THEN copyAt[k] ELSE Copies!IdOf(pool, f.cards[k].set)
           card(k) == [ord |-> k - 1, name |-> f.cards[k].name, label |-> f.cards[k].label,
                       brk |-> f.cards[k].brk, set |-> given(k), fields |-> fields(k),
                       sort |-> sort(k)]
           t == Copies!Applied(s, f, free)
<1>1. /\ n \in Nat /\ most \in Nat /\ DOMAIN f.cards = 1..n
      /\ DOMAIN pool \subseteq 1..((free + n + most) - 1)
  BY SetsGiven
<1>2. \A k \in 1..n : given(k) = SetGiven(s, f, free, k)
  BY DEF SetGiven
<1> HIDE DEF given
<1>3. \A k \in 1..n : /\ k \in copied => given(k) = free + n + most + k
                      /\ k \notin copied => given(k) \in DOMAIN pool \cup {0}
  BY <1>2, SetsGiven
<1>4. \A j, k \in 1..n : j # k /\ given(j) # 0 => given(j) # given(k)
  BY <1>2, SetsGiven
<1> USE DEF given
<1>5. later \in Nat /\ later = free + n + n + most + 1 /\ Copies!IdsOf(f) \in Nat
  <2>1. Copies!IdsOf(f) = 2 * n + most + 1
    BY DEF Copies!IdsOf
  <2> HIDE DEF n, most
  <2> QED
    BY <1>1, <2>1
<1>6. PICK sets :
        /\ DOMAIN sets = DOMAIN pool \cup Copies!Range(copyAt)
        /\ t = [inst |-> [i \in Copies!Range(ids) |-> card(i - free + 1)],
                sets |-> sets,
                shapes |-> [m \in DOMAIN f.shapes |-> Copies!Scope(f, f.shapes[m], ids)]]
  <2> DEFINE copies == [i \in Copies!Range(copyAt) |->
                          LET k == CHOOSE j \in copied : copyAt[j] = i
                          IN  [name |-> Copies!RuleSetName(pool, ids[k]),
                               rules |-> pool[Copies!IdOf(pool, f.cards[k].set)].rules]]
             sets == [i \in DOMAIN pool \cup Copies!Range(copyAt) |->
                        IF i \in DOMAIN pool THEN pool[i] ELSE copies[i]]
  <2>1. t = [inst |-> [i \in Copies!Range(ids) |-> card(i - free + 1)],
             sets |-> sets,
             shapes |-> [m \in DOMAIN f.shapes |-> Copies!Scope(f, f.shapes[m], ids)]]
    BY DEF Copies!Applied
  <2> HIDE DEF t, copies, card, ids, copyAt, pool
  <2> QED
    BY <2>1
<1> HIDE DEF n, most, pool, t, given, later
<1>7. /\ t = [inst |-> t.inst, sets |-> t.sets, shapes |-> t.shapes] /\ t.sets = sets
       /\ t.inst = [i \in Copies!Range(ids) |-> card(i - free + 1)]
       /\ t.shapes = [m \in DOMAIN f.shapes |-> Copies!Scope(f, f.shapes[m], ids)]
  <2> HIDE DEF ids, card
  <2> QED
    BY <1>6
<1>8. \A k \in 1..n : /\ ids[k] = free + k - 1 /\ ids[k] \in Nat /\ ids[k] - free + 1 = k
                      /\ ids[k] \in 1..(later - 1)
  BY <1>1, <1>5
<1>9. \A i \in Copies!Range(ids) : /\ i - free + 1 \in 1..n /\ i \in 1..(later - 1)
                                  /\ ids[i - free + 1] = i
  BY <1>8 DEF Copies!Range
<1>10. \A k \in 1..n : given(k) \in DOMAIN t.sets \cup {0}
  <2> TAKE k \in 1..n
  <2>1. k \in copied => given(k) \in Copies!Range(copyAt)
    BY <1>3 DEF Copies!Range
  <2> HIDE DEF copied, copyAt
  <2> QED
    BY <1>3, <1>6, <1>7, <2>1
<1>11. DOMAIN t.sets \subseteq 1..(later - 1)
  <2>1. 1..((free + n + most) - 1) \subseteq 1..(later - 1)
    BY <1>1, <1>5
  <2>2. \A k \in 1..n : free + n + most + k \in 1..(later - 1)
    BY <1>1, <1>5
  <2>3. Copies!Range(copyAt) \subseteq 1..(later - 1)
    BY <2>2 DEF Copies!Range
  <2> HIDE DEF copyAt
  <2> QED
    BY <1>1, <1>6, <1>7, <2>1, <2>3
<1>12. \A k \in 1..n : Copies!IsCard(card(k)) /\ OwnSort(card(k))
  <2> TAKE k \in 1..n
  <2>1. f.cards[k].fields \in Nat
    <3>1. \A j \in 1..n : Copies!IsRow(f.cards[j])
      BY RowsAre DEF Copies!IsFile, n
    <3> QED
      BY <3>1 DEF Copies!IsRow
  <2>2. fields(k) \in Seq(Copies!Refs)
    <3>1. \A j \in 1..f.cards[k].fields : [of |-> ids[k], nth |-> j] \in Copies!Refs
      BY <1>8, <2>1 DEF Copies!Refs
    <3> HIDE DEF ids
    <3> QED
      BY <2>1, <3>1
  <2>3. sort(k) \in Copies!Range(fields(k)) \cup {Copies!NoSort}
    BY DEF Copies!Range
  <2>4. given(k) \in Nat
    <3> HIDE DEF copied
    <3> QED
      BY <1>1, <1>3
  <2> HIDE DEF fields, sort
  <2> QED
    BY <2>2, <2>3, <2>4 DEF Copies!IsCard, OwnSort
<1>13. \A k \in 1..n : card(k).set = given(k)
  OBVIOUS
<1>14. DOMAIN t.inst = Copies!Range(ids) /\ \A i \in Copies!Range(ids) : t.inst[i] = card(i - free + 1)
  <2> HIDE DEF card, ids
  <2> QED
    BY <1>7
<1>15. Copies!Range(t.shapes) \subseteq DOMAIN t.inst \cup {0}
  <2>1. DOMAIN ids = DOMAIN f.cards
    BY <1>1
  <2> HIDE DEF ids
  <2>2. \A m \in DOMAIN f.shapes : Copies!Scope(f, f.shapes[m], ids) \in Copies!Range(ids) \cup {0}
    BY <2>1, ScopeIs
  <2>3. \A m \in DOMAIN t.shapes : t.shapes[m] \in Copies!Range(ids) \cup {0}
    BY <1>7, <2>2
  <2>4. Copies!Range(t.shapes) \subseteq Copies!Range(ids) \cup {0}
    <3>1. \A x \in Copies!Range(t.shapes) : \E m \in DOMAIN t.shapes : x = t.shapes[m]
      BY DEF Copies!Range
    <3> QED
      BY <2>3, <3>1
  <2> QED
    BY <1>14, <2>4
<1>16. \A i, j \in Copies!Range(ids) : i # j => i - free + 1 # j - free + 1
  <2> HIDE DEF ids
  <2> QED
    BY <1>9
<1> HIDE DEF card, ids
<1>17. \A i, j \in DOMAIN t.inst : i # j /\ t.inst[i].set # 0 => t.inst[i].set # t.inst[j].set
  <2> TAKE i, j \in DOMAIN t.inst
  <2>1. /\ t.inst[i].set = given(i - free + 1) /\ t.inst[j].set = given(j - free + 1)
        /\ i - free + 1 \in 1..n /\ j - free + 1 \in 1..n
        /\ i # j => i - free + 1 # j - free + 1
    BY <1>9, <1>13, <1>14, <1>16
  <2> QED
    BY <1>4, <2>1
<1>18. \A i \in DOMAIN t.inst : /\ Copies!IsCard(t.inst[i]) /\ OwnSort(t.inst[i])
                                /\ t.inst[i].set \in DOMAIN t.sets \cup {0}
  BY <1>9, <1>10, <1>12, <1>13, <1>14
<1>19. DOMAIN t.inst \cup DOMAIN t.sets \subseteq 1..(later - 1)
  BY <1>9, <1>11, <1>14
<1>20. Fits(t, later)
  BY <1>7, <1>15, <1>17, <1>18, <1>19, FitsIs
<1> QED
  BY <1>5, <1>20 DEF t, later

LEMMA ImportKeeps ==
  ASSUME CopiesInv, NEW tick, Copies!Import(tick)
  PROVE  CopiesInv'
<1> DEFINE deleted == Copies!DeletedBy(here, file)
<1>1. /\ UNCHANGED <<held, file, copier>> /\ Copies!IsFile(file) /\ Copies!Acceptable(file)
      /\ \/ /\ UNCHANGED <<here, next>>
            /\ offer' = [count |-> Copies!Cardinality(deleted), named |-> deleted]
         \/ /\ here' = Copies!Applied(here, file, next)
            /\ next' = next + Copies!IdsOf(file)
            /\ offer' = Copies!Nothing
  BY DEF CopiesInv, Copies!TypeOK, Copies!Import, Copies!Submitted, Copies!RefuseImport,
         Copies!SaveImport, Copies!Turns
<1>2. Fits(here, next) /\ next \in Nat \ {0}
  BY InvFits
<1>3. /\ Fits(Copies!Applied(here, file, next), next + Copies!IdsOf(file))
      /\ next + Copies!IdsOf(file) \in Nat \ {0}
  BY <1>1, <1>2, AppliedFits
<1>4. Fits(here', next') /\ next' \in Nat \ {0}
  BY <1>1, <1>2, <1>3
<1>5. Copies!Cardinality(deleted) \in Nat
  <2>1. deleted \in SUBSET DOMAIN here.inst
    BY DEF Copies!DeletedBy
  <2>2. DOMAIN here.inst \in SUBSET (1..(next - 1)) /\ IsFiniteSet(1..(next - 1))
    BY <1>2, FitsIs, FS_Interval
  <2> HIDE DEF deleted
  <2>3. IsFiniteSet(deleted)
    BY <2>1, <2>2, FS_Subset
  <2> QED
    BY <2>3, FS_CardinalityType, CopiesLibrary
<1>6. offer' = Copies!Nothing \/ offer'.count \in Nat
  <2> HIDE DEF deleted
  <2> QED
    BY <1>1, <1>5
<1> QED
  BY <1>1, <1>4, <1>6, Turned

-----------------------------------------------------------------------------
LEMMA CopiesInitHolds == Copies!Init => CopiesInv
<1> SUFFICES ASSUME Copies!Init PROVE CopiesInv
  OBVIOUS
<1>1. here \in Sessions /\ next = 10
  BY DEF Copies!Init, Copies!FirstId
<1>2. Fits(here, next)
  BY <1>1, CopiesAssumption DEF Copies!StartsAssumption, Fits, Copies!FirstId
<1> QED
  BY <1>1, <1>2 DEF Fits, CopiesInv, Copies!TypeOK, Copies!CardsOwnWhatTheyName, Copies!Init,
                    Copies!NoRequest, Copies!Idle, Copies!Nothing

LEMMA CopiesStepHolds == CopiesInv /\ [NextCopies]_copyVars => CopiesInv'
<1> SUFFICES ASSUME CopiesInv, [NextCopies]_copyVars PROVE CopiesInv'
  OBVIOUS
<1>1. CASE Copies!CardEdit
  BY <1>1, CardEditKeeps
<1>2. CASE Copies!Replicate
  BY <1>2, ReplicateKeeps
<1>3. ASSUME NEW r \in {"all", "some"}, Copies!SaveRules(r) PROVE CopiesInv'
  BY <1>3, SaveRulesKeeps
<1>4. ASSUME NEW tick \in 0..CardBound, Copies!Import(tick) PROVE CopiesInv'
  BY <1>4, ImportKeeps
<1>5. CASE Copies!HandEdit
  BY <1>5, HandEditKeeps
<1>6. CASE Copies!ExportNames
  BY <1>6, ExportNamesKeeps
<1>7. CASE Copies!ExportShapes
  BY <1>7, ExportShapesKeeps
<1>8. CASE \/ Copies!Rebuild \/ Copies!Lapse \/ Copies!Begin("export") \/ Copies!Begin("clone")
           \/ Copies!ExportCards \/ Copies!ExportSets
           \/ Copies!CloneSets \/ Copies!CloneCards \/ Copies!CloneShapes
  BY <1>8, CopierKeeps
<1>9. CASE UNCHANGED copyVars
  BY <1>9 DEF copyVars, CopiesInv, Copies!TypeOK, Copies!CardsOwnWhatTheyName
<1> QED
  BY <1>1, <1>2, <1>3, <1>4, <1>5, <1>6, <1>7, <1>8, <1>9 DEF NextCopies, InCopies

LEMMA CopiesInTheSum ==
  ASSUME which = "copies", [NextRules \/ NextCopies \/ NextCache]_allVars
  PROVE  which' = "copies" /\ [NextCopies]_copyVars
<1>1. CASE NextRules
  BY <1>1 DEF NextRules, InRules
<1>2. CASE NextCopies
  BY <1>2 DEF NextCopies, InCopies
<1>3. CASE NextCache
  BY <1>3 DEF NextCache, InCache
<1> QED
  BY <1>1, <1>2, <1>3 DEF allVars

(* _clone_rule_set, repoint_sort, _apply_plan and _apply_data_shapes: for  *)
(* any number of cards, rule sets and shapes, after any edits, copies,     *)
(* waits and imports, from any file the import accepts, no two cards pin   *)
(* one rule set, a card is sorted by a field of its own, and a shape's     *)
(* scope is a card of the session.                                         *)
THEOREM CardsShareNothing == SpecSetup => []CardsOwnWhatTheyName
<1> DEFINE Inv == which = "copies" => CopiesInv
<1>1. InitSetup => Inv
  BY CopiesInitHolds DEF InitSetup
<1>2. Inv /\ [NextRules \/ NextCopies \/ NextCache]_allVars => Inv'
  <2> SUFFICES ASSUME Inv, [NextRules \/ NextCopies \/ NextCache]_allVars, which' = "copies"
               PROVE  CopiesInv'
    OBVIOUS
  <2>1. which = "copies"
    BY DEF NextRules, InRules, NextCopies, InCopies, NextCache, InCache, allVars
  <2> QED
    BY <2>1, CopiesInTheSum, CopiesStepHolds
<1>3. Inv => CardsOwnWhatTheyName
  BY DEF CopiesInv, CardsOwnWhatTheyName
<1> QED
  BY <1>1, <1>2, <1>3, PTL DEF SpecSetup
-----------------------------------------------------------------------------
(* A sum over the subsets of a finite set has a table of its values.       *)
SumAt(f, T, lost) == f[T] = IF T = {} THEN 0
                            ELSE LET x == CHOOSE x \in T : TRUE IN lost[x] + f[T \ {x}]

LEMMA OneFewer ==
  ASSUME NEW T, IsFiniteSet(T), T # {}
  PROVE  LET x == CHOOSE x \in T : TRUE
         IN  /\ x \in T /\ IsFiniteSet(T \ {x})
             /\ Cardinality(T \ {x}) \in Nat /\ Cardinality(T) = Cardinality(T \ {x}) + 1
<1> DEFINE x == CHOOSE x \in T : TRUE
<1>1. x \in T
  OBVIOUS
<1> HIDE DEF x
<1>2. /\ IsFiniteSet(T \ {x})
      /\ Cardinality(T \ {x}) = IF x \in T THEN Cardinality(T) - 1 ELSE Cardinality(T)
  BY FS_RemoveElement
<1>3. Cardinality(T) \in Nat /\ Cardinality(T \ {x}) \in Nat
  BY <1>2, FS_CardinalityType
<1> QED
  BY <1>1, <1>2, <1>3 DEF x

LEMMA SumTableExists ==
  ASSUME NEW N, IsFiniteSet(N), NEW lost \in [N -> Nat]
  PROVE  \E f \in [SUBSET N -> Nat] : \A T \in SUBSET N : SumAt(f, T, lost)
<1> DEFINE small(m) == {T \in SUBSET N : Cardinality(T) <= m}
           good(m) == \E f \in [small(m) -> Nat] : \A T \in small(m) : SumAt(f, T, lost)
           all == {m \in Nat : good(m)}
<1>1. \A T \in SUBSET N : IsFiniteSet(T) /\ Cardinality(T) \in Nat
  <2> TAKE T \in SUBSET N
  <2>1. IsFiniteSet(T)
    BY FS_Subset
  <2> QED
    BY <2>1, FS_CardinalityType
<1>2. good(0)
  <2> DEFINE f == [T \in small(0) |-> 0]
  <2>1. \A T \in small(0) : T = {}
    <3> TAKE T \in small(0)
    <3>1. Cardinality(T) = 0 /\ IsFiniteSet(T)
      BY <1>1
    <3> QED
      BY <3>1, FS_EmptySet
  <2>2. f \in [small(0) -> Nat] /\ \A T \in small(0) : f[T] = 0
    OBVIOUS
  <2> HIDE DEF f
  <2>3. \A T \in small(0) : SumAt(f, T, lost)
    BY <2>1, <2>2 DEF SumAt
  <2> QED
    BY <2>2, <2>3
<1>3. ASSUME NEW m \in Nat, good(m) PROVE good(m + 1)
  <2>1. PICK f \in [small(m) -> Nat] : \A T \in small(m) : SumAt(f, T, lost)
    BY <1>3
  <2> DEFINE pick(T) == CHOOSE x \in T : TRUE
             val(T) == IF T \in small(m) THEN f[T] ELSE lost[pick(T)] + f[T \ {pick(T)}]
             g == [T \in small(m + 1) |-> val(T)]
  <2>2. ASSUME NEW T \in small(m + 1), T # {}
        PROVE  pick(T) \in N /\ T \ {pick(T)} \in small(m) /\ T \ {pick(T)} \in small(m + 1)
    <3>1. /\ pick(T) \in T /\ Cardinality(T \ {pick(T)}) \in Nat
          /\ Cardinality(T) = Cardinality(T \ {pick(T)}) + 1
      BY <1>1, <2>2, OneFewer
    <3> HIDE DEF pick
    <3> QED
      BY <3>1
  <2>3. \A T \in small(m + 1) : T \notin small(m) => T # {}
    BY FS_EmptySet
  <2> HIDE DEF pick
  <2>4. ASSUME NEW T \in small(m + 1) PROVE g[T] \in Nat
    <3>1. CASE T \in small(m)
      <4> HIDE DEF small
      <4> QED
        BY <2>1, <3>1
    <3>2. CASE T \notin small(m)
      <4>1. pick(T) \in N /\ T \ {pick(T)} \in small(m)
        BY <2>2, <2>3, <3>2
      <4> HIDE DEF small
      <4>2. lost[pick(T)] \in Nat /\ f[T \ {pick(T)}] \in Nat
        BY <2>1, <4>1
      <4> QED
        BY <3>2, <4>2
    <3> QED
      BY <3>1, <3>2
  <2>5. \A T \in small(m) : T \in small(m + 1)
    BY <1>1
  <2> HIDE DEF small
  <2>6. \A T \in small(m) : g[T] = f[T]
    BY <2>5
  <2>7. \A T \in small(m + 1) : T \notin small(m) => g[T] = lost[pick(T)] + f[T \ {pick(T)}]
    OBVIOUS
  <2>8. g \in [small(m + 1) -> Nat]
    BY <2>4
  <2> HIDE DEF g
  <2>9. ASSUME NEW T \in small(m + 1) PROVE SumAt(g, T, lost)
    <3>1. CASE T = {}
      <4>1. T \in small(m)
        BY <2>3, <3>1
      <4> QED
        BY <2>1, <2>6, <3>1, <4>1 DEF SumAt
    <3>2. CASE T # {} /\ T \in small(m)
      <4>1. g[T \ {pick(T)}] = f[T \ {pick(T)}]
        BY <2>2, <2>6, <3>2
      <4>2. f[T] = lost[pick(T)] + f[T \ {pick(T)}]
        BY <2>1, <3>2 DEF SumAt, pick
      <4>3. g[T] = lost[pick(T)] + g[T \ {pick(T)}]
        BY <2>6, <3>2, <4>1, <4>2
      <4> QED
        BY <3>2, <4>3 DEF SumAt, pick
    <3>3. CASE T \notin small(m)
      <4>1. T # {} /\ g[T \ {pick(T)}] = f[T \ {pick(T)}]
        BY <2>2, <2>3, <2>6, <3>3
      <4>2. g[T] = lost[pick(T)] + g[T \ {pick(T)}]
        BY <2>7, <3>3, <4>1
      <4> QED
        BY <4>1, <4>2 DEF SumAt, pick
    <3> QED
      BY <3>1, <3>2, <3>3
  <2> QED
    BY <2>8, <2>9
<1>4. all \subseteq Nat /\ 0 \in all /\ \A m \in Nat : m \in all => m + 1 \in all
  <2> HIDE DEF good
  <2> QED
    BY <1>2, <1>3
<1>5. Cardinality(N) \in all
  <2>1. Nat \subseteq all
    <3> HIDE DEF all
    <3> QED
      BY <1>4, CountingUp
  <2> HIDE DEF all
  <2> QED
    BY <1>1, <2>1
<1>6. small(Cardinality(N)) = SUBSET N
  <2>1. \A T \in SUBSET N : Cardinality(T) <= Cardinality(N)
    BY FS_Subset
  <2> QED
    BY <2>1
<1> HIDE DEF small
<1> QED
  BY <1>5, <1>6

(* A sum of terms each within its own part of a set is within the set.     *)
LEMMA SumWithin ==
  ASSUME NEW N, IsFiniteSet(N), NEW lost \in [N -> Nat], NEW D, IsFiniteSet(D), NEW name,
         \A n \in N : lost[n] <= Cardinality({i \in D : name[i] = n}),
         NEW f, \A T \in SUBSET N : SumAt(f, T, lost)
  PROVE  f[N] \in Nat /\ f[N] <= Cardinality(D)
<1> DEFINE part(T) == {i \in D : name[i] \in T}
           within(m) == \A T \in SUBSET N :
                          Cardinality(T) = m => f[T] \in Nat /\ f[T] <= Cardinality(part(T))
           all == {m \in Nat : within(m)}
<1>1. \A T : part(T) \in SUBSET D /\ IsFiniteSet(part(T)) /\ Cardinality(part(T)) \in Nat
  <2> TAKE T
  <2>1. part(T) \in SUBSET D
    OBVIOUS
  <2> HIDE DEF part
  <2>2. IsFiniteSet(part(T))
    BY <2>1, FS_Subset
  <2> QED
    BY <2>1, <2>2, FS_CardinalityType
<1>2. \A T \in SUBSET N : IsFiniteSet(T) /\ Cardinality(T) \in Nat
  <2> TAKE T \in SUBSET N
  <2>1. IsFiniteSet(T)
    BY FS_Subset
  <2> QED
    BY <2>1, FS_CardinalityType
<1>3. within(0)
  <2> SUFFICES ASSUME NEW T \in SUBSET N, Cardinality(T) = 0
               PROVE  f[T] \in Nat /\ f[T] <= Cardinality(part(T))
    OBVIOUS
  <2>1. T = {}
    BY <1>2, FS_EmptySet
  <2>2. f[T] = 0
    BY <2>1 DEF SumAt
  <2> HIDE DEF part
  <2> QED
    BY <1>1, <2>2
<1>4. ASSUME NEW m \in Nat, within(m) PROVE within(m + 1)
  <2> SUFFICES ASSUME NEW T \in SUBSET N, Cardinality(T) = m + 1
               PROVE  f[T] \in Nat /\ f[T] <= Cardinality(part(T))
    OBVIOUS
  <2> DEFINE x == CHOOSE x \in T : TRUE
             less == T \ {x}
  <2>1. T # {}
    BY FS_EmptySet
  <2>2. /\ x \in T /\ Cardinality(less) \in Nat
        /\ Cardinality(T) = Cardinality(less) + 1
    BY <1>2, <2>1, OneFewer
  <2>3. f[T] = lost[x] + f[less]
    BY <2>1 DEF SumAt
  <2> HIDE DEF x
  <2>4. /\ part({x}) \cup part(less) = part(T) /\ part({x}) \cap part(less) = {}
        /\ less \in SUBSET N /\ x \in N
    BY <2>2
  <2>5. part({x}) = {i \in D : name[i] = x}
    OBVIOUS
  <2>6. f[less] \in Nat /\ f[less] <= Cardinality(part(less))
    <3>1. Cardinality(less) = m
      <4> HIDE DEF less
      <4> QED
        BY <2>2
    <3> HIDE DEF part, less
    <3> QED
      BY <1>4, <2>4, <3>1
  <2>7. lost[x] <= Cardinality(part({x}))
    <3>1. lost[x] <= Cardinality({i \in D : name[i] = x})
      BY <2>4
    <3> HIDE DEF part
    <3> QED
      BY <2>5, <3>1
  <2> HIDE DEF part, less
  <2>8. /\ Cardinality(part({x}) \cup part(less)) = Cardinality(part({x})) + Cardinality(part(less))
                                                    - Cardinality(part({x}) \cap part(less))
    BY <1>1, FS_Union
  <2>9. Cardinality(part({x}) \cap part(less)) = 0
    BY <2>4, FS_EmptySet
  <2>10. Cardinality(part(T)) = Cardinality(part({x})) + Cardinality(part(less))
    <3>1. Cardinality(part(T)) = Cardinality(part({x}) \cup part(less))
      BY <2>4
    <3>2. Cardinality(part({x})) \in Nat /\ Cardinality(part(less)) \in Nat
      BY <1>1
    <3> QED
      BY <2>8, <2>9, <3>1, <3>2
  <2>11. lost[x] \in Nat
    BY <2>4
  <2> QED
    BY <1>1, <2>3, <2>6, <2>7, <2>10, <2>11
<1>5. all \subseteq Nat /\ 0 \in all /\ \A m \in Nat : m \in all => m + 1 \in all
  <2> HIDE DEF within
  <2> QED
    BY <1>3, <1>4
<1>6. Cardinality(N) \in all
  <2>1. Nat \subseteq all
    <3> HIDE DEF all
    <3> QED
      BY <1>5, CountingUp
  <2> HIDE DEF all
  <2> QED
    BY <1>2, <2>1
<1>7. f[N] \in Nat /\ f[N] <= Cardinality(part(N))
  <2> HIDE DEF part
  <2> QED
    BY <1>6
<1>8. Cardinality(part(N)) <= Cardinality(D) /\ Cardinality(D) \in Nat
  <2>1. part(N) \in SUBSET D
    OBVIOUS
  <2> HIDE DEF part
  <2> QED
    BY <2>1, FS_Subset, FS_CardinalityType
<1> HIDE DEF part
<1> QED
  BY <1>1, <1>7, <1>8

-----------------------------------------------------------------------------
(* An import gives the session a card for every row of the file.           *)
LEMMA AppliedNames ==
  ASSUME NEW s, NEW free \in Nat \ {0}, NEW f, Copies!IsFile(f), NEW k \in DOMAIN f.cards
  PROVE  /\ free + k - 1 \in DOMAIN Copies!Applied(s, f, free).inst
         /\ Copies!Applied(s, f, free).inst[free + k - 1].name = f.cards[k].name
<1> DEFINE n == Len(f.cards)
           most == Copies!Cardinality(f.sets)
           ids == [j \in 1..n |-> free + j - 1]
           pool == Copies!Upserted(s, f, free + n)
           copied == {j \in 1..n : Copies!Taken(f, j)}
           copyAt == [j \in copied |-> free + n + most + j]
           copies == [i \in Copies!Range(copyAt) |->
                        LET m == CHOOSE j \in copied : copyAt[j] = i
                        IN  [name |-> Copies!RuleSetName(pool, ids[m]),
                             rules |-> pool[Copies!IdOf(pool, f.cards[m].set)].rules]]
           sets == [i \in DOMAIN pool \cup Copies!Range(copyAt) |->
                      IF i \in DOMAIN pool THEN pool[i] ELSE copies[i]]
           shapes == [m \in DOMAIN f.shapes |-> Copies!Scope(f, f.shapes[m], ids)]
           fields(j) == [m \in 1..f.cards[j].fields |-> [of |-> ids[j], nth |-> m]]
           sort(j) == IF f.cards[j].sort \in DOMAIN fields(j) THEN fields(j)[f.cards[j].sort]
                      ELSE Copies!NoSort
           given(j) == IF j \in copied THEN copyAt[j] ELSE Copies!IdOf(pool, f.cards[j].set)
           card(j) == [ord |-> j - 1, name |-> f.cards[j].name, label |-> f.cards[j].label,
                       brk |-> f.cards[j].brk, set |-> given(j), fields |-> fields(j),
                       sort |-> sort(j)]
           cards == [i \in Copies!Range(ids) |-> card(i - free + 1)]
           t == Copies!Applied(s, f, free)
<1>1. t = [inst |-> cards, sets |-> sets, shapes |-> shapes]
  BY DEF Copies!Applied
<1>2. n \in Nat /\ DOMAIN f.cards = 1..n
  BY DEF Copies!IsFile, Copies!AreRows
<1>3. ids[k] = free + k - 1 /\ free + k - 1 \in Copies!Range(ids) /\ (free + k - 1) - free + 1 = k
  BY <1>2 DEF Copies!Range
<1>4. \A j : card(j).name = f.cards[j].name
  OBVIOUS
<1> HIDE DEF t, sets, shapes, card, ids
<1>5. t.inst = [i \in Copies!Range(ids) |-> card(i - free + 1)]
  BY <1>1
<1>6. /\ free + k - 1 \in DOMAIN t.inst
      /\ t.inst[free + k - 1] = card((free + k - 1) - free + 1)
  BY <1>3, <1>5
<1>7. t.inst[free + k - 1].name = f.cards[k].name
  BY <1>3, <1>4, <1>6
<1> QED
  BY <1>6, <1>7 DEF t

(* The cards of one name that an import drops are among those it counts.   *)
Customised(s) == Copies!Restrict(s.inst, {i \in DOMAIN s.inst : ~Copies!Untouched(s.inst[i])})
Fewer(s, t, n) == Copies!Max({0, Copies!Named(Customised(s), n) - Copies!Named(t.inst, n)})
Doomed(s, f, n) == {i \in Copies!DeletedBy(s, f) : s.inst[i].name = n}
CardsNamed(cards, n) == {i \in DOMAIN cards : cards[i].name = n}

LEMMA CardsAreFinite ==
  ASSUME NEW s, NEW free \in Nat \ {0}, Fits(s, free), NEW S \in SUBSET DOMAIN s.inst
  PROVE  IsFiniteSet(S) /\ Cardinality(S) \in Nat
<1>1. DOMAIN s.inst \in SUBSET (1..(free - 1)) /\ IsFiniteSet(1..(free - 1))
  BY FitsIs, FS_Interval
<1>2. IsFiniteSet(S)
  BY <1>1, FS_Subset
<1> QED
  BY <1>2, FS_CardinalityType

LEMMA PositivePart ==
  ASSUME NEW a \in Nat, NEW b \in Nat, NEW d \in Nat, a <= d + b
  PROVE  Copies!Max({0, a - b}) \in Nat /\ Copies!Max({0, a - b}) <= d
<1>1. \E x \in {0, a - b} : \A y \in {0, a - b} : x >= y
  <2>1. CASE a - b >= 0
    BY <2>1
  <2>2. CASE a - b < 0
    BY <2>2
  <2> QED
    BY <2>1, <2>2
<1>2. /\ Copies!Max({0, a - b}) \in {0, a - b}
      /\ \A y \in {0, a - b} : Copies!Max({0, a - b}) >= y
  BY <1>1 DEF Copies!Max
<1> DEFINE m == Copies!Max({0, a - b})
<1>3. (m = 0 \/ m = a - b) /\ m >= 0
  BY <1>2
<1> HIDE DEF m
<1>4. m \in Nat /\ m <= d
  BY <1>3
<1> QED
  BY <1>4 DEF m

LEMMA NameLosesFew ==
  ASSUME NEW s, NEW free \in Nat \ {0}, Fits(s, free),
         NEW f, Copies!IsFile(f), Copies!Acceptable(f), NEW n
  PROVE  LET t == Copies!Applied(s, f, free)
         IN  Fewer(s, t, n) \in Nat /\ Fewer(s, t, n) <= Cardinality(Doomed(s, f, n))
<1> DEFINE t == Copies!Applied(s, f, free)
           later == free + Copies!IdsOf(f)
           rowsOf == {k \in DOMAIN f.cards : f.cards[k].name = n}
           named == CardsNamed(s.inst, n)
           back == {i \in named : Copies!BroughtBack(s, f, i)}
           holds == CardsNamed(Customised(s), n)
           new == CardsNamed(t.inst, n)
           doomed == Doomed(s, f, n)
<1>1. Fits(t, later) /\ later \in Nat \ {0}
  BY AppliedFits
<1>2. IsFiniteSet(rowsOf) /\ Cardinality(rowsOf) \in Nat
  <2>1. DOMAIN f.cards = 1..Len(f.cards) /\ Len(f.cards) \in Nat
    BY DEF Copies!IsFile, Copies!AreRows
  <2>2. IsFiniteSet(1..Len(f.cards)) /\ rowsOf \in SUBSET (1..Len(f.cards))
    BY <2>1, FS_Interval
  <2> HIDE DEF rowsOf
  <2>3. IsFiniteSet(rowsOf)
    BY <2>2, FS_Subset
  <2> QED
    BY <2>3, FS_CardinalityType
<1>3. IsFiniteSet(back) /\ Cardinality(back) \in Nat /\ Cardinality(back) <= Cardinality(rowsOf)
  <2>1. named \in SUBSET DOMAIN s.inst
    BY DEF CardsNamed
  <2>2. /\ IsFiniteSet(named) /\ IsOrder(named, OrderOf(s))
        /\ \A i \in named : {j \in named : Copies!Before(s, j, i)} = Preceding(named, OrderOf(s), i)
    <3> HIDE DEF named
    <3> QED
      BY <2>1, CardsInOrder
  <2>3. ASSUME NEW i \in back
        PROVE  Cardinality(Preceding(named, OrderOf(s), i)) < Cardinality(rowsOf)
    <3> DEFINE earlier == {j \in DOMAIN s.inst : s.inst[j].name = s.inst[i].name /\ Copies!Before(s, j, i)}
               like == {k \in DOMAIN f.cards : f.cards[k].name = s.inst[i].name}
    <3>1. Copies!Cardinality(earlier) < Copies!Cardinality(like)
      BY DEF Copies!BroughtBack
    <3>2. like = rowsOf /\ earlier = {j \in named : Copies!Before(s, j, i)}
      BY DEF CardsNamed
    <3>3. earlier = Preceding(named, OrderOf(s), i)
      <4>1. i \in named
        OBVIOUS
      <4> HIDE DEF earlier, named
      <4> QED
        BY <2>2, <3>2, <4>1
    <3> HIDE DEF earlier, like, rowsOf, named
    <3>4. Copies!Cardinality(earlier) = Cardinality(earlier) /\ Copies!Cardinality(like) = Cardinality(like)
      BY CopiesLibrary
    <3> QED
      BY <3>1, <3>2, <3>3, <3>4
  <2>4. back \in SUBSET named
    OBVIOUS
  <2> HIDE DEF named, back, rowsOf
  <2> QED
    BY <1>2, <2>2, <2>3, <2>4, FewRankLow
<1>4. Cardinality(rowsOf) <= Cardinality(new) /\ Cardinality(new) \in Nat /\ IsFiniteSet(new)
  <2> DEFINE at == [k \in rowsOf |-> free + k - 1]
  <2>1. \A k \in rowsOf : free + k - 1 \in new /\ k \in Nat
    <3> TAKE k \in rowsOf
    <3>1. k \in DOMAIN f.cards /\ f.cards[k].name = n
      OBVIOUS
    <3>2. free + k - 1 \in DOMAIN t.inst /\ t.inst[free + k - 1].name = n
      BY <3>1, AppliedNames
    <3>3. k \in Nat
      BY <3>1 DEF Copies!IsFile, Copies!AreRows
    <3> QED
      BY <3>2, <3>3 DEF CardsNamed
  <2>2. new \in SUBSET DOMAIN t.inst
    BY DEF CardsNamed
  <2> HIDE DEF new, rowsOf, t, later
  <2>3. IsFiniteSet(new) /\ Cardinality(new) \in Nat
    BY <1>1, <2>2, CardsAreFinite
  <2>4. at \in [rowsOf -> new] /\ \A j, k \in rowsOf : at[j] = at[k] => j = k
    BY <2>1
  <2> HIDE DEF at
  <2>5. at \in Injection(rowsOf, new)
    BY <2>4 DEF Injection, IsInjective
  <2> QED
    BY <1>2, <2>3, <2>5, FS_Injection
<1>5. IsFiniteSet(doomed) /\ Cardinality(doomed) \in Nat
  <2>1. doomed \in SUBSET DOMAIN s.inst
    BY DEF Doomed, Copies!DeletedBy
  <2> HIDE DEF doomed
  <2> QED
    BY <2>1, CardsAreFinite
<1>6. IsFiniteSet(holds) /\ Cardinality(holds) \in Nat /\ Cardinality(holds) <= Cardinality(doomed) + Cardinality(back)
  <2>1. holds \in SUBSET (doomed \cup back)
    BY DEF CardsNamed, Customised, Copies!Restrict, Doomed, Copies!DeletedBy
  <2> HIDE DEF holds, doomed, back
  <2>2. /\ IsFiniteSet(doomed \cup back)
        /\ Cardinality(doomed \cup back) = Cardinality(doomed) + Cardinality(back) - Cardinality(doomed \cap back)
    BY <1>3, <1>5, FS_Union
  <2>3. IsFiniteSet(doomed \cap back) /\ Cardinality(doomed \cap back) \in Nat
    <3>1. doomed \cap back \in SUBSET back
      OBVIOUS
    <3>2. IsFiniteSet(doomed \cap back)
      BY <1>3, <3>1, FS_Subset
    <3> QED
      BY <3>2, FS_CardinalityType
  <2>4. IsFiniteSet(holds) /\ Cardinality(holds) <= Cardinality(doomed \cup back)
    BY <2>1, <2>2, FS_Subset
  <2>5. Cardinality(holds) \in Nat
    BY <2>4, FS_CardinalityType
  <2> QED
    BY <1>3, <1>5, <2>2, <2>3, <2>4, <2>5
<1>7. Copies!Named(Customised(s), n) = Cardinality(holds) /\ Copies!Named(t.inst, n) = Cardinality(new)
  BY CopiesLibrary DEF Copies!Named, CardsNamed
<1> HIDE DEF holds, doomed, back, new, rowsOf, t
<1>8. Cardinality(holds) <= Cardinality(doomed) + Cardinality(new)
  BY <1>2, <1>3, <1>4, <1>5, <1>6
<1>9. Fewer(s, t, n) = Copies!Max({0, Cardinality(holds) - Cardinality(new)})
  BY <1>7 DEF Fewer
<1>10. Fewer(s, t, n) \in Nat /\ Fewer(s, t, n) <= Cardinality(doomed)
  BY <1>4, <1>5, <1>6, <1>8, <1>9, PositivePart
<1> QED
  BY <1>10 DEF doomed, t

LEMMA MissingWithin ==
  ASSUME NEW s, NEW free \in Nat \ {0}, Fits(s, free),
         NEW f, Copies!IsFile(f), Copies!Acceptable(f)
  PROVE  LET missing == Copies!Missing(s, Copies!Applied(s, f, free))
         IN  missing \in Nat /\ missing <= Cardinality(Copies!DeletedBy(s, f))
<1> DEFINE t == Copies!Applied(s, f, free)
           names == {c.name : c \in Copies!Range(s.inst)}
           lost == [n \in names |-> Fewer(s, t, n)]
           doomed == Copies!DeletedBy(s, f)
           name == [i \in DOMAIN s.inst |-> s.inst[i].name]
           good(g) == g = [S \in SUBSET names |->
                              IF S = {} THEN 0
                              ELSE LET x == CHOOSE x \in S : TRUE IN Fewer(s, t, x) + g[S \ {x}]]
           iter == CHOOSE g : good(g)
<1>1. Copies!Missing(s, t) = iter[names]
  BY DEF Copies!Missing, Copies!MapThenSumSet, Copies!MapThenFoldSet, Fewer, Customised
<1>2. IsFiniteSet(names)
  <2>1. IsFiniteSet(DOMAIN s.inst)
    BY CardsAreFinite
  <2>2. name \in Surjection(DOMAIN s.inst, names)
    BY DEF Surjection, Copies!Range
  <2> HIDE DEF name, names
  <2> QED
    BY <2>1, <2>2, FS_Surjection
<1>3. \A n \in names : /\ Fewer(s, t, n) \in Nat
                       /\ Fewer(s, t, n) <= Cardinality(Doomed(s, f, n))
  BY NameLosesFew
<1>4. IsFiniteSet(doomed)
  <2>1. doomed \in SUBSET DOMAIN s.inst
    BY DEF Copies!DeletedBy
  <2> QED
    BY <2>1, CardsAreFinite
<1>5. \A n \in names : {i \in doomed : name[i] = n} = Doomed(s, f, n)
  BY DEF Doomed, Copies!DeletedBy
<1> HIDE DEF t, names, doomed, name
<1>6. lost \in [names -> Nat] /\ \A n \in names : lost[n] = Fewer(s, t, n)
  BY <1>3
<1>7. \A n \in names : lost[n] <= Cardinality({i \in doomed : name[i] = n})
  BY <1>3, <1>5, <1>6
<1> HIDE DEF lost
<1>8. PICK table \in [SUBSET names -> Nat] : \A S \in SUBSET names : SumAt(table, S, lost)
  BY <1>2, <1>6, SumTableExists
<1>9. good(table)
  <2>1. ASSUME NEW S \in SUBSET names
        PROVE  table[S] = IF S = {} THEN 0
                          ELSE LET x == CHOOSE x \in S : TRUE IN Fewer(s, t, x) + table[S \ {x}]
    <3> DEFINE x == CHOOSE x \in S : TRUE
    <3>1. table[S] = IF S = {} THEN 0 ELSE lost[x] + table[S \ {x}]
      BY <1>8 DEF SumAt
    <3>2. S # {} => x \in names
      OBVIOUS
    <3> HIDE DEF x
    <3>3. table[S] = IF S = {} THEN 0 ELSE Fewer(s, t, x) + table[S \ {x}]
      BY <1>6, <3>1, <3>2
    <3> QED
      BY <3>3 DEF x
  <2>2. table = [S \in SUBSET names |-> table[S]]
    OBVIOUS
  <2> QED
    BY <2>1, <2>2
<1>10. good(iter)
  <2> HIDE DEF good
  <2> QED
    BY <1>9
<1>11. \A S \in SUBSET names : SumAt(iter, S, lost)
  <2> HIDE DEF iter
  <2> TAKE S \in SUBSET names
  <2> DEFINE x == CHOOSE x \in S : TRUE
  <2>1. iter[S] = IF S = {} THEN 0 ELSE Fewer(s, t, x) + iter[S \ {x}]
    BY <1>10
  <2>2. S # {} => x \in names
    OBVIOUS
  <2> HIDE DEF x
  <2>3. iter[S] = IF S = {} THEN 0 ELSE lost[x] + iter[S \ {x}]
    BY <1>6, <2>1, <2>2
  <2> QED
    BY <2>3 DEF SumAt, x
<1>12. iter[names] \in Nat /\ iter[names] <= Cardinality(doomed)
  <2> HIDE DEF iter
  <2> QED
    BY <1>2, <1>4, <1>6, <1>7, <1>11, SumWithin
<1> QED
  BY <1>1, <1>12 DEF t, doomed


(* An operator's edit, whatever it is, leaves a card of those there were.  *)
CardStays == Copies!Cards = {} \/ Copies!Cards \cap DOMAIN here'.inst # {}

LEMMA EditLeavesACard ==
  ASSUME CopiesInv, copyEdits' # copyEdits, [NextCopies]_copyVars,
         \A tick \in 0..CardBound : ~Copies!Import(tick)
  PROVE  CardStays
<1>1. here = [inst |-> here.inst, sets |-> here.sets, shapes |-> here.shapes]
  BY InvFits, FitsIs
<1>2. ASSUME DOMAIN here.inst \subseteq DOMAIN here'.inst PROVE CardStays
  BY <1>2 DEF CardStays, Copies!Cards
<1>3. ASSUME NEW i, Copies!Create(i) PROVE CardStays
  <2>1. PICK bumped, card :
          /\ DOMAIN bumped = DOMAIN here.inst
          /\ here' = [here EXCEPT !.inst = Copies!Put(bumped, next, card)]
    BY <1>3, EditTurns DEF Copies!Create
  <2>2. here'.inst = Copies!Put(bumped, next, card)
    BY <1>1, <2>1
  <2> QED
    BY <1>2, <2>1, <2>2 DEF Copies!Put
<1>4. ASSUME NEW i, Copies!Delete(i) PROVE CardStays
  <2>1. Copies!Cardinality(DOMAIN here.inst) > 1 /\ here' = Copies!Without(here, i)
    BY <1>4, EditTurns DEF Copies!Delete
  <2>2. DOMAIN here'.inst = DOMAIN here.inst \ {i}
    <3> DEFINE rest == Copies!Restrict(here.inst, DOMAIN here.inst \ {i})
               left == [here EXCEPT !.inst = rest]
    <3>1. left.inst = rest
      BY <1>1
    <3> DEFINE cards == [j \in DOMAIN left.inst |->
                           [left.inst[j] EXCEPT !.ord = Copies!Place(Copies!Sorted(left), j) - 1]]
               shapes == Copies!Restrict(here.shapes, {n \in DOMAIN here.shapes : here.shapes[n] # i})
    <3>2. here' = [left EXCEPT !.inst = cards, !.shapes = shapes] /\ DOMAIN cards = DOMAIN left.inst
      BY <2>1 DEF Copies!Without
    <3>4. left = [inst |-> rest, sets |-> here.sets, shapes |-> here.shapes]
      BY <1>1
    <3> HIDE DEF cards, shapes, left, rest
    <3>5. left.inst = rest /\ left.sets = here.sets
      BY <3>4
    <3>3. here' = [inst |-> cards, sets |-> here.sets, shapes |-> shapes]
      BY <3>2, <3>4
    <3>6. here'.inst = cards
      BY <3>3
    <3> QED
      BY <3>1, <3>2, <3>6 DEF Copies!Restrict, rest
  <2>3. PICK j \in DOMAIN here.inst : j # i
    <3> SUFFICES ASSUME DOMAIN here.inst \subseteq {i} PROVE FALSE
      OBVIOUS
    <3>1. IsFiniteSet({i}) /\ Cardinality({i}) = 1
      BY FS_Singleton
    <3>2. Cardinality(DOMAIN here.inst) <= 1 /\ Cardinality(DOMAIN here.inst) \in Nat
      BY <3>1, FS_Subset, FS_CardinalityType
    <3> QED
      BY <2>1, <3>2, CopiesLibrary
  <2> QED
    BY <2>2, <2>3 DEF CardStays, Copies!Cards
<1>5. ASSUME NEW i, \/ Copies!TurnPage(i) \/ Copies!DragFields(i)
                    \/ \E text : Copies!SetLabel(i, text)
                    \/ \E f : Copies!SetSort(i, f)
      PROVE  CardStays
  <2>1. \E c : here' = [here EXCEPT !.inst = [here.inst EXCEPT ![i] = c]]
    <3>1. CASE Copies!TurnPage(i)
      <4>1. here' = [here EXCEPT !.inst = [here.inst EXCEPT
                        ![i] = [here.inst[i] EXCEPT !.brk = ~here.inst[i].brk]]]
        BY <3>1, EditTurns DEF Copies!TurnPage
      <4> QED
        BY <4>1
    <3>2. CASE Copies!DragFields(i)
      <4>1. here' = [here EXCEPT !.inst = [here.inst EXCEPT
                        ![i] = [here.inst[i] EXCEPT !.fields = Copies!Reverse(here.inst[i].fields)]]]
        BY <3>2, EditTurns DEF Copies!DragFields
      <4> QED
        BY <4>1
    <3>3. ASSUME NEW text, Copies!SetLabel(i, text)
          PROVE  \E c : here' = [here EXCEPT !.inst = [here.inst EXCEPT ![i] = c]]
      <4>1. here' = [here EXCEPT !.inst = [here.inst EXCEPT
                        ![i] = [here.inst[i] EXCEPT !.label = [text |-> text, copies |-> 0]]]]
        BY <3>3, EditTurns DEF Copies!SetLabel
      <4> QED
        BY <4>1
    <3>4. ASSUME NEW f, Copies!SetSort(i, f)
          PROVE  \E c : here' = [here EXCEPT !.inst = [here.inst EXCEPT ![i] = c]]
      <4>1. here' = [here EXCEPT !.inst = [here.inst EXCEPT ![i] = [here.inst[i] EXCEPT !.sort = f]]]
        BY <3>4, EditTurns DEF Copies!SetSort
      <4> QED
        BY <4>1
    <3> QED
      BY <1>5, <3>1, <3>2, <3>3, <3>4
  <2>2. PICK cards : DOMAIN cards = DOMAIN here.inst /\ here' = [here EXCEPT !.inst = cards]
    BY <2>1
  <2> QED
    BY <1>1, <1>2, <2>2
<1>9. ASSUME NEW i, NEW n, Copies!SaveShape(n, i) PROVE CardStays
  <2>1. here' = [here EXCEPT !.shapes = Copies!Put(here.shapes, n, i)]
    BY <1>9, EditTurns DEF Copies!SaveShape
  <2> QED
    BY <1>1, <1>2, <2>1
<1>6. ASSUME NEW order, NEW breaks, Copies!Reorder(order, breaks) PROVE CardStays
  <2>1. PICK cards : /\ DOMAIN cards = DOMAIN here.inst
                     /\ here' = [here EXCEPT !.inst = cards]
    BY <1>6, EditTurns DEF Copies!Reorder
  <2> QED
    BY <1>1, <1>2, <2>1
<1>7. CASE Copies!Replicate
  <2> DEFINE i == held.id
             ord == held.card.ord + 1
             cards == [j \in DOMAIN here.inst |->
                         IF j # i /\ here.inst[j].ord >= ord
                         THEN [here.inst[j] EXCEPT !.ord = @ + 1] ELSE here.inst[j]]
             fields == IF i \in DOMAIN here.inst THEN here.inst[i].fields ELSE << >>
             label == held.card.label
             card == [held.card EXCEPT
                         !.ord = ord, !.brk = FALSE, !.fields = fields, !.name.copies = @ + 1,
                         !.label.copies = IF label = Copies!NoLabel THEN 0 ELSE @ + 1]
  <2>1. /\ DOMAIN cards = DOMAIN here.inst
        /\ here' = Copies!CopyOf([here EXCEPT !.inst = cards], next, card)
    BY <1>7, EditTurns DEF Copies!Replicate
  <2> HIDE DEF cards, card
  <2> DEFINE shifted == [inst |-> cards, sets |-> here.sets, shapes |-> here.shapes]
  <2>2. [here EXCEPT !.inst = cards] = shifted
    BY <1>1
  <2>3. PICK c, own, sets :
          LET carded == [shifted EXCEPT !.inst = Copies!Put(shifted.inst, next, c)]
          IN  Copies!CopyOf(shifted, next, card)
                = IF own THEN [carded EXCEPT !.sets = sets] ELSE carded
    <3> DEFINE field == [k \in DOMAIN card.fields |-> [of |-> next, nth |-> k]]
               sort == IF card.sort \in Copies!Range(card.fields)
                       THEN field[Copies!Place(card.fields, card.sort)] ELSE Copies!NoSort
               pinned == card.set \in DOMAIN shifted.sets
               copy == [card EXCEPT !.fields = field, !.sort = sort,
                                    !.set = IF pinned THEN next + 1 ELSE Copies!None]
               carded == [shifted EXCEPT !.inst = Copies!Put(shifted.inst, next, copy)]
               first == [name |-> Copies!RuleSetName(shifted.sets, next),
                         rules |-> shifted.sets[card.set].rules]
    <3>1. Copies!CopyOf(shifted, next, card)
            = IF pinned THEN [carded EXCEPT !.sets = Copies!Put(carded.sets, next + 1, first)]
              ELSE carded
      BY DEF Copies!CopyOf, Copies!With, Copies!WithSet
    <3> HIDE DEF copy, first, pinned, shifted
    <3> QED
      BY <3>1
  <2>4. Copies!CopyOf(shifted, next, card).inst = Copies!Put(cards, next, c)
    BY <2>3
  <2> HIDE DEF shifted
  <2> QED
    BY <1>2, <2>1, <2>2, <2>4 DEF Copies!Put
<1>8. ASSUME NEW r, Copies!SaveRules(r) PROVE CardStays
  <2> DEFINE pin == held.card.set
             id == held.id
             first == [name |-> Copies!RuleSetName(here.sets, id), rules |-> r]
  <2>1. \/ Copies!Becomes([here EXCEPT !.sets[pin].rules = r])
        \/ Copies!Becomes(Copies!WithSet([here EXCEPT !.inst[id].set = next], next, first))
        \/ here' = here
    BY <1>8 DEF Copies!SaveRules
  <2>2. CASE Copies!Becomes([here EXCEPT !.sets[pin].rules = r])
    <3>1. here' = [here EXCEPT !.sets = [here.sets EXCEPT ![pin] = [here.sets[pin] EXCEPT !.rules = r]]]
      BY <2>2 DEF Copies!Becomes, Copies!Turns
    <3> QED
      BY <1>1, <1>2, <3>1
  <2>3. CASE Copies!Becomes(Copies!WithSet([here EXCEPT !.inst[id].set = next], next, first))
    <3> DEFINE cards == [here.inst EXCEPT ![id] = [here.inst[id] EXCEPT !.set = next]]
               pinned == [here EXCEPT !.inst[id].set = next]
    <3>1. pinned = [inst |-> cards, sets |-> here.sets, shapes |-> here.shapes]
      BY <1>1
    <3>2. here' = [pinned EXCEPT !.sets = Copies!Put(@, next, first)]
      BY <2>3 DEF Copies!Becomes, Copies!Turns, Copies!WithSet
    <3>3. DOMAIN cards = DOMAIN here.inst
      OBVIOUS
    <3> HIDE DEF pinned, cards, first
    <3>4. here'.inst = cards
      BY <3>1, <3>2
    <3> QED
      BY <1>2, <3>3, <3>4
  <2> QED
    BY <1>2, <2>1, <2>2, <2>3
<1>10. Copies!CardEdit \/ Copies!Replicate \/ \E r : Copies!SaveRules(r)
  <2>1. ~(\/ Copies!Rebuild \/ Copies!Lapse \/ Copies!HandEdit
          \/ \E at : Copies!Begin(at)
          \/ Copies!ExportCards \/ Copies!ExportNames \/ Copies!ExportSets \/ Copies!ExportShapes
          \/ Copies!CloneSets \/ Copies!CloneCards \/ Copies!CloneShapes
          \/ UNCHANGED copyVars)
    BY DEF copyVars, Copies!Rebuild, Copies!Lapse, Copies!HandEdit, Copies!Begin, Copies!Reads,
           Copies!ExportCards, Copies!ExportNames, Copies!ExportSets, Copies!ExportShapes,
           Copies!CloneSets, Copies!CloneCards, Copies!CloneShapes
  <2> QED
    BY <2>1 DEF NextCopies, InCopies
<1>11. ASSUME Copies!CardEdit PROVE CardStays
  <2>1. \A op, i : ~Copies!Load(op, i)
    BY DEF Copies!Load
  <2> QED
    BY <1>3, <1>4, <1>5, <1>6, <1>9, <1>11, <2>1 DEF Copies!CardEdit
<1> QED
  BY <1>7, <1>8, <1>10, <1>11

(* Of the cards that went, no more are missing than were counted.          *)
LEMMA ImportCounts ==
  ASSUME CopiesInv, copyEdits' # copyEdits, NEW tick, Copies!Import(tick)
  PROVE  Copies!Missing(here, here') <= IF offer = Copies!Nothing THEN 0 ELSE offer.count
<1> DEFINE deleted == Copies!DeletedBy(here, file)
<1>1. /\ Copies!IsFile(file) /\ Copies!Acceptable(file)
      /\ tick \in {0} \cup (IF offer = Copies!Nothing THEN {} ELSE {offer.count})
      /\ deleted = {} \/ Copies!Cardinality(deleted) = tick
      /\ here' = Copies!Applied(here, file, next)
  BY DEF CopiesInv, Copies!TypeOK, Copies!Import, Copies!Submitted, Copies!RefuseImport,
         Copies!SaveImport, Copies!Turns
<1>2. Fits(here, next) /\ next \in Nat \ {0}
  BY InvFits
<1>3. Copies!Missing(here, here') \in Nat /\ Copies!Missing(here, here') <= Cardinality(deleted)
  BY <1>1, <1>2, MissingWithin
<1>4. offer # Copies!Nothing => offer.count \in Nat
  BY DEF CopiesInv, Copies!TypeOK
<1> HIDE DEF deleted
<1>5. Cardinality(deleted) = 0 \/ Cardinality(deleted) = tick
  BY <1>1, FS_EmptySet, CopiesLibrary
<1> QED
  BY <1>1, <1>3, <1>4, <1>5

LEMMA NothingMissing ==
  ASSUME NEW s, DOMAIN s.inst = {}, NEW t
  PROVE  Copies!Missing(s, t) = 0
<1> DEFINE names == {c.name : c \in Copies!Range(s.inst)}
           good(g) == g = [S \in SUBSET names |->
                              IF S = {} THEN 0
                              ELSE LET x == CHOOSE x \in S : TRUE IN Fewer(s, t, x) + g[S \ {x}]]
           iter == CHOOSE g : good(g)
           zero == [S \in SUBSET names |-> 0]
<1>1. Copies!Missing(s, t) = iter[names]
  BY DEF Copies!Missing, Copies!MapThenSumSet, Copies!MapThenFoldSet, Fewer, Customised
<1>2. names = {}
  BY DEF Copies!Range
<1>3. good(zero)
  <2>1. \A S \in SUBSET names : S = {}
    BY <1>2
  <2> HIDE DEF names
  <2> QED
    BY <2>1
<1>4. good(iter)
  <2> HIDE DEF good
  <2> QED
    BY <1>3
<1>5. iter[{}] = 0
  <2>1. {} \in SUBSET names
    BY <1>2
  <2> HIDE DEF iter, names
  <2> QED
    BY <1>4, <2>1
<1> QED
  BY <1>1, <1>2, <1>5

LEMMA StepCountsItsLoss ==
  ASSUME CopiesInv, [NextCopies]_copyVars
  PROVE  Copies!LossWasCounted
<1> SUFFICES ASSUME copyEdits' # copyEdits, Copies!Cards \cap DOMAIN here'.inst = {}
             PROVE  Copies!Missing(here, here') <= IF offer = Copies!Nothing THEN 0 ELSE offer.count
  BY DEF Copies!LossWasCounted
<1>1. ASSUME NEW tick \in 0..CardBound, Copies!Import(tick)
      PROVE  Copies!Missing(here, here') <= IF offer = Copies!Nothing THEN 0 ELSE offer.count
  BY <1>1, ImportCounts
<1>2. ASSUME \A tick \in 0..CardBound : ~Copies!Import(tick)
      PROVE  Copies!Missing(here, here') <= IF offer = Copies!Nothing THEN 0 ELSE offer.count
  <2>1. DOMAIN here.inst = {}
    BY <1>2, EditLeavesACard DEF CardStays, Copies!Cards
  <2>2. Copies!Missing(here, here') = 0
    BY <2>1, NothingMissing
  <2>3. offer # Copies!Nothing => offer.count \in Nat
    BY DEF CopiesInv, Copies!TypeOK
  <2> QED
    BY <2>2, <2>3
<1> QED
  BY <1>1, <1>2

(* instruments_deleted_by, the refusal and the tick: for any number of     *)
(* cards, from any file, after any edits since the page was shown, an      *)
(* import leaves the session without no more of the operators' cards, name *)
(* by name, than the count the operator ticked, and none unticked.         *)
THEOREM DropsAreTicked == SpecSetup => LossWasCounted
<1> DEFINE Inv == which = "copies" => CopiesInv
           Counted == which = "copies" => Copies!LossWasCounted
           Step == [NextRules \/ NextCopies \/ NextCache]_allVars
<1>1. InitSetup => Inv
  BY CopiesInitHolds DEF InitSetup
<1>2. Inv /\ Step => Inv'
  <2> SUFFICES ASSUME Inv, Step, which' = "copies" PROVE CopiesInv'
    OBVIOUS
  <2>1. which = "copies"
    BY DEF NextRules, InRules, NextCopies, InCopies, NextCache, InCache, allVars
  <2> QED
    BY <2>1, CopiesInTheSum, CopiesStepHolds
<1>3. Inv /\ Step => Counted
  BY CopiesInTheSum, StepCountsItsLoss
<1> QED
  BY <1>1, <1>2, <1>3, PTL DEF SpecSetup, LossWasCounted

-----------------------------------------------------------------------------
(***************************************************************************)
(* What a copy keeps.  A card is seen as Form shows it; positions in a     *)
(* list are found again.                                                   *)
(***************************************************************************)
Shown(s, i) == Copies!PortableCard(s.inst[i], Copies!RulesOf(s.sets, s.inst[i].set))

LEMMA FormIs ==
  ASSUME NEW s
  PROVE  Copies!Form(s) =
            [cards |-> [k \in DOMAIN Copies!Sorted(s) |-> Shown(s, Copies!Sorted(s)[k])],
             pool |-> Copies!Range(s.sets),
             shapes |-> [n \in DOMAIN s.shapes |-> Copies!Place(Copies!Sorted(s), s.shapes[n])]]
BY DEF Copies!Form, Shown

\* The form is records and functions, whatever the rows are.
FormRecord(form) ==
    /\ form = [cards |-> form.cards, pool |-> form.pool, shapes |-> form.shapes]
    /\ form.cards = [k \in DOMAIN form.cards |-> form.cards[k]]
    /\ form.shapes = [m \in DOMAIN form.shapes |-> form.shapes[m]]
    /\ \A k \in DOMAIN form.cards :
          LET d == form.cards[k]
          IN  d = [name |-> d.name, label |-> d.label, brk |-> d.brk, rules |-> d.rules,
                   fields |-> d.fields, sort |-> d.sort]

LEMMA FormIsForm ==
  ASSUME NEW s
  PROVE  FormRecord(Copies!Form(s))
<1> DEFINE order == Copies!Sorted(s)
           cards == [k \in DOMAIN order |-> Shown(s, order[k])]
           pool == Copies!Range(s.sets)
           shapes == [n \in DOMAIN s.shapes |-> Copies!Place(order, s.shapes[n])]
           form == Copies!Form(s)
<1>1. form = [cards |-> cards, pool |-> pool, shapes |-> shapes]
  BY FormIs
<1>2. /\ cards = [k \in DOMAIN cards |-> cards[k]] /\ shapes = [n \in DOMAIN shapes |-> shapes[n]]
      /\ \A k \in DOMAIN cards : cards[k] = Shown(s, order[k])
  OBVIOUS
<1> HIDE DEF cards, pool, shapes, form, order
<1>3. ASSUME NEW i
      PROVE  Shown(s, i) = [name |-> Shown(s, i).name, label |-> Shown(s, i).label,
                            brk |-> Shown(s, i).brk, rules |-> Shown(s, i).rules,
                            fields |-> Shown(s, i).fields, sort |-> Shown(s, i).sort]
  BY DEF Shown, Copies!PortableCard
<1>4. form.cards = cards /\ form.pool = pool /\ form.shapes = shapes
  BY <1>1
<1>5. form = [cards |-> form.cards, pool |-> form.pool, shapes |-> form.shapes]
  BY <1>1, <1>4
<1>6. \A k \in DOMAIN form.cards :
         LET d == form.cards[k]
         IN  d = [name |-> d.name, label |-> d.label, brk |-> d.brk, rules |-> d.rules,
                  fields |-> d.fields, sort |-> d.sort]
  <2> TAKE k \in DOMAIN form.cards
  <2>1. form.cards[k] = Shown(s, order[k])
    BY <1>2, <1>4
  <2> QED
    BY <1>3, <2>1
<1> QED
  BY <1>2, <1>4, <1>5, <1>6 DEF FormRecord, form

LEMMA PlaceIs ==
  ASSUME NEW seq, NEW x
  PROVE  /\ x \in Copies!Range(seq) => /\ Copies!Place(seq, x) \in DOMAIN seq
                                       /\ seq[Copies!Place(seq, x)] = x
         /\ x \notin Copies!Range(seq) => Copies!Place(seq, x) = 0
<1>1. ASSUME x \in Copies!Range(seq)
      PROVE  /\ (CHOOSE k \in DOMAIN seq : seq[k] = x) \in DOMAIN seq
             /\ seq[CHOOSE k \in DOMAIN seq : seq[k] = x] = x
  BY <1>1 DEF Copies!Range
<1> QED
  BY <1>1 DEF Copies!Place, Copies!None

(* Two things at one position of a list of positive places are the same.   *)
LEMMA PlaceTells ==
  ASSUME NEW seq, DOMAIN seq \subseteq Nat \ {0}, NEW x, NEW y, x \in Copies!Range(seq),
         Copies!Place(seq, x) = Copies!Place(seq, y)
  PROVE  x = y
<1>1. Copies!Place(seq, x) # 0
  BY PlaceIs
<1>2. y \in Copies!Range(seq)
  BY <1>1, PlaceIs
<1> QED
  BY <1>2, PlaceIs

LEMMA CardHasPlace ==
  ASSUME NEW s, NEW free \in Nat \ {0}, Fits(s, free), NEW i \in DOMAIN s.inst
  PROVE  \E k \in DOMAIN Copies!Sorted(s) : Copies!Sorted(s)[k] = i
BY SortedCards DEF Copies!Range

(* A card whose showing changed while the order did not shows.             *)
LEMMA ShowingTells ==
  ASSUME NEW s, NEW t, NEW free \in Nat \ {0}, Fits(s, free), NEW i \in DOMAIN s.inst,
         Copies!Sorted(t) = Copies!Sorted(s), Copies!Form(t) = Copies!Form(s)
  PROVE  Shown(t, i) = Shown(s, i)
<1>1. PICK k \in DOMAIN Copies!Sorted(s) : Copies!Sorted(s)[k] = i
  BY CardHasPlace
<1>2. Copies!Form(s).cards[k] = Shown(s, i) /\ Copies!Form(t).cards[k] = Shown(t, i)
  BY <1>1, FormIs
<1> QED
  BY <1>2

LEMMA ManyTells ==
  ASSUME NEW s, NEW t, NEW free \in Nat \ {0}, NEW later \in Nat \ {0}, Fits(s, free), Fits(t, later),
         Copies!Form(t) = Copies!Form(s)
  PROVE  Cardinality(DOMAIN t.inst) = Cardinality(DOMAIN s.inst)
<1> DEFINE m == Cardinality(DOMAIN s.inst)
           n == Cardinality(DOMAIN t.inst)
<1>1. m \in Nat /\ n \in Nat
  BY CardsAreFinite
<1>2. DOMAIN Copies!Form(s).cards = 1..m /\ DOMAIN Copies!Form(t).cards = 1..n
  BY SortedCards, FormIs
<1>3. 1..m = 1..n
  BY <1>2
<1> HIDE DEF m, n
<1>4. m = n
  <2>1. m <= n
    <3>1. CASE m = 0
      BY <1>1, <3>1
    <3>2. CASE m # 0
      <4>1. m \in 1..m
        BY <1>1, <3>2
      <4> QED
        BY <1>1, <1>3, <4>1
    <3> QED
      BY <3>1, <3>2
  <2>2. n <= m
    <3>1. CASE n = 0
      BY <1>1, <3>1
    <3>2. CASE n # 0
      <4>1. n \in 1..n
        BY <1>1, <3>2
      <4> QED
        BY <1>1, <1>3, <4>1
    <3> QED
      BY <3>1, <3>2
  <2> QED
    BY <1>1, <2>1, <2>2
<1> QED
  BY <1>4 DEF m, n

(* The order of the cards is that of their places and ids.                 *)
LEMMA SameOrder ==
  ASSUME NEW s, NEW t, DOMAIN t.inst = DOMAIN s.inst,
         \A i \in DOMAIN s.inst : t.inst[i].ord = s.inst[i].ord
  PROVE  Copies!Sorted(t) = Copies!Sorted(s)
<1> DEFINE S == DOMAIN s.inst
           before(u, i) == {j \in S : Copies!Before(u, j, i)}
<1>1. \A i \in S : before(t, i) = before(s, i)
  BY DEF Copies!Before
<1>2. /\ Copies!Sorted(s) = [k \in 1..Copies!Cardinality(S) |->
                               CHOOSE i \in S : Copies!Cardinality(before(s, i)) = k - 1]
      /\ Copies!Sorted(t) = [k \in 1..Copies!Cardinality(S) |->
                               CHOOSE i \in S : Copies!Cardinality(before(t, i)) = k - 1]
  BY DEF Copies!Sorted
<1> HIDE DEF before
<1>3. \A k : (CHOOSE i \in S : Copies!Cardinality(before(t, i)) = k - 1)
             = (CHOOSE i \in S : Copies!Cardinality(before(s, i)) = k - 1)
  BY <1>1
<1> QED
  BY <1>2, <1>3

-----------------------------------------------------------------------------
(* A new rule set's name is no other's (_band1_rule_set_name).             *)
LEMMA NameIsNew ==
  ASSUME NEW sets, IsFiniteSet(DOMAIN sets), NEW card
  PROVE  LET name == Copies!RuleSetName(sets, card)
         IN  /\ name = [card |-> card, nth |-> name.nth] /\ name # Copies!NoName
             /\ \A i \in DOMAIN sets : sets[i].name # name
<1> DEFINE used == {m.name : m \in Copies!Range(sets)}
           c == Cardinality(used)
           name(n) == [card |-> card, nth |-> n]
           free == {n \in 1..(c + 1) : name(n) \notin used}
           least == Copies!Min(free)
<1>1. IsFiniteSet(used) /\ c \in Nat
  <2>1. [i \in DOMAIN sets |-> sets[i].name] \in Surjection(DOMAIN sets, used)
    BY DEF Surjection, Copies!Range
  <2> HIDE DEF used
  <2>2. IsFiniteSet(used)
    BY <2>1, FS_Surjection
  <2> QED
    BY <2>2, FS_CardinalityType
<1>2. free # {}
  <2> SUFFICES ASSUME \A n \in 1..(c + 1) : name(n) \in used PROVE FALSE
    OBVIOUS
  <2> DEFINE f == [n \in 1..(c + 1) |-> name(n)]
  <2>1. f \in Injection(1..(c + 1), used)
    <3>1. \A m, n \in 1..(c + 1) : f[m] = f[n] => m = n
      OBVIOUS
    <3>2. f \in [1..(c + 1) -> used]
      OBVIOUS
    <3> HIDE DEF f, used
    <3> QED
      BY <3>1, <3>2 DEF Injection, IsInjective
  <2> HIDE DEF f, used
  <2>2. IsFiniteSet(1..(c + 1)) /\ Cardinality(1..(c + 1)) = IF 1 > c + 1 THEN 0 ELSE (c + 1) - 1 + 1
    <3> HIDE DEF c
    <3> QED
      BY <1>1, FS_Interval
  <2>3. Cardinality(1..(c + 1)) <= c
    BY <1>1, <2>1, <2>2, FS_Injection
  <2> HIDE DEF c
  <2> QED
    BY <1>1, <2>2, <2>3
<1>3. least \in free
  <2>1. free \in SUBSET Nat
    <3> HIDE DEF c, used
    <3> QED
      BY <1>1
  <2> HIDE DEF free
  <2>2. \E m \in free : \A j \in free : m <= j
    BY <1>2, <2>1, LeastExists
  <2>3. Copies!Min(free) = CHOOSE x \in free : \A y \in free : x <= y
    BY DEF Copies!Min
  <2> QED
    BY <2>2, <2>3
<1>4. Copies!RuleSetName(sets, card) = name(least)
  <2>1. Copies!Cardinality(used) = c
    BY CopiesLibrary
  <2>2. Copies!RuleSetName(sets, card)
          = name(Copies!Min({n \in 1..(Copies!Cardinality(used) + 1) : name(n) \notin used}))
    BY DEF Copies!RuleSetName
  <2> QED
    BY <2>1, <2>2
<1>5. least \in 1..(c + 1) /\ name(least) \notin used
  BY <1>3
<1> HIDE DEF least, free
<1>6. least # 0
  <2> HIDE DEF c
  <2> QED
    BY <1>1, <1>5
<1>7. \A i \in DOMAIN sets : sets[i].name \in used
  BY DEF Copies!Range
<1> HIDE DEF used
<1> QED
  BY <1>4, <1>5, <1>6, <1>7 DEF Copies!NoName

(* A rule set more, of a new name, and the names are still apart; the pool *)
(* of the session is another.                                              *)
LEMMA SetAdded ==
  ASSUME NEW s, NEW free \in Nat \ {0}, Fits(s, free), Copies!NamesApart(s),
         NEW id, id \notin DOMAIN s.sets, NEW card, NEW rules, NEW t,
         t.sets = Copies!Put(s.sets, id, [name |-> Copies!RuleSetName(s.sets, card), rules |-> rules])
  PROVE  /\ Copies!NamesApart(t) /\ Copies!Range(t.sets) # Copies!Range(s.sets)
         /\ \A i \in DOMAIN s.sets : i \in DOMAIN t.sets /\ t.sets[i].name = s.sets[i].name
<1> DEFINE name == Copies!RuleSetName(s.sets, card)
           new == [name |-> name, rules |-> rules]
<1>1. IsFiniteSet(DOMAIN s.sets)
  <2>1. DOMAIN s.sets \in SUBSET (1..(free - 1)) /\ IsFiniteSet(1..(free - 1))
    BY FitsIs, FS_Interval
  <2> QED
    BY <2>1, FS_Subset
<1>2. name # Copies!NoName /\ \A i \in DOMAIN s.sets : s.sets[i].name # name
  BY <1>1, NameIsNew
<1> HIDE DEF name
<1>3. new = [name |-> new.name, rules |-> new.rules] /\ new.name = name
  OBVIOUS
<1> HIDE DEF new
<1>4. /\ DOMAIN t.sets = DOMAIN s.sets \cup {id} /\ t.sets[id] = new
      /\ \A i \in DOMAIN s.sets : t.sets[i] = s.sets[i]
  BY DEF Copies!Put, new, name
<1>5. Copies!NamesApart(t)
  BY <1>2, <1>3, <1>4 DEF Copies!NamesApart
<1>6. new \in Copies!Range(t.sets) /\ new \notin Copies!Range(s.sets)
  BY <1>2, <1>3, <1>4 DEF Copies!Range
<1> QED
  BY <1>4, <1>5, <1>6

-----------------------------------------------------------------------------
(* What an operator's edit does to a copy under way.  Rule sets stay under *)
(* their ids and names; and when the session looks as before, its rule     *)
(* sets, its shapes and what an export reads of a card are as before.      *)
SameCard(c, d) ==
    /\ d.sort = c.sort /\ Len(d.fields) = Len(c.fields)
    /\ Copies!Place(d.fields, d.sort) = Copies!Place(c.fields, c.sort)

CardsAlike(cards, later) == \A i \in DOMAIN cards : i \in DOMAIN later /\ SameCard(cards[i], later[i])

SetsStay(s, t) == \A i \in DOMAIN s.sets : i \in DOMAIN t.sets /\ t.sets[i].name = s.sets[i].name

SameSets(f, g) == DOMAIN g = DOMAIN f /\ \A i \in DOMAIN f : g[i] = f[i]

Looks(s, t) ==
    /\ Copies!NamesApart(t) /\ SetsStay(s, t)
    /\ Copies!Form(t) = Copies!Form(s) =>
          SameSets(s.sets, t.sets) /\ t.shapes = s.shapes /\ CardsAlike(s.inst, t.inst)

LEMMA LooksAlike ==
  ASSUME NEW s, NEW t, Copies!NamesApart(s), t.sets = s.sets, t.shapes = s.shapes, CardsAlike(s.inst, t.inst)
  PROVE  Looks(s, t)
BY DEF Looks, SetsStay, SameSets, Copies!NamesApart

LEMMA LooksOther ==
  ASSUME NEW s, NEW t, Copies!NamesApart(s), t.sets = s.sets, Copies!Form(t) # Copies!Form(s)
  PROVE  Looks(s, t)
BY DEF Looks, SetsStay, Copies!NamesApart

LEMMA MoreSets ==
  ASSUME NEW s, NEW free \in Nat \ {0}, Fits(s, free), Copies!NamesApart(s),
         NEW id, id \notin DOMAIN s.sets, NEW card, NEW rules, NEW t,
         t.sets = Copies!Put(s.sets, id, [name |-> Copies!RuleSetName(s.sets, card), rules |-> rules])
  PROVE  Looks(s, t)
<1>1. /\ Copies!NamesApart(t) /\ Copies!Range(t.sets) # Copies!Range(s.sets)
      /\ \A i \in DOMAIN s.sets : i \in DOMAIN t.sets /\ t.sets[i].name = s.sets[i].name
  BY SetAdded
<1>2. Copies!Form(t) # Copies!Form(s)
  <2>1. Copies!Form(t).pool = Copies!Range(t.sets) /\ Copies!Form(s).pool = Copies!Range(s.sets)
    BY DEF Copies!Form
  <2> QED
    BY <1>1, <2>1
<1> QED
  BY <1>1, <1>2 DEF Looks, SetsStay

LEMMA InvFitsNext == CopiesInv' => Fits(here', next') /\ next' \in Nat \ {0}
BY DEF CopiesInv, Fits, Copies!TypeOK, Copies!CardsOwnWhatTheyName

(* One card of the session is another.                                     *)
LEMMA OneCardLooks ==
  ASSUME NEW s, NEW free, Fits(s, free), Copies!NamesApart(s), NEW i \in DOMAIN s.inst, NEW c,
         SameCard(s.inst[i], c), NEW t, t = [s EXCEPT !.inst = [s.inst EXCEPT ![i] = c]]
  PROVE  Looks(s, t)
<1> DEFINE cards == [s.inst EXCEPT ![i] = c]
<1>1. t.inst = cards /\ t.sets = s.sets /\ t.shapes = s.shapes
  BY FitsIs
<1>2. CardsAlike(s.inst, cards)
  BY DEF CardsAlike, SameCard
<1> HIDE DEF cards
<1> QED
  BY <1>1, <1>2, LooksAlike

LEMMA CardReads ==
  ASSUME NEW c, Copies!IsCard(c), NEW x
  PROVE  /\ SameCard(c, [c EXCEPT !.brk = x]) /\ SameCard(c, [c EXCEPT !.label = x])
         /\ [c EXCEPT !.sort = x].sort = x /\ [c EXCEPT !.sort = x].fields = c.fields
         /\ [c EXCEPT !.fields = x].sort = c.sort /\ [c EXCEPT !.fields = x].fields = x
         /\ [c EXCEPT !.sort = x].ord = c.ord /\ [c EXCEPT !.fields = x].ord = c.ord
BY DEF Copies!IsCard, SameCard

LEMMA TurnPageLooks ==
  ASSUME CopiesInv, Copies!NamesApart(here), NEW i \in Copies!Cards, Copies!TurnPage(i)
  PROVE  Looks(here, here')
<1> DEFINE c == [here.inst[i] EXCEPT !.brk = ~here.inst[i].brk]
<1>1. Fits(here, next) /\ i \in DOMAIN here.inst
  BY InvFits DEF Copies!Cards
<1>2. here' = [here EXCEPT !.inst = [here.inst EXCEPT ![i] = c]]
  BY EditTurns DEF Copies!TurnPage
<1>3. SameCard(here.inst[i], c)
  BY <1>1, FitsIs, CardReads
<1> HIDE DEF c
<1> QED
  BY <1>1, <1>2, <1>3, OneCardLooks

LEMMA SetLabelLooks ==
  ASSUME CopiesInv, Copies!NamesApart(here), NEW i \in Copies!Cards, NEW t, Copies!SetLabel(i, t)
  PROVE  Looks(here, here')
<1> DEFINE c == [here.inst[i] EXCEPT !.label = [text |-> t, copies |-> 0]]
<1>1. Fits(here, next) /\ i \in DOMAIN here.inst
  BY InvFits DEF Copies!Cards
<1>2. here' = [here EXCEPT !.inst = [here.inst EXCEPT ![i] = c]]
  BY EditTurns DEF Copies!SetLabel
<1>3. SameCard(here.inst[i], c)
  BY <1>1, FitsIs, CardReads
<1> HIDE DEF c
<1> QED
  BY <1>1, <1>2, <1>3, OneCardLooks

(* A card as Form shows it, and what tells its sort and its fields.        *)
LEMMA ShownIs ==
  ASSUME NEW s, NEW i
  PROVE  /\ Shown(s, i).fields = Len(s.inst[i].fields)
         /\ Shown(s, i).sort = Copies!Place(s.inst[i].fields, s.inst[i].sort)
         /\ Shown(s, i).name = s.inst[i].name /\ Shown(s, i).label = s.inst[i].label
         /\ Shown(s, i).brk = s.inst[i].brk
         /\ Shown(s, i).rules = Copies!RulesOf(s.sets, s.inst[i].set)
BY DEF Shown, Copies!PortableCard

LEMMA SetSortLooks ==
  ASSUME CopiesInv, Copies!NamesApart(here), NEW i \in Copies!Cards, NEW f, Copies!SetSort(i, f),
         f \in Copies!Range(here.inst[i].fields) \cup {Copies!NoSort}
  PROVE  Looks(here, here')
<1> DEFINE old == here.inst[i]
           c == [old EXCEPT !.sort = f]
<1>1. /\ Fits(here, next) /\ next \in Nat \ {0} /\ i \in DOMAIN here.inst
      /\ Copies!IsCard(old) /\ OwnSort(old)
  BY InvFits, FitsIs DEF Copies!Cards
<1>2. /\ here' = [here EXCEPT !.inst = [here.inst EXCEPT ![i] = c]] /\ old.sort # f
  BY EditTurns DEF Copies!SetSort
<1>3. c.sort = f /\ c.fields = old.fields /\ c.ord = old.ord
  BY <1>1, CardReads
<1>4. DOMAIN old.fields \subseteq Nat \ {0}
  BY <1>1, CardFields
<1> HIDE DEF c, old
<1>5. /\ here'.sets = here.sets /\ here'.inst[i] = c /\ DOMAIN here'.inst = DOMAIN here.inst
      /\ \A j \in DOMAIN here.inst : j # i => here'.inst[j] = here.inst[j]
  BY <1>1, <1>2, FitsIs
<1>6. Copies!Sorted(here') = Copies!Sorted(here)
  BY <1>3, <1>5, SameOrder DEF old
<1>7. Copies!Form(here') # Copies!Form(here)
  <2> SUFFICES ASSUME Copies!Form(here') = Copies!Form(here) PROVE FALSE
    OBVIOUS
  <2>1. Shown(here', i) = Shown(here, i)
    BY <1>1, <1>6, ShowingTells
  <2>2. Copies!Place(old.fields, f) = Copies!Place(old.fields, old.sort)
    BY <1>3, <1>5, <2>1, ShownIs DEF old
  <2>3. f \in Copies!Range(old.fields) => f = old.sort
    BY <1>4, <2>2, PlaceTells
  <2>4. old.sort \in Copies!Range(old.fields) => f = old.sort
    BY <1>4, <2>2, PlaceTells
  <2> QED
    BY <1>1, <1>2, <2>3, <2>4 DEF OwnSort, old
<1> QED
  BY <1>5, <1>7, LooksOther

LEMMA DragFieldsLooks ==
  ASSUME CopiesInv, Copies!NamesApart(here), NEW i \in Copies!Cards, Copies!DragFields(i)
  PROVE  Looks(here, here')
<1> DEFINE old == here.inst[i]
           back == Copies!Reverse(old.fields)
           c == [old EXCEPT !.fields = back]
<1>1. /\ Fits(here, next) /\ next \in Nat \ {0} /\ i \in DOMAIN here.inst /\ Copies!IsCard(old)
  BY InvFits, FitsIs DEF Copies!Cards
<1>2. here' = [here EXCEPT !.inst = [here.inst EXCEPT ![i] = c]]
  BY EditTurns DEF Copies!DragFields
<1>3. c.sort = old.sort /\ c.fields = back /\ c.ord = old.ord
  BY <1>1, CardReads
<1> HIDE DEF c, old
<1>5. /\ here'.sets = here.sets /\ here'.shapes = here.shapes
      /\ here'.inst[i] = c /\ DOMAIN here'.inst = DOMAIN here.inst
      /\ \A j \in DOMAIN here.inst : j # i => here'.inst[j] = here.inst[j]
  BY <1>1, <1>2, FitsIs
<1>6. Copies!Sorted(here') = Copies!Sorted(here)
  BY <1>3, <1>5, SameOrder DEF old
<1>7. ASSUME Copies!Form(here') = Copies!Form(here) PROVE SameCard(old, c)
  <2>1. Shown(here', i) = Shown(here, i)
    BY <1>1, <1>6, <1>7, ShowingTells
  <2> QED
    BY <1>3, <1>5, <2>1, ShownIs DEF old, SameCard
<1>8. CASE Copies!Form(here') = Copies!Form(here)
  BY <1>1, <1>2, <1>7, <1>8, OneCardLooks DEF old
<1> QED
  BY <1>5, <1>8, LooksOther

LEMMA ReorderLooks ==
  ASSUME CopiesInv, Copies!NamesApart(here), NEW order, NEW breaks, Copies!Reorder(order, breaks)
  PROVE  Looks(here, here')
<1> DEFINE cards == [i \in DOMAIN here.inst |->
                       [here.inst[i] EXCEPT !.ord = Copies!Place(order, i) - 1, !.brk = i \in breaks]]
<1>1. Fits(here, next)
  BY InvFits
<1>2. here' = [here EXCEPT !.inst = cards]
  BY EditTurns DEF Copies!Reorder
<1>3. CardsAlike(here.inst, cards)
  <2> SUFFICES ASSUME NEW i \in DOMAIN here.inst PROVE SameCard(here.inst[i], cards[i])
    BY DEF CardsAlike
  <2>1. Copies!IsCard(here.inst[i])
    BY <1>1, FitsIs
  <2>2. \A ord, brk : SameCard(here.inst[i], [here.inst[i] EXCEPT !.ord = ord, !.brk = brk])
    BY <2>1 DEF Copies!IsCard, SameCard
  <2> QED
    BY <2>2
<1> HIDE DEF cards
<1>4. here'.inst = cards /\ here'.sets = here.sets /\ here'.shapes = here.shapes
  BY <1>1, <1>2, FitsIs
<1> QED
  BY <1>3, <1>4, LooksAlike

LEMMA SaveShapeLooks ==
  ASSUME CopiesInv, Copies!NamesApart(here), NEW i \in Copies!Cards, NEW n, Copies!SaveShape(n, i)
  PROVE  Looks(here, here')
<1> DEFINE shapes == Copies!Put(here.shapes, n, i)
           order == Copies!Sorted(here)
<1>1. Fits(here, next) /\ next \in Nat \ {0} /\ i \in DOMAIN here.inst
  BY InvFits DEF Copies!Cards
<1>2. here' = [here EXCEPT !.shapes = shapes] /\ (n \in DOMAIN here.shapes => here.shapes[n] # i)
  BY EditTurns DEF Copies!SaveShape
<1>3. n \in DOMAIN shapes /\ shapes[n] = i
  BY DEF Copies!Put
<1> HIDE DEF shapes
<1>4. here'.inst = here.inst /\ here'.sets = here.sets /\ here'.shapes = shapes
  BY <1>1, <1>2, FitsIs
<1>5. Copies!Sorted(here') = order
  BY <1>4, SameOrder
<1>6. i \in Copies!Range(order) /\ DOMAIN order \subseteq Nat \ {0}
  BY <1>1, SortedCards
<1>7. Copies!Form(here') # Copies!Form(here)
  <2> SUFFICES ASSUME Copies!Form(here') = Copies!Form(here) PROVE FALSE
    OBVIOUS
  <2>1. /\ Copies!Form(here').shapes = [m \in DOMAIN shapes |-> Copies!Place(order, shapes[m])]
        /\ Copies!Form(here).shapes = [m \in DOMAIN here.shapes |-> Copies!Place(order, here.shapes[m])]
    BY <1>4, <1>5, FormIs
  <2> HIDE DEF order
  <2>2. n \in DOMAIN here.shapes /\ Copies!Place(order, i) = Copies!Place(order, here.shapes[n])
    BY <1>3, <2>1
  <2>3. i = here.shapes[n]
    BY <1>6, <2>2, PlaceTells
  <2> QED
    BY <1>2, <2>2, <2>3
<1> QED
  BY <1>4, <1>7, LooksOther

(* A card more or a card less shows.                                       *)
LEMMA MoreShows ==
  ASSUME NEW s, NEW free \in Nat \ {0}, Fits(s, free), NEW t, NEW later \in Nat \ {0}, Fits(t, later),
         NEW id, \/ id \notin DOMAIN s.inst /\ DOMAIN t.inst = DOMAIN s.inst \cup {id}
                 \/ id \in DOMAIN s.inst /\ DOMAIN t.inst = DOMAIN s.inst \ {id}
  PROVE  Copies!Form(t) # Copies!Form(s)
<1> DEFINE S == DOMAIN s.inst
           m == Cardinality(S)
           n == Cardinality(DOMAIN t.inst)
<1>1. IsFiniteSet(S) /\ m \in Nat /\ n \in Nat
  BY CardsAreFinite
<1>2. m # n
  <2>1. CASE id \notin S /\ DOMAIN t.inst = S \cup {id}
    <3>1. Cardinality(S \cup {id}) = m + 1
      BY <1>1, <2>1, FS_AddElement
    <3> HIDE DEF m
    <3> QED
      BY <1>1, <2>1, <3>1
  <2>2. CASE id \in S /\ DOMAIN t.inst = S \ {id}
    <3>1. Cardinality(S \ {id}) = m - 1
      BY <1>1, <2>2, FS_RemoveElement
    <3> HIDE DEF m
    <3> QED
      BY <1>1, <2>2, <3>1
  <2> QED
    BY <2>1, <2>2
<1> QED
  BY <1>2, ManyTells

LEMMA CreateLooks ==
  ASSUME CopiesInv, CopiesInv', Copies!NamesApart(here), NEW after, Copies!Create(after)
  PROVE  Looks(here, here')
<1>1. Fits(here, next) /\ next \in Nat \ {0} /\ Fits(here', next') /\ next' \in Nat \ {0}
  BY InvFits, InvFitsNext
<1>2. PICK bumped, card :
          /\ DOMAIN bumped = DOMAIN here.inst
          /\ here' = [here EXCEPT !.inst = Copies!Put(bumped, next, card)]
  <2>1. PICK ord, name :
          LET bumped == [i \in DOMAIN here.inst |->
                            IF here.inst[i].ord >= ord THEN [here.inst[i] EXCEPT !.ord = @ + 1]
                            ELSE here.inst[i]]
              card == [ord |-> ord, name |-> name, label |-> Copies!NoLabel, brk |-> FALSE,
                       set |-> Copies!None, sort |-> Copies!NoSort,
                       fields |-> [k \in Copies!Seeded |-> [of |-> next, nth |-> k]]]
          IN  Copies!Becomes([here EXCEPT !.inst = Copies!Put(bumped, next, card)])
    BY DEF Copies!Create
  <2> DEFINE bumped == [i \in DOMAIN here.inst |->
                            IF here.inst[i].ord >= ord THEN [here.inst[i] EXCEPT !.ord = @ + 1]
                            ELSE here.inst[i]]
             card == [ord |-> ord, name |-> name, label |-> Copies!NoLabel, brk |-> FALSE,
                      set |-> Copies!None, sort |-> Copies!NoSort,
                      fields |-> [k \in Copies!Seeded |-> [of |-> next, nth |-> k]]]
  <2>2. here' = [here EXCEPT !.inst = Copies!Put(bumped, next, card)] /\ DOMAIN bumped = DOMAIN here.inst
    BY <2>1 DEF Copies!Becomes, Copies!Turns
  <2> HIDE DEF bumped, card
  <2> QED
    BY <2>2
<1>3. here'.inst = Copies!Put(bumped, next, card) /\ here'.sets = here.sets
  BY <1>1, <1>2, FitsIs
<1>4. DOMAIN here'.inst = DOMAIN here.inst \cup {next}
  BY <1>2, <1>3 DEF Copies!Put
<1>5. next \notin DOMAIN here.inst
  <2>1. DOMAIN here.inst \subseteq 1..(next - 1)
    BY <1>1, FitsIs
  <2> QED
    BY <1>1, <2>1
<1>6. Copies!Form(here') # Copies!Form(here)
  BY <1>1, <1>4, <1>5, MoreShows
<1> QED
  BY <1>3, <1>6, LooksOther

LEMMA DeleteLooks ==
  ASSUME CopiesInv, CopiesInv', Copies!NamesApart(here), NEW i \in Copies!Cards, Copies!Delete(i)
  PROVE  Looks(here, here')
<1> DEFINE rest == Copies!Restrict(here.inst, DOMAIN here.inst \ {i})
           left == [here EXCEPT !.inst = rest]
           cards == [j \in DOMAIN rest |->
                       [rest[j] EXCEPT !.ord = Copies!Place(Copies!Sorted(left), j) - 1]]
           shapes == Copies!Restrict(here.shapes, {n \in DOMAIN here.shapes : here.shapes[n] # i})
<1>1. /\ Fits(here, next) /\ next \in Nat \ {0} /\ Fits(here', next') /\ next' \in Nat \ {0}
      /\ i \in DOMAIN here.inst
  BY InvFits, InvFitsNext DEF Copies!Cards
<1>2. here' = [inst |-> cards, sets |-> here.sets, shapes |-> shapes]
  <2>1. here = [inst |-> here.inst, sets |-> here.sets, shapes |-> here.shapes]
    BY <1>1, FitsIs
  <2>2. left.inst = rest /\ left = [inst |-> rest, sets |-> here.sets, shapes |-> here.shapes]
    BY <2>1
  <2>3. here' = [left EXCEPT !.inst = cards, !.shapes = shapes]
    BY <2>2, EditTurns DEF Copies!Delete, Copies!Without
  <2> HIDE DEF rest, cards, shapes
  <2> QED
    BY <2>2, <2>3
<1>3. DOMAIN cards = DOMAIN here.inst \ {i}
  BY DEF Copies!Restrict
<1> HIDE DEF cards, shapes
<1>4. here'.sets = here.sets /\ DOMAIN here'.inst = DOMAIN here.inst \ {i}
  BY <1>2, <1>3
<1>5. Copies!Form(here') # Copies!Form(here)
  BY <1>1, <1>4, MoreShows
<1> QED
  BY <1>4, <1>5, LooksOther

LEMMA CopyRows ==
  ASSUME NEW s, NEW free, Fits(s, free), NEW card
  PROVE  LET first == [name |-> Copies!RuleSetName(s.sets, free), rules |-> s.sets[card.set].rules]
             t == Copies!CopyOf(s, free, card)
         IN  /\ DOMAIN t.inst = DOMAIN s.inst \cup {free}
             /\ t.sets = IF card.set \in DOMAIN s.sets THEN Copies!Put(s.sets, free + 1, first)
                         ELSE s.sets
<1> DEFINE fields == [k \in DOMAIN card.fields |-> [of |-> free, nth |-> k]]
           sort == IF card.sort \in Copies!Range(card.fields)
                   THEN fields[Copies!Place(card.fields, card.sort)] ELSE Copies!NoSort
           own == card.set \in DOMAIN s.sets
           copy == [card EXCEPT !.fields = fields, !.sort = sort,
                                !.set = IF own THEN free + 1 ELSE Copies!None]
           first == [name |-> Copies!RuleSetName(s.sets, free), rules |-> s.sets[card.set].rules]
           carded == [s EXCEPT !.inst = Copies!Put(s.inst, free, copy)]
<1>1. s = [inst |-> s.inst, sets |-> s.sets, shapes |-> s.shapes]
  BY FitsIs
<1>2. Copies!CopyOf(s, free, card)
        = IF own THEN [carded EXCEPT !.sets = Copies!Put(carded.sets, free + 1, first)] ELSE carded
  BY DEF Copies!CopyOf, Copies!With, Copies!WithSet
<1> HIDE DEF copy, first, own
<1>3. carded = [inst |-> Copies!Put(s.inst, free, copy), sets |-> s.sets, shapes |-> s.shapes]
  BY <1>1
<1> HIDE DEF carded
<1>4. carded.sets = s.sets /\ carded.inst = Copies!Put(s.inst, free, copy)
  BY <1>3
<1>5. /\ Copies!CopyOf(s, free, card).inst = Copies!Put(s.inst, free, copy)
      /\ Copies!CopyOf(s, free, card).sets = IF own THEN Copies!Put(s.sets, free + 1, first) ELSE s.sets
  BY <1>2, <1>3, <1>4
<1>6. DOMAIN Copies!Put(s.inst, free, copy) = DOMAIN s.inst \cup {free}
  BY DEF Copies!Put
<1> QED
  BY <1>5, <1>6 DEF own, first

LEMMA ReplicateLooks ==
  ASSUME CopiesInv, CopiesInv', Copies!NamesApart(here), Copies!Replicate
  PROVE  Looks(here, here')
<1> DEFINE i == held.id
           ord == held.card.ord + 1
           rest == [j \in DOMAIN here.inst |->
                       IF j # i /\ here.inst[j].ord >= ord
                       THEN [here.inst[j] EXCEPT !.ord = @ + 1] ELSE here.inst[j]]
           shifted == [here EXCEPT !.inst = rest]
           fields == IF i \in DOMAIN here.inst THEN here.inst[i].fields ELSE << >>
           label == held.card.label
           card == [held.card EXCEPT
                       !.ord = ord, !.brk = FALSE, !.fields = fields, !.name.copies = @ + 1,
                       !.label.copies = IF label = Copies!NoLabel THEN 0 ELSE @ + 1]
           first == [name |-> Copies!RuleSetName(here.sets, next), rules |-> here.sets[card.set].rules]
<1>1. Fits(here, next) /\ next \in Nat \ {0} /\ Fits(here', next') /\ next' \in Nat \ {0}
  BY InvFits, InvFitsNext
<1>2. here' = Copies!CopyOf(shifted, next, card)
  BY EditTurns DEF Copies!Replicate
<1>3. shifted = [inst |-> rest, sets |-> here.sets, shapes |-> here.shapes]
  BY <1>1, FitsIs
<1>4. DOMAIN rest = DOMAIN here.inst
  OBVIOUS
<1>5. Fits(shifted, next)
  <2>3. \A j \in DOMAIN here.inst : Copies!IsCard(here.inst[j]) /\ OwnSort(here.inst[j])
    BY <1>1, FitsIs
  <2>1. \A j \in DOMAIN rest : /\ Copies!IsCard(rest[j]) /\ OwnSort(rest[j])
                               /\ rest[j].set = here.inst[j].set
    <3> TAKE j \in DOMAIN rest
    <3> DEFINE c == here.inst[j]
    <3>1. Copies!IsCard(c) /\ OwnSort(c)
      BY <2>3
    <3>2. rest[j] = c \/ rest[j] = [c EXCEPT !.ord = c.ord + 1]
      OBVIOUS
    <3> HIDE DEF c, rest
    <3>3. c.ord + 1 \in Int
      BY <3>1, CardFields
    <3>4. Copies!IsCard(rest[j]) /\ OwnSort(rest[j]) /\ rest[j].set = c.set
      BY <3>1, <3>2, <3>3, CardFields
    <3> QED
      BY <3>4 DEF c
  <2>2. Copies!Range(here.shapes) \subseteq DOMAIN rest \cup {0}
    BY <1>1, <1>4, FitsIs
  <2> HIDE DEF rest, shifted
  <2> QED
    BY <1>1, <1>3, <1>4, <2>1, <2>2, EditedFits
<1> HIDE DEF card, rest, shifted
<1>6. shifted.inst = rest /\ shifted.sets = here.sets
  BY <1>3
<1>7. /\ DOMAIN here'.inst = DOMAIN here.inst \cup {next}
      /\ here'.sets = IF card.set \in DOMAIN here.sets THEN Copies!Put(here.sets, next + 1, first)
                      ELSE here.sets
  BY <1>2, <1>4, <1>5, <1>6, CopyRows
<1>8. next \notin DOMAIN here.inst /\ next + 1 \notin DOMAIN here.sets
  <2>1. DOMAIN here.inst \subseteq 1..(next - 1) /\ DOMAIN here.sets \subseteq 1..(next - 1)
    BY <1>1, FitsIs
  <2> QED
    BY <1>1, <2>1
<1>9. CASE card.set \in DOMAIN here.sets
  BY <1>1, <1>7, <1>8, <1>9, MoreSets
<1>10. CASE card.set \notin DOMAIN here.sets
  <2>1. Copies!Form(here') # Copies!Form(here)
    BY <1>1, <1>7, <1>8, MoreShows
  <2> QED
    BY <1>7, <1>10, <2>1, LooksOther
<1> QED
  BY <1>9, <1>10

LEMMA SaveRulesLooks ==
  ASSUME CopiesInv, Copies!NamesApart(here), NEW rules, Copies!SaveRules(rules)
  PROVE  Looks(here, here')
<1> DEFINE id == held.id
           pin == held.card.set
           first == [name |-> Copies!RuleSetName(here.sets, id), rules |-> rules]
<1>1. /\ Fits(here, next) /\ next \in Nat \ {0}
      /\ here = [inst |-> here.inst, sets |-> here.sets, shapes |-> here.shapes]
  BY InvFits, FitsIs
<1>2. \/ pin \in DOMAIN here.sets /\ Copies!Becomes([here EXCEPT !.sets[pin].rules = rules])
      \/ Copies!Becomes(Copies!WithSet([here EXCEPT !.inst[id].set = next], next, first))
      \/ here' = here
  BY DEF Copies!SaveRules
<1>3. CASE pin \in DOMAIN here.sets /\ Copies!Becomes([here EXCEPT !.sets[pin].rules = rules])
  <2> DEFINE new == [here.sets[pin] EXCEPT !.rules = rules]
             sets == [here.sets EXCEPT ![pin] = new]
  <2>1. here' = [inst |-> here.inst, sets |-> sets, shapes |-> here.shapes]
    BY <1>1, <1>3 DEF Copies!Becomes, Copies!Turns
  <2>2. here.sets[pin] = [name |-> here.sets[pin].name, rules |-> here.sets[pin].rules]
    BY <1>3 DEF Copies!NamesApart
  <2>3. new = [name |-> here.sets[pin].name, rules |-> rules]
    BY <2>2
  <2> HIDE DEF new
  <2>4. new.name = here.sets[pin].name /\ new.rules = rules
    BY <2>3
  <2>5. /\ DOMAIN sets = DOMAIN here.sets /\ sets[pin] = new
        /\ \A i \in DOMAIN here.sets : i # pin => sets[i] = here.sets[i]
    BY <1>3
  <2> HIDE DEF sets
  <2>6. here'.inst = here.inst /\ here'.sets = sets /\ here'.shapes = here.shapes
    BY <2>1
  <2>7. Copies!NamesApart(here') /\ SetsStay(here, here')
    <3>1. \A i \in DOMAIN here.sets : i \in DOMAIN sets /\ sets[i].name = here.sets[i].name
      BY <2>4, <2>5
    <3>2. \A i \in DOMAIN sets : sets[i] = [name |-> sets[i].name, rules |-> sets[i].rules]
      <4> TAKE i \in DOMAIN sets
      <4>1. CASE i = pin
        BY <2>3, <2>4, <2>5, <4>1
      <4>2. CASE i # pin
        BY <2>5, <4>2 DEF Copies!NamesApart
      <4> QED
        BY <4>1, <4>2
    <3> QED
      BY <2>5, <2>6, <3>1, <3>2 DEF Copies!NamesApart, SetsStay
  <2>8. ASSUME Copies!Form(here') = Copies!Form(here) PROVE here.sets[pin] = new
    <3>1. Copies!Range(sets) = Copies!Range(here.sets)
      BY <2>6, <2>8, FormIs
    <3>2. new \in Copies!Range(here.sets)
      BY <1>3, <2>5, <3>1 DEF Copies!Range
    <3>3. PICK j \in DOMAIN here.sets : here.sets[j] = new
      BY <3>2 DEF Copies!Range
    <3>4. j = pin
      BY <1>3, <2>4, <3>3 DEF Copies!NamesApart
    <3> QED
      BY <3>3, <3>4
  <2>9. ASSUME here.sets[pin] = new PROVE SameSets(here.sets, sets)
    BY <2>5, <2>9 DEF SameSets
  <2>10. CardsAlike(here.inst, here'.inst)
    BY <2>6 DEF CardsAlike, SameCard
  <2> QED
    BY <2>6, <2>7, <2>8, <2>9, <2>10 DEF Looks
<1>4. CASE Copies!Becomes(Copies!WithSet([here EXCEPT !.inst[id].set = next], next, first))
  <2> DEFINE cards == [here.inst EXCEPT ![id] = [here.inst[id] EXCEPT !.set = next]]
             pinned == [here EXCEPT !.inst[id].set = next]
  <2>1. pinned = [inst |-> cards, sets |-> here.sets, shapes |-> here.shapes]
    BY <1>1
  <2>2. here' = [pinned EXCEPT !.sets = Copies!Put(@, next, first)]
    BY <1>4 DEF Copies!Becomes, Copies!Turns, Copies!WithSet
  <2> HIDE DEF pinned, cards
  <2>3. here'.sets = Copies!Put(here.sets, next, first)
    BY <2>1, <2>2
  <2>4. next \notin DOMAIN here.sets
    <3>1. DOMAIN here.sets \subseteq 1..(next - 1)
      BY <1>1, FitsIs
    <3> QED
      BY <1>1, <3>1
  <2> QED
    BY <1>1, <2>3, <2>4, MoreSets
<1>5. CASE here' = here
  BY <1>5, LooksAlike DEF CardsAlike, SameCard
<1> HIDE DEF first
<1> QED
  BY <1>2, <1>3, <1>4, <1>5

-----------------------------------------------------------------------------
(* A file's rule sets are records of a name, and so are an import's.       *)
SetRows(S) == \A m \in S : m = [name |-> m.name, rules |-> m.rules] /\ m.name # Copies!NoName

LEMMA PoolNames ==
  ASSUME NEW s, NEW free \in Nat \ {0}, Fits(s, free), Copies!NamesApart(s),
         NEW f, Copies!IsFile(f), Copies!Acceptable(f), NEW at \in Nat, free <= at
  PROVE  LET pool == Copies!Upserted(s, f, at)
         IN  /\ \A i \in DOMAIN pool : pool[i] \in f.sets
             /\ \A i, j \in DOMAIN pool : pool[i].name = pool[j].name => i = j
             /\ \A m \in f.sets : \E i \in DOMAIN pool : pool[i] = m
<1> DEFINE new == {m \in f.sets : \A o \in Copies!Range(s.sets) : o.name # m.name}
           fresh == Copies!SetToSeq(new)
           kept == {i \in DOMAIN s.sets : \E m \in f.sets : m.name = s.sets[i].name}
           added == {at + k - 1 : k \in DOMAIN fresh}
           pool == Copies!Upserted(s, f, at)
           n == Cardinality(new)
<1>1. IsFiniteSet(f.sets) /\ DOMAIN s.sets \subseteq 1..(free - 1)
  BY FitsIs, CopiesLibrary DEF Copies!IsFile
<1>2. IsFiniteSet(new)
  BY <1>1, FS_Subset
<1>3. /\ n \in Nat /\ DOMAIN fresh = 1..n /\ \A k \in 1..n : fresh[k] \in new
      /\ \A j, k \in 1..n : fresh[j] = fresh[k] => j = k
  <2> HIDE DEF new
  <2> QED
    BY <1>2, SetInOrder
<1>4. pool = [i \in kept \cup added |->
                 IF i \in kept THEN CHOOSE m \in f.sets : m.name = s.sets[i].name
                 ELSE fresh[i - at + 1]]
  BY DEF Copies!Upserted
<1>5. \A m \in f.sets : \E i \in DOMAIN pool : pool[i].name = m.name
  BY PoolIs
<1> HIDE DEF pool
<1>6. ASSUME NEW i \in kept
      PROVE  i \in DOMAIN s.sets /\ pool[i] \in f.sets /\ pool[i].name = s.sets[i].name
  <2>1. \E m \in f.sets : m.name = s.sets[i].name
    OBVIOUS
  <2>2. pool[i] = CHOOSE m \in f.sets : m.name = s.sets[i].name
    <3> HIDE DEF added, kept
    <3> QED
      BY <1>4
  <2> QED
    BY <2>1, <2>2
<1>7. ASSUME NEW i \in DOMAIN pool, i \notin kept
      PROVE  \E k \in 1..n : i = at + k - 1 /\ pool[i] = fresh[k]
  <2>1. i \in added /\ pool[i] = fresh[i - at + 1]
    <3> HIDE DEF added, kept
    <3> QED
      BY <1>4, <1>7
  <2>2. PICK k \in 1..n : i = at + k - 1
    BY <1>3, <2>1
  <2>3. i - at + 1 = k
    <3> HIDE DEF n
    <3> QED
      BY <1>3, <2>2
  <2> QED
    BY <2>1, <2>2, <2>3
<1>8. ASSUME NEW i \in DOMAIN pool, i \notin kept
      PROVE  pool[i] \in f.sets /\ \A j \in DOMAIN s.sets : s.sets[j].name # pool[i].name
  <2>1. pool[i] \in new
    <3> HIDE DEF new, fresh, n
    <3> QED
      BY <1>3, <1>7, <1>8
  <2> QED
    BY <2>1 DEF Copies!Range
<1>9. ASSUME NEW i \in DOMAIN pool, i \notin kept, NEW j \in DOMAIN pool, j \notin kept,
             pool[i].name = pool[j].name
      PROVE  i = j
  <2>1. pool[i] = pool[j]
    BY <1>8, <1>9 DEF Copies!Acceptable
  <2> HIDE DEF new, fresh, n
  <2> QED
    BY <1>3, <1>7, <1>9, <2>1
<1>10. \A i \in DOMAIN pool : pool[i] \in f.sets
  BY <1>6, <1>8
<1>11. ASSUME NEW i \in DOMAIN pool, NEW j \in DOMAIN pool, pool[i].name = pool[j].name
       PROVE  i = j
  <2> HIDE DEF kept
  <2>1. CASE i \in kept /\ j \in kept
    BY <1>6, <1>11, <2>1 DEF Copies!NamesApart
  <2>2. CASE i \in kept /\ j \notin kept
    BY <1>6, <1>8, <1>11, <2>2
  <2>3. CASE i \notin kept /\ j \in kept
    BY <1>6, <1>8, <1>11, <2>3
  <2>4. CASE i \notin kept /\ j \notin kept
    BY <1>9, <1>11, <2>4
  <2> QED
    BY <2>1, <2>2, <2>3, <2>4
<1>12. \A m \in f.sets : \E i \in DOMAIN pool : pool[i] = m
  BY <1>5, <1>10 DEF Copies!Acceptable
<1> QED
  BY <1>10, <1>11, <1>12 DEF pool

LEMMA AppliedSets ==
  ASSUME NEW s, NEW f, NEW at, Len(f.cards) \in Nat, DOMAIN f.cards = 1..Len(f.cards)
  PROVE  LET n == Len(f.cards)
             pool == Copies!Upserted(s, f, at + n)
             sets == Copies!Applied(s, f, at).sets
         IN  /\ \A i \in DOMAIN pool : i \in DOMAIN sets /\ sets[i] = pool[i]
             /\ \A i \in DOMAIN sets : i \notin DOMAIN pool =>
                   \E k \in 1..n :
                      /\ Copies!Taken(f, k) /\ i = at + n + Copies!Cardinality(f.sets) + k
                      /\ \E rules : sets[i] = [name |-> Copies!RuleSetName(pool, at + k - 1),
                                               rules |-> rules]
<1> DEFINE n == Len(f.cards)
           ids == [k \in 1..n |-> at + k - 1]
           pool == Copies!Upserted(s, f, at + n)
           copied == {k \in 1..n : Copies!Taken(f, k)}
           copyAt == [k \in copied |-> at + n + Copies!Cardinality(f.sets) + k]
           of(i) == CHOOSE j \in copied : copyAt[j] = i
           copy(i) == [name |-> Copies!RuleSetName(pool, ids[of(i)]),
                       rules |-> pool[Copies!IdOf(pool, f.cards[of(i)].set)].rules]
           copies == [i \in Copies!Range(copyAt) |-> copy(i)]
           sets == [i \in DOMAIN pool \cup Copies!Range(copyAt) |->
                      IF i \in DOMAIN pool THEN pool[i] ELSE copies[i]]
<1>1. Copies!Applied(s, f, at).sets = sets
  BY DEF Copies!Applied
<1>2. ASSUME NEW i \in Copies!Range(copyAt)
      PROVE  of(i) \in 1..n /\ Copies!Taken(f, of(i)) /\ copyAt[of(i)] = i /\ of(i) \in copied
  <2>1. \E j \in copied : copyAt[j] = i
    BY DEF Copies!Range
  <2> HIDE DEF copyAt
  <2>2. of(i) \in copied /\ copyAt[of(i)] = i
    BY <2>1
  <2> HIDE DEF of
  <2> QED
    BY <2>2
<1>3. \A i \in Copies!Range(copyAt) : copies[i] = copy(i)
  <2> HIDE DEF copy
  <2> QED
    OBVIOUS
<1>4. /\ \A i \in DOMAIN pool : i \in DOMAIN sets /\ sets[i] = pool[i]
      /\ \A i \in DOMAIN sets : i \notin DOMAIN pool => i \in Copies!Range(copyAt) /\ sets[i] = copies[i]
  <2> HIDE DEF copies, copyAt, pool
  <2> QED
    OBVIOUS
<1> HIDE DEF copies, sets, of
<1>5. ASSUME NEW i \in DOMAIN sets, i \notin DOMAIN pool
      PROVE  \E k \in 1..n : /\ Copies!Taken(f, k) /\ i = at + n + Copies!Cardinality(f.sets) + k
                             /\ \E rules : sets[i] = [name |-> Copies!RuleSetName(pool, at + k - 1),
                                                      rules |-> rules]
  <2>1. i \in Copies!Range(copyAt) /\ sets[i] = copy(i)
    <3> HIDE DEF copyAt, copy
    <3> QED
      BY <1>3, <1>4, <1>5
  <2>2. of(i) \in 1..n /\ Copies!Taken(f, of(i)) /\ copyAt[of(i)] = i /\ of(i) \in copied
    BY <1>2, <2>1
  <2>3. ids[of(i)] = at + of(i) - 1 /\ copyAt[of(i)] = at + n + Copies!Cardinality(f.sets) + of(i)
    BY <2>2
  <2> HIDE DEF ids, copyAt, n
  <2> QED
    BY <2>1, <2>2, <2>3
<1> HIDE DEF pool, n
<1> QED
  BY <1>1, <1>4, <1>5 DEF pool, n

LEMMA AppliedNamesApart ==
  ASSUME NEW s, NEW free \in Nat \ {0}, Fits(s, free), Copies!NamesApart(s),
         NEW f, Copies!IsFile(f), Copies!Acceptable(f), SetRows(f.sets)
  PROVE  Copies!NamesApart(Copies!Applied(s, f, free))
<1> DEFINE n == Len(f.cards)
           most == Copies!Cardinality(f.sets)
           pool == Copies!Upserted(s, f, free + n)
           t == Copies!Applied(s, f, free)
           name(k) == Copies!RuleSetName(pool, free + k - 1)
<1>1. /\ n \in Nat /\ most \in Nat /\ DOMAIN f.cards = 1..n
      /\ DOMAIN pool \subseteq 1..((free + n + most) - 1)
  BY SetsGiven
<1>2. /\ \A i \in DOMAIN pool : pool[i] \in f.sets
      /\ \A i, j \in DOMAIN pool : pool[i].name = pool[j].name => i = j
  <2>1. free + n \in Nat /\ free <= free + n
    BY <1>1
  <2> HIDE DEF n
  <2> QED
    BY <2>1, PoolNames
<1>3. /\ \A i \in DOMAIN pool : i \in DOMAIN t.sets /\ t.sets[i] = pool[i]
      /\ \A i \in DOMAIN t.sets : i \notin DOMAIN pool =>
            \E k \in 1..n : /\ Copies!Taken(f, k) /\ i = free + n + most + k
                            /\ \E rules : t.sets[i] = [name |-> name(k), rules |-> rules]
  BY <1>1, AppliedSets
<1>4. \A k \in 1..n : /\ name(k) = [card |-> free + k - 1, nth |-> name(k).nth] /\ name(k) # Copies!NoName
                      /\ \A i \in DOMAIN pool : pool[i].name # name(k)
  <2>1. IsFiniteSet(DOMAIN pool)
    <3>1. DOMAIN pool \in SUBSET (1..((free + n + most) - 1))
      BY <1>1
    <3>2. IsFiniteSet(1..((free + n + most) - 1))
      <4>1. (free + n + most) - 1 \in Int
        BY <1>1
      <4> HIDE DEF n, most
      <4> QED
        BY <4>1, FS_Interval
    <3> HIDE DEF pool, n, most
    <3> QED
      BY <3>1, <3>2, FS_Subset
  <2> HIDE DEF pool
  <2> QED
    BY <2>1, NameIsNew
<1> HIDE DEF pool, n, most, t
<1>5. \A j, k \in 1..n : name(j) = name(k) => j = k
  <2> TAKE j, k \in 1..n
  <2> HAVE name(j) = name(k)
  <2>1. free + j - 1 = free + k - 1
    <3> HIDE DEF name
    <3>1. \A m \in 1..n : name(m).card = free + m - 1
      <4> TAKE m \in 1..n
      <4>1. name(m) = [card |-> free + m - 1, nth |-> name(m).nth]
        BY <1>4
      <4> QED
        BY <4>1
    <3> QED
      BY <3>1
  <2> QED
    BY <1>1, <2>1
<1> HIDE DEF name
<1>6. ASSUME NEW i \in DOMAIN t.sets
      PROVE  t.sets[i] = [name |-> t.sets[i].name, rules |-> t.sets[i].rules] /\ t.sets[i].name # Copies!NoName
  <2>1. CASE i \in DOMAIN pool
    BY <1>2, <1>3, <2>1 DEF SetRows
  <2>2. CASE i \notin DOMAIN pool
    <3>1. PICK k \in 1..n : \E rules : t.sets[i] = [name |-> name(k), rules |-> rules]
      BY <1>3, <2>2
    <3> QED
      BY <1>4, <3>1
  <2> QED
    BY <2>1, <2>2
<1>7. ASSUME NEW i \in DOMAIN t.sets, NEW j \in DOMAIN t.sets, i \notin DOMAIN pool,
             t.sets[i].name = t.sets[j].name
      PROVE  i = j
  <2>1. PICK k \in 1..n : i = free + n + most + k /\ t.sets[i].name = name(k)
    <3>1. PICK k \in 1..n : /\ i = free + n + most + k
                           /\ \E rules : t.sets[i] = [name |-> name(k), rules |-> rules]
      BY <1>3, <1>7
    <3> QED
      BY <3>1
  <2>2. CASE j \in DOMAIN pool
    BY <1>3, <1>4, <1>7, <2>1, <2>2
  <2>3. CASE j \notin DOMAIN pool
    <3>1. PICK m \in 1..n : j = free + n + most + m /\ t.sets[j].name = name(m)
      <4>1. PICK m \in 1..n : /\ j = free + n + most + m
                             /\ \E rules : t.sets[j] = [name |-> name(m), rules |-> rules]
        BY <1>3, <2>3
      <4> QED
        BY <4>1
    <3> QED
      BY <1>5, <1>7, <2>1, <3>1
  <2> QED
    BY <2>2, <2>3
<1>8. ASSUME NEW i \in DOMAIN t.sets, NEW j \in DOMAIN t.sets, t.sets[i].name = t.sets[j].name
      PROVE  i = j
  BY <1>2, <1>3, <1>7, <1>8
<1> QED
  BY <1>6, <1>8 DEF Copies!NamesApart, t

-----------------------------------------------------------------------------
(***************************************************************************)
(* The invariant of a copy under way, stage by stage.  Undisturbed: no     *)
(* import meanwhile; then no card that read a rule set loses it.  Seen     *)
(* once: nobody changed how the session looks; then what was read is what  *)
(* its form shows.                                                         *)
(***************************************************************************)
Undisturbed(of) == \A v \in of : ~v.rebuilt

\* Of a row of a settings file and of the card it was read from.
RowOf(r, d, pool) ==
    /\ r.name = d.name /\ r.label = d.label /\ r.brk = d.brk
    /\ r.fields = d.fields /\ r.sort = d.sort /\ r.sort \in 0..r.fields
    /\ r.set = Copies!NoName => d.rules = "all"
    /\ r.set # Copies!NoName => \E m \in pool : m.name = r.set /\ m.rules = d.rules

RowsOf(cards, form) ==
    /\ DOMAIN cards = DOMAIN form.cards
    /\ \A k \in DOMAIN cards : RowOf(cards[k], form.cards[k], form.pool)
    /\ \A j, k \in DOMAIN cards :
          j # k /\ cards[j].set # Copies!NoName => cards[j].set # cards[k].set

ShapeOf(h, cards, place) ==
    /\ h.number = place /\ place \in DOMAIN cards \cup {0}
    /\ h.label = IF place = 0 THEN Copies!NoLabel ELSE cards[place].label

FileOf(f, form) ==
    /\ FormRecord(form) /\ RowsOf(f.cards, form) /\ f.sets = form.pool
    /\ DOMAIN f.shapes = DOMAIN form.shapes
    /\ \A n \in DOMAIN f.shapes : ShapeOf(f.shapes[n], f.cards, form.shapes[n])

\* What the export holds before it reads the fields and the rule sets.
ReadOf(order, cards, form) ==
    /\ DOMAIN order = DOMAIN form.cards
    /\ \A k \in DOMAIN order :
          LET c == cards[order[k]]
          IN  /\ order[k] \in DOMAIN here.inst /\ SameCard(c, here.inst[order[k]])
              /\ c.set \in DOMAIN here.sets \cup {0}
              /\ form.cards[k] = Copies!PortableCard(c, Copies!RulesOf(here.sets, c.set))
    /\ \A j, k \in DOMAIN order :
          j # k /\ cards[order[j]].set # 0 => cards[order[j]].set # cards[order[k]].set

\* No card is without the rule set it had.
PinsKept(order, cards) ==
    \A k \in DOMAIN order :
        LET c == cards[order[k]]
        IN  c.set \in DOMAIN here.sets \/ Copies!SeenWith(seen, c.name, "all")

RowsKept(cards, pool, of) ==
    \A k \in DOMAIN cards :
        IF cards[k].set = Copies!NoName THEN Copies!SeenWith(of, cards[k].name, "all")
        ELSE \E m \in pool : m.name = cards[k].set

OneName(pool) == \A m, o \in pool : m.name = o.name => m = o

Stage ==
    /\ copier.at = "named" =>
          /\ Undisturbed(seen) => PinsKept(copier.order, copier.inst)
          /\ \A v \in seen : seen = {v} => ReadOf(copier.order, copier.inst, v.form)
    /\ copier.at = "pooled" =>
          /\ Undisturbed(seen) => RowsKept(copier.cards, Copies!Range(here.sets), seen)
          /\ \A v \in seen : seen = {v} => RowsOf(copier.cards, v.form)
    /\ copier.at = "shaped" =>
          /\ SetRows(copier.sets) /\ OneName(copier.sets)
          /\ Undisturbed(seen) => RowsKept(copier.cards, copier.sets, seen)
          /\ \A v \in seen : seen = {v} => RowsOf(copier.cards, v.form) /\ copier.sets = v.form.pool
    /\ copier.at = "carded" =>
          \A v \in seen : seen = {v} => SameSets(copier.sets, here.sets)
    /\ copier.at = "scoped" =>
          \A v \in seen : seen = {v} =>
             v.form = Copies!Form([inst |-> copier.cards, sets |-> copier.sets, shapes |-> here.shapes])

SeenNow ==
    copier # Copies!Idle =>
        /\ \E v \in seen : ~v.rebuilt
        /\ \E v \in seen : v.form = Copies!Form(here)

FileKept ==
    file # Copies!Nothing =>
        /\ SetRows(file.sets)
        /\ file.of # {} /\ Undisturbed(file.of) =>
              OneName(file.sets) /\ RowsKept(file.cards, file.sets, file.of)
        /\ \A v \in file.of : file.of = {v} => FileOf(file, v.form)

FaithInv ==
    /\ Copies!NamesApart(here) /\ SeenNow /\ Stage /\ FileKept
    /\ Copies!QuietCopiesAreExact

LEMMA RowsKeptUnder ==
  ASSUME NEW cards, NEW pool, NEW more, \A m \in pool : \E o \in more : o.name = m.name,
         NEW of, NEW later, of \subseteq later, RowsKept(cards, pool, of)
  PROVE  RowsKept(cards, more, later)
BY DEF RowsKept, Copies!SeenWith

(* Nothing moves.                                                          *)
LEMMA StillFaithful ==
  ASSUME FaithInv, UNCHANGED <<here, copier, seen, file, made>>
  PROVE  FaithInv'
BY DEF FaithInv, SeenNow, Stage, FileKept, PinsKept, ReadOf, Copies!QuietCopiesAreExact,
       Copies!NamesApart, Undisturbed

LEMMA FileStays ==
  ASSUME FaithInv, UNCHANGED <<file, made>>
  PROVE  FileKept' /\ Copies!QuietCopiesAreExact'
BY DEF FaithInv, FileKept, Copies!QuietCopiesAreExact

(* An operator's edit.                                                     *)
LEMMA SightingIs ==
  ASSUME NEW s, NEW rebuilt
  PROVE  /\ Copies!Sighting(s, rebuilt).form = Copies!Form(s)
         /\ Copies!Sighting(s, rebuilt).rebuilt = rebuilt
BY DEF Copies!Sighting

LEMMA EditFaithful ==
  ASSUME FaithInv, Looks(here, here'), UNCHANGED <<copier, file, made>>,
         seen' = IF copier = Copies!Idle THEN seen ELSE seen \cup {Copies!Sighting(here', FALSE)}
  PROVE  FaithInv'
<1>1. Copies!NamesApart(here)' /\ SetsStay(here, here')
  BY DEF Looks, Copies!NamesApart
<1>2. FileKept' /\ Copies!QuietCopiesAreExact'
  BY FileStays
<1>3. CASE copier = Copies!Idle
  <2>1. copier'.at = "idle"
    BY <1>3 DEF Copies!Idle
  <2> QED
    BY <1>1, <1>2, <1>3, <2>1 DEF FaithInv, Stage, SeenNow
<1>4. CASE copier # Copies!Idle
  <2> DEFINE last == Copies!Sighting(here', FALSE)
  <2>1. seen' = seen \cup {last} /\ last.form = Copies!Form(here') /\ last.rebuilt = FALSE
    BY <1>4, SightingIs
  <2>2. /\ \E v \in seen : ~v.rebuilt
        /\ \E v \in seen : v.form = Copies!Form(here)
    BY <1>4 DEF FaithInv, SeenNow
  <2> HIDE DEF last
  <2>3. Undisturbed(seen') => Undisturbed(seen)
    BY <2>1 DEF Undisturbed
  <2>4. ASSUME NEW v \in seen', seen' = {v}
        PROVE  /\ seen = {v} /\ v.form = Copies!Form(here) /\ SameSets(here.sets, here'.sets)
               /\ here'.shapes = here.shapes /\ CardsAlike(here.inst, here'.inst)
    <3>1. seen = {v} /\ v = last
      BY <2>1, <2>2, <2>4
    <3>2. v.form = Copies!Form(here) /\ v.form = Copies!Form(here')
      BY <2>1, <2>2, <3>1
    <3> QED
      BY <3>1, <3>2 DEF Looks
  <2>5. SeenNow'
    <3>1. Copies!Form(here)' = Copies!Form(here')
      BY DEF Copies!Form, Copies!Sorted, Copies!Before, Copies!Place, Copies!RulesOf, Copies!PortableCard
    <3> QED
      BY <2>1, <2>2, <3>1 DEF SeenNow
  <2>6. ASSUME copier'.at = "named"
        PROVE  /\ Undisturbed(seen') => PinsKept(copier.order, copier.inst)'
               /\ \A v \in seen' : seen' = {v} => ReadOf(copier.order, copier.inst, v.form)'
    <3>1. copier.at = "named"
      BY <2>6
    <3>2. Undisturbed(seen') => PinsKept(copier.order, copier.inst)'
      <4> SUFFICES ASSUME Undisturbed(seen'), NEW k \in DOMAIN copier.order
                   PROVE  LET c == copier.inst[copier.order[k]]
                          IN  c.set \in DOMAIN here'.sets \/ Copies!SeenWith(seen', c.name, "all")
        BY DEF PinsKept
      <4>1. PinsKept(copier.order, copier.inst)
        BY <2>3, <3>1 DEF FaithInv, Stage
      <4> QED
        BY <1>1, <2>1, <4>1 DEF PinsKept, SetsStay, Copies!SeenWith
    <3>3. ASSUME NEW v \in seen', seen' = {v} PROVE ReadOf(copier.order, copier.inst, v.form)'
      <4>1. ReadOf(copier.order, copier.inst, v.form)
        BY <2>4, <3>1, <3>3 DEF FaithInv, Stage
      <4>2. SameSets(here.sets, here'.sets) /\ CardsAlike(here.inst, here'.inst)
        BY <2>4, <3>3
      <4>3. \A id : Copies!RulesOf(here'.sets, id) = Copies!RulesOf(here.sets, id)
        BY <4>2 DEF SameSets, Copies!RulesOf
      <4> QED
        BY <4>1, <4>2, <4>3 DEF ReadOf, CardsAlike, SameCard, SameSets
    <3> QED
      BY <3>2, <3>3
  <2>7. ASSUME copier'.at = "pooled"
        PROVE  /\ Undisturbed(seen') => RowsKept(copier.cards, Copies!Range(here.sets), seen)'
               /\ \A v \in seen' : seen' = {v} => RowsOf(copier.cards, v.form)'
    <3>1. \A m \in Copies!Range(here.sets) : \E o \in Copies!Range(here'.sets) : o.name = m.name
      BY <1>1 DEF SetsStay, Copies!Range
    <3>2. Undisturbed(seen') => RowsKept(copier.cards, Copies!Range(here.sets), seen)
      BY <2>3, <2>7 DEF FaithInv, Stage
    <3>3. Undisturbed(seen') => RowsKept(copier.cards, Copies!Range(here'.sets), seen')
      BY <2>1, <3>1, <3>2, RowsKeptUnder
    <3>4. \A v \in seen' : seen' = {v} => RowsOf(copier.cards, v.form)
      BY <2>4, <2>7 DEF FaithInv, Stage
    <3> QED
      BY <3>3, <3>4
  <2>8. ASSUME copier'.at = "shaped"
        PROVE  /\ SetRows(copier.sets) /\ OneName(copier.sets)
               /\ Undisturbed(seen') => RowsKept(copier.cards, copier.sets, seen')
               /\ \A v \in seen' : seen' = {v} => RowsOf(copier.cards, v.form) /\ copier.sets = v.form.pool
    <3>1. /\ SetRows(copier.sets) /\ OneName(copier.sets)
          /\ Undisturbed(seen) => RowsKept(copier.cards, copier.sets, seen)
          /\ \A v \in seen : seen = {v} => RowsOf(copier.cards, v.form) /\ copier.sets = v.form.pool
      BY <2>8 DEF FaithInv, Stage
    <3>2. Undisturbed(seen') => RowsKept(copier.cards, copier.sets, seen')
      BY <2>1, <2>3, <3>1, RowsKeptUnder
    <3> QED
      BY <2>4, <3>1, <3>2
  <2>9. ASSUME copier'.at = "carded"
        PROVE  \A v \in seen' : seen' = {v} => SameSets(copier.sets, here'.sets)
    BY <2>4, <2>9 DEF FaithInv, Stage, SameSets
  <2>10. ASSUME copier'.at = "scoped"
         PROVE  \A v \in seen' : seen' = {v} =>
                   v.form = Copies!Form([inst |-> copier.cards, sets |-> copier.sets, shapes |-> here'.shapes])
    BY <2>4, <2>10 DEF FaithInv, Stage
  <2>11. Stage'
    <3>1. Copies!Form([inst |-> copier.cards, sets |-> copier.sets, shapes |-> here.shapes])'
             = Copies!Form([inst |-> copier.cards, sets |-> copier.sets, shapes |-> here'.shapes])
      BY DEF Copies!Form, Copies!Sorted, Copies!Before, Copies!Place, Copies!RulesOf, Copies!PortableCard
    <3> QED
      BY <2>6, <2>7, <2>8, <2>9, <2>10, <3>1 DEF Stage
  <2> QED
    BY <1>1, <1>2, <2>5, <2>11 DEF FaithInv
<1> QED
  BY <1>3, <1>4

(* An import: names stay apart; a copy under way is of two sessions.       *)
LEMMA ImportFaithful ==
  ASSUME CopiesInv, FaithInv, NEW tick, Copies!Import(tick)
  PROVE  FaithInv'
<1>1. UNCHANGED <<copier, file, made>> /\ Copies!IsFile(file) /\ Copies!Acceptable(file)
      /\ file # Copies!Nothing
  BY DEF CopiesInv, Copies!TypeOK, Copies!Import, Copies!Submitted
<1>2. \/ UNCHANGED <<here, seen>>
      \/ /\ here' = Copies!Applied(here, file, next)
         /\ seen' = IF copier = Copies!Idle THEN seen ELSE seen \cup {Copies!Sighting(here', TRUE)}
  BY DEF Copies!Import, Copies!RefuseImport, Copies!SaveImport, Copies!Turns
<1>3. CASE UNCHANGED <<here, seen>>
  BY <1>1, <1>3, StillFaithful
<1>4. CASE /\ here' = Copies!Applied(here, file, next)
           /\ seen' = IF copier = Copies!Idle THEN seen ELSE seen \cup {Copies!Sighting(here', TRUE)}
  <2>1. Fits(here, next) /\ next \in Nat \ {0}
    BY InvFits
  <2>2. Copies!NamesApart(here') /\ SetRows(file.sets)
    BY <1>1, <1>4, <2>1, AppliedNamesApart DEF FaithInv, FileKept
  <2>3. FileKept' /\ Copies!QuietCopiesAreExact' /\ Copies!NamesApart(here)'
    BY <1>1, <2>2, FileStays DEF Copies!NamesApart
  <2>4. CASE copier = Copies!Idle
    <3>1. copier'.at = "idle" /\ copier' = Copies!Idle
      BY <1>1, <2>4 DEF Copies!Idle
    <3> QED
      BY <2>3, <3>1 DEF FaithInv, Stage, SeenNow
  <2>5. CASE copier # Copies!Idle
    <3> DEFINE last == Copies!Sighting(here', TRUE)
    <3>1. seen' = seen \cup {last} /\ last.form = Copies!Form(here') /\ last.rebuilt = TRUE
      BY <1>4, <2>5, SightingIs
    <3>2. PICK v \in seen : ~v.rebuilt
      BY <2>5 DEF FaithInv, SeenNow
    <3> HIDE DEF last
    <3>3. ~Undisturbed(seen') /\ \A w \in seen' : seen' # {w}
      BY <3>1, <3>2 DEF Undisturbed
    <3>4. Copies!Form(here)' = Copies!Form(here')
      BY DEF Copies!Form, Copies!Sorted, Copies!Before, Copies!Place, Copies!RulesOf, Copies!PortableCard
    <3>5. SeenNow'
      BY <3>1, <3>2, <3>4 DEF SeenNow
    <3>6. copier'.at = "shaped" => SetRows(copier'.sets) /\ OneName(copier'.sets)
      BY <1>1 DEF FaithInv, Stage
    <3>7. Stage'
      <4>1. ~Undisturbed(seen)'
        BY <3>3 DEF Undisturbed
      <4> QED
        BY <3>3, <3>6, <4>1 DEF Stage, SetRows, OneName
    <3> QED
      BY <2>3, <3>5, <3>7 DEF FaithInv
  <2> QED
    BY <2>4, <2>5
<1> QED
  BY <1>2, <1>3, <1>4

(* The file edited by hand is no export any more.                          *)
LEMMA HandEditFaithful ==
  ASSUME CopiesInv, FaithInv, Copies!HandEdit
  PROVE  FaithInv'
<1>1. PICK f \in Copies!HandEdits(file) : file' = [f EXCEPT !.of = {}]
  BY DEF Copies!HandEdit
<1>2. /\ file = [cards |-> file.cards, sets |-> file.sets, of |-> file.of, shapes |-> file.shapes]
      /\ SetRows(file.sets) /\ UNCHANGED <<here, copier, seen, made>>
  BY DEF CopiesInv, Copies!TypeOK, Copies!HandEdit, Copies!IsFile, FaithInv, FileKept
<1>3. \/ \E k \in DOMAIN file.cards : f = [file EXCEPT !.cards = Copies!RemoveAt(file.cards, k)]
      \/ \E j, k \in DOMAIN file.cards : f = [file EXCEPT !.cards[k].set = file.cards[j].set]
      \/ \E m \in file.sets : f = [file EXCEPT !.sets = @ \ {m}]
  BY DEF Copies!HandEdits
<1>4. PICK cards, sets : f = [cards |-> cards, sets |-> sets, of |-> file.of, shapes |-> file.shapes]
                         /\ sets \subseteq file.sets
  BY <1>2, <1>3
<1>5. file'.of = {} /\ file'.sets \subseteq file.sets
  BY <1>1, <1>4
<1>6. FileKept'
  BY <1>2, <1>5 DEF FileKept, SetRows
<1>7. FaithInv' <=> FileKept' /\ (Copies!NamesApart(here) /\ SeenNow /\ Stage /\ Copies!QuietCopiesAreExact)'
  BY DEF FaithInv
<1> QED
  BY <1>2, <1>6, <1>7 DEF FaithInv, SeenNow, Stage, PinsKept, ReadOf, Copies!QuietCopiesAreExact,
       Copies!NamesApart, Undisturbed

(* A copier begins.                                                        *)
LEMMA BeginFaithful ==
  ASSUME CopiesInv, FaithInv, NEW at \in {"export", "clone"}, Copies!Begin(at)
  PROVE  FaithInv'
<1>1. /\ UNCHANGED <<here, file, made>> /\ copier' = [at |-> at]
      /\ seen' = {Copies!Sighting(here, FALSE)}
  BY DEF Copies!Begin
<1>2. copier'.at = at
  BY <1>1
<1>3. FileKept' /\ Copies!QuietCopiesAreExact'
  BY <1>1, FileStays
<1>4. SeenNow'
  <2>1. Copies!Sighting(here, FALSE) \in seen'
    BY <1>1
  <2> QED
    BY <1>1, <2>1, SightingIs DEF SeenNow
<1>5. Stage'
  BY <1>2 DEF Stage
<1>6. Copies!NamesApart(here)'
  BY <1>1 DEF FaithInv
<1> QED
  BY <1>3, <1>4, <1>5, <1>6 DEF FaithInv

(* The statements that read: nothing moves but the copier.                 *)
LEMMA ReadsFaithful ==
  ASSUME FaithInv, NEW at, NEW got, Copies!Reads(at, got), at # "idle", Stage'
  PROVE  FaithInv'
<1>1. UNCHANGED <<here, seen, file, made>> /\ copier.at = at
  BY DEF Copies!Reads
<1>2. FileKept' /\ Copies!QuietCopiesAreExact' /\ Copies!NamesApart(here)'
  BY <1>1, FileStays DEF FaithInv, Copies!NamesApart
<1>3. copier # Copies!Idle
  BY <1>1 DEF Copies!Idle
<1>4. SeenNow'
  BY <1>1, <1>3 DEF FaithInv, SeenNow
<1> QED
  BY <1>2, <1>4 DEF FaithInv

LEMMA SeenForm ==
  ASSUME FaithInv, copier.at # "idle"
  PROVE  /\ \E v \in seen : v.form = Copies!Form(here)
         /\ \A v \in seen : seen = {v} => v.form = Copies!Form(here)
BY DEF FaithInv, SeenNow, Copies!Idle

LEMMA ExportCardsFaithful ==
  ASSUME CopiesInv, FaithInv, Copies!ExportCards
  PROVE  FaithInv'
<1> DEFINE order == Copies!Sorted(here)
           form == Copies!Form(here)
<1>1. Fits(here, next) /\ next \in Nat \ {0}
  BY InvFits
<1>2. /\ UNCHANGED <<here, seen>> /\ copier.at = "export"
      /\ copier' = [at |-> "named", order |-> order, inst |-> here.inst]
      /\ Copies!Reads("export", copier')
  BY DEF Copies!ExportCards, Copies!Reads
<1>3. /\ \A k \in DOMAIN order : order[k] \in DOMAIN here.inst
      /\ \A j, k \in DOMAIN order : order[j] = order[k] => j = k
  BY <1>1, SortedCards
<1>4. DOMAIN form.cards = DOMAIN order /\ \A k \in DOMAIN order : form.cards[k] = Shown(here, order[k])
  BY FormIs
<1>5. copier'.at = "named" /\ copier'.order = order /\ copier'.inst = here.inst
  BY <1>2
<1> HIDE DEF order, form
<1>6. ASSUME NEW k \in DOMAIN order
      PROVE  LET c == here.inst[order[k]]
             IN  c.set \in DOMAIN here.sets \/ Copies!SeenWith(seen, c.name, "all")
  <2>1. PICK v \in seen : v.form = form
    BY <1>2, SeenForm DEF form
  <2>2. form.cards[k] \in Copies!Range(v.form.cards)
    BY <1>4, <2>1 DEF Copies!Range
  <2>3. /\ form.cards[k].name = here.inst[order[k]].name
        /\ here.inst[order[k]].set \notin DOMAIN here.sets => form.cards[k].rules = "all"
    BY <1>4, ShownIs DEF Copies!RulesOf
  <2> QED
    BY <2>2, <2>3 DEF Copies!SeenWith
<1>7. ReadOf(order, here.inst, form)
  <2>1. \A k \in DOMAIN order : /\ SameCard(here.inst[order[k]], here.inst[order[k]])
                                /\ here.inst[order[k]].set \in DOMAIN here.sets \cup {0}
    BY <1>1, <1>3, FitsIs DEF SameCard
  <2>2. \A j, k \in DOMAIN order : j # k /\ here.inst[order[j]].set # 0
                                   => here.inst[order[j]].set # here.inst[order[k]].set
    BY <1>1, <1>3, FitsIs
  <2> QED
    BY <1>3, <1>4, <2>1, <2>2 DEF ReadOf, Shown
<1>8. \A v \in seen : seen = {v} => ReadOf(order, here.inst, v.form)
  BY <1>2, <1>7, SeenForm DEF form
<1>9. Stage'
  <2>1. PinsKept(copier.order, copier.inst)'
    BY <1>2, <1>5, <1>6 DEF PinsKept, Copies!SeenWith
  <2>2. \A v \in seen' : seen' = {v} => ReadOf(copier.order, copier.inst, v.form)'
    BY <1>2, <1>5, <1>8 DEF ReadOf
  <2> QED
    BY <1>5, <2>1, <2>2 DEF Stage
<1> QED
  BY <1>2, <1>9, ReadsFaithful

LEMMA ExportNamesFaithful ==
  ASSUME CopiesInv, FaithInv, Copies!ExportNames
  PROVE  FaithInv'
<1> DEFINE order == copier.order
           fields(i) == IF i \in DOMAIN here.inst THEN here.inst[i].fields ELSE << >>
           row(i) == LET c == copier.inst[i] IN
               [name |-> c.name, label |-> c.label, brk |-> c.brk,
                set |-> IF c.set \in DOMAIN here.sets THEN here.sets[c.set].name ELSE Copies!NoName,
                fields |-> Len(fields(i)), sort |-> Copies!Place(fields(i), c.sort)]
           cards == [k \in DOMAIN order |-> row(order[k])]
           read(k) == copier.inst[order[k]]
           pool == Copies!Range(here.sets)
<1>1. /\ Fits(here, next) /\ next \in Nat \ {0} /\ Copies!NamesApart(here)
      /\ \A m \in DOMAIN here.sets : here.sets[m] \in pool
  BY InvFits DEF FaithInv, Copies!Range
<1>2. /\ UNCHANGED <<here, seen>> /\ copier.at = "named"
      /\ copier' = [at |-> "pooled", cards |-> cards] /\ Copies!Reads("named", copier')
  BY DEF Copies!ExportNames, Copies!Reads
<1>3. copier'.at = "pooled" /\ copier'.cards = cards /\ DOMAIN cards = DOMAIN order
  BY <1>2
<1>4. \A k \in DOMAIN order :
         /\ cards[k].name = read(k).name /\ cards[k].label = read(k).label /\ cards[k].brk = read(k).brk
         /\ read(k).set \in DOMAIN here.sets => cards[k].set = here.sets[read(k).set].name
         /\ read(k).set \notin DOMAIN here.sets => cards[k].set = Copies!NoName
         /\ cards[k].fields = Len(fields(order[k]))
         /\ cards[k].sort = Copies!Place(fields(order[k]), read(k).sort)
  <2> HIDE DEF fields
  <2> QED
    OBVIOUS
<1> HIDE DEF cards, pool, read
<1>5. ASSUME Undisturbed(seen) PROVE RowsKept(cards, pool, seen)
  <2>1. PinsKept(order, copier.inst)
    BY <1>2, <1>5 DEF FaithInv, Stage
  <2>2. ASSUME NEW k \in DOMAIN cards
        PROVE  IF cards[k].set = Copies!NoName THEN Copies!SeenWith(seen, cards[k].name, "all")
               ELSE \E m \in pool : m.name = cards[k].set
    <3>1. CASE read(k).set \in DOMAIN here.sets
      <4>1. cards[k].set = here.sets[read(k).set].name /\ cards[k].set # Copies!NoName
        BY <1>1, <1>3, <1>4, <2>2, <3>1 DEF Copies!NamesApart
      <4> QED
        BY <1>1, <3>1, <4>1
    <3>2. CASE read(k).set \notin DOMAIN here.sets
      <4>1. cards[k].set = Copies!NoName /\ cards[k].name = read(k).name
        BY <1>3, <1>4, <2>2, <3>2
      <4>2. Copies!SeenWith(seen, read(k).name, "all")
        BY <1>3, <2>1, <2>2, <3>2 DEF PinsKept, read
      <4> QED
        BY <4>1, <4>2
    <3> QED
      BY <3>1, <3>2
  <2> QED
    BY <2>2 DEF RowsKept
<1>6. ASSUME NEW v \in seen, seen = {v} PROVE RowsOf(cards, v.form)
  <2> DEFINE form == v.form
  <2>1. ReadOf(order, copier.inst, form) /\ form = Copies!Form(here)
    BY <1>2, <1>6, SeenForm DEF FaithInv, Stage
  <2>2. form.pool = pool
    BY <2>1, FormIs DEF pool
  <2> HIDE DEF form
  <2>3. /\ DOMAIN order = DOMAIN form.cards
        /\ \A k \in DOMAIN order :
              /\ order[k] \in DOMAIN here.inst /\ SameCard(read(k), here.inst[order[k]])
              /\ read(k).set \in DOMAIN here.sets \cup {0}
              /\ form.cards[k] = Copies!PortableCard(read(k), Copies!RulesOf(here.sets, read(k).set))
        /\ \A j, k \in DOMAIN order : j # k /\ read(j).set # 0 => read(j).set # read(k).set
    BY <2>1 DEF ReadOf, read
  <2>4. ASSUME NEW k \in DOMAIN order PROVE RowOf(cards[k], form.cards[k], pool)
    <3> DEFINE d == form.cards[k]
               now == here.inst[order[k]]
    <3>1. /\ d.name = read(k).name /\ d.label = read(k).label /\ d.brk = read(k).brk
          /\ d.rules = Copies!RulesOf(here.sets, read(k).set)
          /\ d.fields = Len(read(k).fields) /\ d.sort = Copies!Place(read(k).fields, read(k).sort)
      <4> DEFINE c == read(k)
                 rules == Copies!RulesOf(here.sets, c.set)
      <4>1. d = Copies!PortableCard(c, rules)
        BY <2>3, <2>4
      <4> HIDE DEF c, d, rules
      <4>2. /\ d.name = c.name /\ d.label = c.label /\ d.brk = c.brk /\ d.rules = rules
            /\ d.fields = Len(c.fields) /\ d.sort = Copies!Place(c.fields, c.sort)
        BY <4>1 DEF Copies!PortableCard
      <4> QED
        BY <4>2 DEF c, rules
    <3>2. fields(order[k]) = now.fields /\ SameCard(read(k), now) /\ now.fields \in Seq(Copies!Refs)
      BY <1>1, <2>3, <2>4, FitsIs, CardFields
    <3>3. d.fields = Len(now.fields) /\ d.sort = Copies!Place(now.fields, read(k).sort)
      BY <3>1, <3>2 DEF SameCard
    <3> HIDE DEF d, now, fields
    <3>4. d.sort \in 0..d.fields
      <4>1. d.sort \in DOMAIN now.fields \cup {0}
        BY <3>3, PlaceIs
      <4>2. DOMAIN now.fields = 1..Len(now.fields) /\ Len(now.fields) \in Nat
        BY <3>2
      <4> QED
        BY <3>3, <4>1, <4>2
    <3>5. /\ cards[k].name = d.name /\ cards[k].label = d.label /\ cards[k].brk = d.brk
          /\ cards[k].fields = d.fields /\ cards[k].sort = d.sort
      BY <1>4, <2>4, <3>1, <3>2, <3>3
    <3>6. CASE read(k).set \in DOMAIN here.sets
      <4>1. cards[k].set = here.sets[read(k).set].name /\ cards[k].set # Copies!NoName
        <5>1. cards[k].set = here.sets[read(k).set].name
          BY <1>4, <2>4, <3>6
        <5>2. here.sets[read(k).set].name # Copies!NoName
          BY <1>1, <3>6 DEF Copies!NamesApart
        <5> QED
          BY <5>1, <5>2
      <4>2. d.rules = here.sets[read(k).set].rules /\ here.sets[read(k).set] \in pool
        BY <1>1, <3>1, <3>6 DEF Copies!RulesOf
      <4> QED
        BY <3>4, <3>5, <4>1, <4>2 DEF RowOf, d
    <3>7. CASE read(k).set \notin DOMAIN here.sets
      <4>1. cards[k].set = Copies!NoName /\ d.rules = "all"
        BY <1>4, <2>4, <3>1, <3>7 DEF Copies!RulesOf
      <4> QED
        BY <3>4, <3>5, <4>1 DEF RowOf, d
    <3> QED
      BY <3>6, <3>7
  <2>5. ASSUME NEW j \in DOMAIN order, NEW k \in DOMAIN order, j # k, cards[j].set # Copies!NoName,
               cards[j].set = cards[k].set
        PROVE  FALSE
    <3>1. read(j).set \in DOMAIN here.sets /\ read(k).set \in DOMAIN here.sets
      BY <1>4, <2>5
    <3>2. here.sets[read(j).set].name = here.sets[read(k).set].name
      BY <1>4, <2>5, <3>1
    <3>3. read(j).set = read(k).set
      BY <1>1, <3>1, <3>2 DEF Copies!NamesApart
    <3>4. read(j).set # 0
      BY <1>1, <3>1, FitsIs
    <3> QED
      BY <2>3, <2>5, <3>3, <3>4
  <2> QED
    BY <1>3, <2>2, <2>3, <2>4, <2>5 DEF RowsOf, form
<1>7. Stage'
  <2>1. Undisturbed(seen)' => RowsKept(copier.cards, Copies!Range(here.sets), seen)'
    BY <1>2, <1>3, <1>5 DEF pool, Undisturbed
  <2>2. \A v \in seen' : seen' = {v} => RowsOf(copier.cards, v.form)'
    BY <1>2, <1>3, <1>6
  <2> QED
    BY <1>3, <2>1, <2>2 DEF Stage
<1> QED
  BY <1>2, <1>7, ReadsFaithful

LEMMA ExportSetsFaithful ==
  ASSUME CopiesInv, FaithInv, Copies!ExportSets
  PROVE  FaithInv'
<1> DEFINE pool == Copies!Range(here.sets)
<1>1. /\ UNCHANGED <<here, seen>> /\ copier.at = "pooled"
      /\ copier' = [at |-> "shaped", cards |-> copier.cards, sets |-> pool]
      /\ Copies!Reads("pooled", copier')
  BY DEF Copies!ExportSets, Copies!Reads
<1>2. copier'.at = "shaped" /\ copier'.cards = copier.cards /\ copier'.sets = pool
  BY <1>1
<1>3. SetRows(pool) /\ OneName(pool)
  <2>1. \A m \in pool : \E i \in DOMAIN here.sets : m = here.sets[i]
    BY DEF Copies!Range
  <2>2. /\ \A i, j \in DOMAIN here.sets : here.sets[i].name = here.sets[j].name => i = j
        /\ \A i \in DOMAIN here.sets :
              /\ here.sets[i] = [name |-> here.sets[i].name, rules |-> here.sets[i].rules]
              /\ here.sets[i].name # Copies!NoName
    BY DEF FaithInv, Copies!NamesApart
  <2> HIDE DEF pool
  <2>3. SetRows(pool)
    <3> SUFFICES ASSUME NEW m \in pool
                 PROVE  m = [name |-> m.name, rules |-> m.rules] /\ m.name # Copies!NoName
      BY DEF SetRows
    <3>1. PICK i \in DOMAIN here.sets : m = here.sets[i]
      BY <2>1
    <3> QED
      BY <2>2, <3>1
  <2>4. OneName(pool)
    <3> SUFFICES ASSUME NEW m \in pool, NEW n \in pool, m.name = n.name
                 PROVE  m = n
      BY DEF OneName
    <3>1. PICK i \in DOMAIN here.sets : m = here.sets[i]
      BY <2>1
    <3>2. PICK j \in DOMAIN here.sets : n = here.sets[j]
      BY <2>1
    <3>3. i = j
      BY <2>2, <3>1, <3>2
    <3> QED
      BY <3>1, <3>2, <3>3
  <2> QED
    BY <2>3, <2>4
<1>4. /\ Undisturbed(seen) => RowsKept(copier.cards, pool, seen)
      /\ \A v \in seen : seen = {v} => RowsOf(copier.cards, v.form)
  BY <1>1 DEF FaithInv, Stage
<1>5. \A v \in seen : seen = {v} => pool = v.form.pool
  <2>1. Copies!Form(here).pool = pool
    BY FormIs
  <2>2. copier.at # "idle"
    BY <1>1
  <2> HIDE DEF pool
  <2> QED
    BY <2>1, <2>2, SeenForm
<1> HIDE DEF pool
<1>6. Stage'
  BY <1>1, <1>2, <1>3, <1>4, <1>5 DEF Stage, SetRows, OneName, Undisturbed
<1> QED
  BY <1>1, <1>6, ReadsFaithful

LEMMA ExportShapesFaithful ==
  ASSUME CopiesInv, FaithInv, Copies!ExportShapes
  PROVE  FaithInv'
<1> DEFINE order == Copies!Sorted(here)
           label(i) == IF i = Copies!None THEN Copies!NoLabel ELSE here.inst[i].label
           shape(n) == [label |-> label(here.shapes[n]),
                        number |-> Copies!Place(order, here.shapes[n])]
           shapes == [n \in DOMAIN here.shapes |-> shape(n)]
<1>1. Fits(here, next) /\ next \in Nat \ {0}
  BY InvFits
<1>2. /\ UNCHANGED <<here, made>> /\ copier.at = "shaped" /\ copier' = Copies!Idle
      /\ file' = [cards |-> copier.cards, sets |-> copier.sets, of |-> seen, shapes |-> shapes]
  BY DEF Copies!ExportShapes
<1>3. /\ SetRows(copier.sets) /\ OneName(copier.sets)
      /\ Undisturbed(seen) => RowsKept(copier.cards, copier.sets, seen)
      /\ \A v \in seen : seen = {v} => RowsOf(copier.cards, v.form) /\ copier.sets = v.form.pool
  BY <1>2 DEF FaithInv, Stage
<1>4. /\ DOMAIN shapes = DOMAIN here.shapes
      /\ \A n \in DOMAIN here.shapes : /\ shapes[n].label = label(here.shapes[n])
                                       /\ shapes[n].number = Copies!Place(order, here.shapes[n])
  BY DEF shapes
<1>5. /\ Copies!Range(order) = DOMAIN here.inst /\ 0 \notin DOMAIN here.inst
      /\ \A n \in DOMAIN here.shapes : here.shapes[n] \in DOMAIN here.inst \cup {0}
  BY <1>1, SortedCards, FitsIs DEF Copies!Range
<1> HIDE DEF shapes
<1>6. ASSUME NEW v \in seen, seen = {v} PROVE FileOf(file', v.form)
  <2> DEFINE form == v.form
             cards == copier.cards
  <2>1. form = Copies!Form(here) /\ RowsOf(cards, form) /\ copier.sets = form.pool
    BY <1>2, <1>3, <1>6, SeenForm
  <2>2. /\ DOMAIN form.cards = DOMAIN order
        /\ \A k \in DOMAIN order : form.cards[k] = Shown(here, order[k])
        /\ form.shapes = [n \in DOMAIN here.shapes |-> Copies!Place(order, here.shapes[n])]
    <3> DEFINE now == Copies!Form(here)
    <3>1. /\ now.cards = [k \in DOMAIN order |-> Shown(here, order[k])]
          /\ now.shapes = [n \in DOMAIN here.shapes |-> Copies!Place(order, here.shapes[n])]
      BY FormIs
    <3>2. form = now
      BY <2>1
    <3> HIDE DEF now, form, order
    <3> QED
      BY <3>1, <3>2
  <2> HIDE DEF form, order
  <2>3. DOMAIN cards = DOMAIN order /\ \A k \in DOMAIN order : cards[k].label = here.inst[order[k]].label
    BY <2>1, <2>2, ShownIs DEF RowsOf, RowOf
  <2>4. ASSUME NEW n \in DOMAIN here.shapes
        PROVE  ShapeOf(shapes[n], cards, form.shapes[n])
    <3> DEFINE x == here.shapes[n]
               place == Copies!Place(order, x)
    <3>1. form.shapes[n] = place /\ shapes[n].number = place /\ shapes[n].label = label(x)
      BY <1>4, <2>2 DEF label
    <3>2. CASE x = 0
      <4>1. place = 0 /\ label(x) = Copies!NoLabel
        BY <1>5, <3>2, PlaceIs DEF Copies!None
      <4> QED
        BY <3>1, <4>1 DEF ShapeOf
    <3>3. CASE x # 0
      <4>1. place \in DOMAIN order /\ order[place] = x
        BY <1>5, <3>3, PlaceIs
      <4>2. label(x) = cards[place].label
        BY <2>3, <3>3, <4>1 DEF Copies!None
      <4>3. place # 0
        <5>1. DOMAIN order \subseteq Nat \ {0}
          BY <1>1, SortedCards DEF order
        <5> QED
          BY <4>1, <5>1
      <4> HIDE DEF place, label
      <4> QED
        BY <2>3, <3>1, <4>1, <4>2, <4>3 DEF ShapeOf
    <3> QED
      BY <3>2, <3>3
  <2>5. FormRecord(v.form)
    BY <2>1, FormIsForm DEF form
  <2> QED
    BY <1>2, <1>4, <2>1, <2>2, <2>4, <2>5 DEF FileOf, form
<1>7. file'.cards = copier.cards /\ file'.sets = copier.sets /\ file'.of = seen
  BY <1>2
<1>8. FileKept'
  BY <1>3, <1>6, <1>7 DEF FileKept, Undisturbed
<1>9. /\ Copies!QuietCopiesAreExact' /\ Copies!NamesApart(here)'
  BY <1>2 DEF FaithInv, Copies!QuietCopiesAreExact, Copies!NamesApart
<1>10. SeenNow' /\ Stage'
  BY <1>2 DEF SeenNow, Stage, Copies!Idle
<1> QED
  BY <1>8, <1>9, <1>10 DEF FaithInv

\* The form of rows read at two moments, when neither saw a change.
LEMMA FormOfSame ==
  ASSUME NEW s, NEW t, s.inst = t.inst, s.shapes = t.shapes, SameSets(s.sets, t.sets)
  PROVE  Copies!Form(s) = Copies!Form(t)
<1>1. Copies!Sorted(s) = Copies!Sorted(t)
  BY DEF Copies!Sorted, Copies!Before
<1>2. Copies!Range(s.sets) = Copies!Range(t.sets)
  BY DEF SameSets, Copies!Range
<1>3. \A id : Copies!RulesOf(s.sets, id) = Copies!RulesOf(t.sets, id)
  BY DEF SameSets, Copies!RulesOf
<1>4. \A i : Shown(s, i) = Shown(t, i)
  BY <1>3 DEF Shown
<1>5. /\ Copies!Form(s) = [cards |-> [k \in DOMAIN Copies!Sorted(s) |-> Shown(s, Copies!Sorted(s)[k])],
                          pool |-> Copies!Range(s.sets),
                          shapes |-> [n \in DOMAIN s.shapes |-> Copies!Place(Copies!Sorted(s), s.shapes[n])]]
      /\ Copies!Form(t) = [cards |-> [k \in DOMAIN Copies!Sorted(t) |-> Shown(t, Copies!Sorted(t)[k])],
                          pool |-> Copies!Range(t.sets),
                          shapes |-> [n \in DOMAIN t.shapes |-> Copies!Place(Copies!Sorted(t), t.shapes[n])]]
  BY FormIs
<1> QED
  BY <1>1, <1>2, <1>4, <1>5

LEMMA CloneSetsFaithful ==
  ASSUME CopiesInv, FaithInv, Copies!CloneSets
  PROVE  FaithInv'
<1>1. /\ UNCHANGED <<here, seen>> /\ copier' = [at |-> "carded", sets |-> here.sets]
      /\ Copies!Reads("clone", copier')
  BY DEF Copies!CloneSets, Copies!Reads
<1>2. copier'.at = "carded" /\ copier'.sets = here.sets
  BY <1>1
<1>3. SameSets(here.sets, here.sets)
  BY DEF SameSets
<1>4. Stage'
  BY <1>1, <1>2, <1>3 DEF Stage, SameSets
<1> QED
  BY <1>1, <1>4, ReadsFaithful

LEMMA CloneCardsFaithful ==
  ASSUME CopiesInv, FaithInv, Copies!CloneCards
  PROVE  FaithInv'
<1>1. /\ UNCHANGED <<here, seen>> /\ copier.at = "carded"
      /\ copier'.at = "scoped" /\ copier'.cards = here.inst /\ copier'.sets = copier.sets
      /\ Copies!Reads("carded", copier')
  BY DEF Copies!CloneCards, Copies!Reads
<1> DEFINE copy == [inst |-> here.inst, sets |-> copier.sets, shapes |-> here.shapes]
<1>2. copy.inst = here.inst /\ copy.sets = copier.sets /\ copy.shapes = here.shapes
  OBVIOUS
<1>3. copy' = [inst |-> copier'.cards, sets |-> copier'.sets, shapes |-> here'.shapes]
  BY <1>1
<1> HIDE DEF copy
<1>4. \A v \in seen : seen = {v} => v.form = Copies!Form(copy)
  <2> SUFFICES ASSUME NEW v \in seen, seen = {v} PROVE v.form = Copies!Form(copy)
    OBVIOUS
  <2>1. SameSets(copier.sets, here.sets)
    BY <1>1 DEF FaithInv, Stage
  <2>2. Copies!Form(copy) = Copies!Form(here)
    BY <1>2, <2>1, FormOfSame
  <2> QED
    BY <1>1, <2>2, SeenForm
<1>5. Stage'
  BY <1>1, <1>4 DEF Stage, copy
<1> QED
  BY <1>1, <1>5, ReadsFaithful

LEMMA CloneShapesFaithful ==
  ASSUME CopiesInv, FaithInv, Copies!CloneShapes
  PROVE  FaithInv'
<1> DEFINE copy == [inst |-> copier.cards, sets |-> copier.sets, shapes |-> here.shapes]
<1>1. /\ UNCHANGED <<here, file>> /\ copier.at = "scoped" /\ copier' = Copies!Idle
      /\ made' = [at |-> "made", form |-> Copies!Form(copy), of |-> seen]
  BY DEF Copies!CloneShapes
<1>2. \A v \in seen : seen = {v} => v.form = Copies!Form(copy)
  BY <1>1 DEF FaithInv, Stage
<1> HIDE DEF copy
<1>3. made'.of = seen /\ made'.form = Copies!Form(copy)
  BY <1>1
<1>4. Copies!QuietCopiesAreExact'
  BY <1>2, <1>3 DEF Copies!QuietCopiesAreExact
<1>5. /\ FileKept' /\ Copies!NamesApart(here)'
  BY <1>1 DEF FaithInv, FileKept, Copies!NamesApart
<1>6. SeenNow' /\ Stage'
  BY <1>1 DEF SeenNow, Stage, Copies!Idle
<1> QED
  BY <1>4, <1>5, <1>6 DEF FaithInv

-----------------------------------------------------------------------------
(* A session made from a file: its rows, and what they look like.          *)
FieldsOf(r, id) == [j \in 1..r.fields |-> [of |-> id, nth |-> j]]

CardOf(r, k, id, set) ==
    [ord |-> k - 1, name |-> r.name, label |-> r.label, brk |-> r.brk, set |-> set,
     fields |-> FieldsOf(r, id),
     sort |-> IF r.sort \in DOMAIN FieldsOf(r, id) THEN FieldsOf(r, id)[r.sort] ELSE Copies!NoSort]

LEMMA NewRows ==
  ASSUME NEW s, NEW f, Len(f.cards) \in Nat, DOMAIN f.cards = 1..Len(f.cards),
         \A k \in DOMAIN f.cards : ~Copies!Taken(f, k)
  PROVE  LET n == Len(f.cards)
             ids == [k \in 1..n |-> 2 + k - 1]
             pool == Copies!Upserted(s, f, 2 + n)
             t == Copies!Applied(s, f, 2)
         IN  /\ DOMAIN t.inst = Copies!Range(ids)
             /\ \A k \in 1..n :
                   t.inst[ids[k]] = CardOf(f.cards[k], k, ids[k], Copies!IdOf(pool, f.cards[k].set))
             /\ DOMAIN t.sets = DOMAIN pool /\ \A i \in DOMAIN pool : t.sets[i] = pool[i]
             /\ t.shapes = [m \in DOMAIN f.shapes |-> Copies!Scope(f, f.shapes[m], ids)]
<1> DEFINE n == Len(f.cards)
           ids == [k \in 1..n |-> 2 + k - 1]
           pool == Copies!Upserted(s, f, 2 + n)
           copied == {k \in 1..n : Copies!Taken(f, k)}
           copyAt == [k \in copied |-> 2 + n + Copies!Cardinality(f.sets) + k]
           copies == [i \in Copies!Range(copyAt) |->
                        LET k == CHOOSE j \in copied : copyAt[j] = i
                        IN  [name |-> Copies!RuleSetName(pool, ids[k]),
                             rules |-> pool[Copies!IdOf(pool, f.cards[k].set)].rules]]
           fields(k) == [j \in 1..f.cards[k].fields |-> [of |-> ids[k], nth |-> j]]
           card(k) == [ord |-> k - 1, name |-> f.cards[k].name, label |-> f.cards[k].label,
                       brk |-> f.cards[k].brk,
                       set |-> IF k \in copied THEN copyAt[k] ELSE Copies!IdOf(pool, f.cards[k].set),
                       fields |-> fields(k),
                       sort |-> IF f.cards[k].sort \in DOMAIN fields(k) THEN fields(k)[f.cards[k].sort]
                                ELSE Copies!NoSort]
           t == Copies!Applied(s, f, 2)
           cards == [i \in Copies!Range(ids) |-> card(i - 2 + 1)]
           sets == [i \in DOMAIN pool \cup Copies!Range(copyAt) |->
                      IF i \in DOMAIN pool THEN pool[i] ELSE copies[i]]
           shapes == [m \in DOMAIN f.shapes |-> Copies!Scope(f, f.shapes[m], ids)]
<1>1. t = [inst |-> cards, sets |-> sets, shapes |-> shapes]
  BY DEF Copies!Applied
<1>2. copied = {}
  OBVIOUS
<1>3. \A k \in 1..n : card(k) = CardOf(f.cards[k], k, ids[k], Copies!IdOf(pool, f.cards[k].set))
  <2> SUFFICES ASSUME NEW k \in 1..n
               PROVE  card(k) = CardOf(f.cards[k], k, ids[k], Copies!IdOf(pool, f.cards[k].set))
    OBVIOUS
  <2>1. k \notin copied
    BY <1>2
  <2>2. fields(k) = FieldsOf(f.cards[k], ids[k])
    BY DEF FieldsOf
  <2> HIDE DEF fields, copied, copyAt, ids, pool
  <2> QED
    BY <2>1, <2>2 DEF CardOf
<1>4. Copies!Range(copyAt) = {}
  BY <1>2 DEF Copies!Range
<1> HIDE DEF card, copied, copyAt, copies
<1>5. DOMAIN sets = DOMAIN pool /\ \A i \in DOMAIN pool : sets[i] = pool[i]
  <2> HIDE DEF pool
  <2> QED
    BY <1>4
<1>6. \A k \in 1..n : ids[k] \in Copies!Range(ids) /\ ids[k] - 2 + 1 = k
  BY DEF Copies!Range
<1>7. DOMAIN cards = Copies!Range(ids) /\ \A k \in 1..n : cards[ids[k]] = card(k)
  <2> HIDE DEF ids
  <2> QED
    BY <1>6
<1>8. t.inst = cards /\ t.sets = sets /\ t.shapes = shapes
  <2> HIDE DEF cards, sets, shapes, t
  <2> QED
    BY <1>1
<1> HIDE DEF cards, sets, t
<1> QED
  BY <1>3, <1>5, <1>7, <1>8 DEF t, ids, pool, n

LEMMA NewOrder ==
  ASSUME NEW t, NEW n \in Nat, DOMAIN t.inst = 2..(n + 1),
         \A i \in DOMAIN t.inst : t.inst[i].ord = i - 2
  PROVE  Copies!Sorted(t) = [k \in 1..n |-> k + 1]
<1> DEFINE S == DOMAIN t.inst
           ahead(i) == {j \in S : Copies!Before(t, j, i)}
<1>1. IsFiniteSet(S) /\ Cardinality(S) = n
  BY FS_Interval
<1>2. ASSUME NEW i \in S PROVE Cardinality(ahead(i)) = i - 2
  <2>1. ahead(i) = 2..(i - 1)
    BY DEF Copies!Before
  <2>2. i \in Int /\ i >= 2 /\ i - 1 \in Int
    OBVIOUS
  <2>3. Cardinality(2..(i - 1)) = i - 2
    <3> DEFINE b == i - 1
    <3>1. Cardinality(2..b) = IF 2 > b THEN 0 ELSE b - 2 + 1
      <4>1. b \in Int
        BY <2>2
      <4> HIDE DEF b
      <4> QED
        BY <4>1, FS_Interval
    <3> QED
      BY <2>2, <3>1
  <2> QED
    BY <2>1, <2>3
<1> HIDE DEF ahead
<1>3. ASSUME NEW k \in 1..n PROVE (CHOOSE i \in S : Cardinality(ahead(i)) = k - 1) = k + 1
  <2>1. k + 1 \in S /\ Cardinality(ahead(k + 1)) = k - 1
    BY <1>2
  <2>2. \A i \in S : Cardinality(ahead(i)) = k - 1 => i = k + 1
    BY <1>2
  <2> QED
    BY <2>1, <2>2
<1>4. Copies!Sorted(t) = [k \in 1..Cardinality(S) |-> CHOOSE i \in S : Cardinality(ahead(i)) = k - 1]
  <2>1. Copies!Cardinality(S) = Cardinality(S) /\ \A i : Copies!Cardinality(ahead(i)) = Cardinality(ahead(i))
    BY CopiesLibrary
  <2>2. Copies!Sorted(t) = [k \in 1..Copies!Cardinality(S) |->
                              CHOOSE i \in S : Copies!Cardinality(ahead(i)) = k - 1]
    BY DEF Copies!Sorted, ahead
  <2> HIDE DEF S
  <2>3. \A k : (CHOOSE i \in S : Copies!Cardinality(ahead(i)) = k - 1)
                = (CHOOSE i \in S : Cardinality(ahead(i)) = k - 1)
    BY <2>1
  <2> QED
    BY <2>1, <2>2, <2>3
<1> HIDE DEF S
<1> QED
  BY <1>1, <1>3, <1>4

\* A field's place among the card's, and the place of no field.
LEMMA SortOfNew ==
  ASSUME NEW r, r.fields \in Nat, r.sort \in 0..r.fields, NEW id \in Nat \ {0}, NEW k, NEW set
  PROVE  LET c == CardOf(r, k, id, set)
         IN  Len(c.fields) = r.fields /\ Copies!Place(c.fields, c.sort) = r.sort
<1> DEFINE fields == FieldsOf(r, id)
           sort == IF r.sort \in DOMAIN fields THEN fields[r.sort] ELSE Copies!NoSort
<1>1. /\ DOMAIN fields = 1..r.fields /\ Len(fields) = r.fields
      /\ \A j \in 1..r.fields : fields[j] = [of |-> id, nth |-> j]
  BY DEF FieldsOf
<1>2. CardOf(r, k, id, set).fields = fields /\ CardOf(r, k, id, set).sort = sort
  BY DEF CardOf
<1> HIDE DEF fields
<1>3. CASE r.sort # 0
  <2>1. r.sort \in 1..r.fields /\ sort = fields[r.sort]
    BY <1>1, <1>3
  <2> HIDE DEF sort
  <2>2. sort \in Copies!Range(fields) /\ sort.nth = r.sort
    <3>1. sort = [of |-> id, nth |-> r.sort]
      BY <1>1, <2>1
    <3>2. \E j \in DOMAIN fields : fields[j] = sort
      BY <1>1, <2>1
    <3> QED
      BY <3>1, <3>2 DEF Copies!Range
  <2> DEFINE place == Copies!Place(fields, sort)
  <2>3. place \in 1..r.fields /\ fields[place] = sort
    BY <1>1, <2>2, PlaceIs
  <2> HIDE DEF place
  <2>4. sort.nth = place
    <3>1. fields[place] = [of |-> id, nth |-> place]
      BY <1>1, <2>3
    <3>2. sort = [of |-> id, nth |-> place]
      BY <2>3, <3>1
    <3> QED
      BY <3>2
  <2> QED
    BY <1>1, <1>2, <2>2, <2>4 DEF place
<1>4. CASE r.sort = 0
  <2>1. sort = Copies!NoSort
    BY <1>1, <1>4
  <2>2. \A j \in 1..r.fields : fields[j] # Copies!NoSort
    <3> TAKE j \in 1..r.fields
    <3>1. fields[j].of = id /\ id # 0
      <4>1. fields[j] = [of |-> id, nth |-> j]
        BY <1>1
      <4> QED
        BY <4>1
    <3>2. Copies!NoSort.of = 0
      BY DEF Copies!NoSort
    <3> QED
      BY <3>1, <3>2
  <2>3. sort \notin Copies!Range(fields)
    BY <1>1, <2>1, <2>2 DEF Copies!Range
  <2> HIDE DEF sort
  <2> QED
    BY <1>1, <1>2, <1>4, <2>3, PlaceIs
<1> QED
  BY <1>3, <1>4

\* The scope a row of a file stands for is the card at its number.
LEMMA ScopeOfNew ==
  ASSUME NEW f, NEW n \in Nat, DOMAIN f.cards = 1..n, NEW h, NEW place, ShapeOf(h, f.cards, place),
         NEW ids, DOMAIN ids = 1..n
  PROVE  Copies!Scope(f, h, ids) = IF place = 0 THEN 0 ELSE ids[place]
<1> DEFINE named == {k \in DOMAIN f.cards : f.cards[k].label = h.label}
<1>1. h.number = place /\ place \in 1..n \cup {0}
  BY DEF ShapeOf
<1>2. Copies!Scope(f, h, ids) = IF h.label # Copies!NoLabel /\ Copies!Cardinality(named) = 1
                               THEN ids[CHOOSE k \in named : TRUE]
                               ELSE IF h.number \in DOMAIN ids THEN ids[h.number] ELSE 0
  BY DEF Copies!Scope, Copies!None
<1>3. CASE place = 0
  <2>1. h.label = Copies!NoLabel /\ h.number \notin DOMAIN ids
    BY <1>1, <1>3 DEF ShapeOf
  <2> QED
    BY <1>2, <1>3, <2>1
<1>4. CASE place # 0
  <2>1. place \in named /\ place \in DOMAIN ids
    BY <1>1, <1>4 DEF ShapeOf
  <2>2. ASSUME Copies!Cardinality(named) = 1 PROVE (CHOOSE k \in named : TRUE) = place
    <3>1. IsFiniteSet(named)
      <4>1. IsFiniteSet(1..n) /\ named \subseteq 1..n
        BY FS_Interval
      <4> QED
        BY <4>1, FS_Subset
    <3>2. Cardinality(named) = 1
      BY <2>2, CopiesLibrary
    <3> HIDE DEF named
    <3>3. PICK x : named = {x}
      BY <3>1, <3>2, FS_Singleton
    <3>4. named = {place}
      BY <2>1, <3>3
    <3> QED
      BY <3>4
  <2> HIDE DEF named
  <2> QED
    BY <1>1, <1>2, <1>4, <2>1, <2>2
<1> QED
  BY <1>3, <1>4

\* An import reads only the rule sets of the session it starts from.
LEMMA AppliedOfSets ==
  ASSUME NEW s, NEW t, t.sets = s.sets, NEW f, NEW at
  PROVE  Copies!Applied(t, f, at) = Copies!Applied(s, f, at)
<1>1. \A x : Copies!Upserted(t, f, x) = Copies!Upserted(s, f, x)
  BY DEF Copies!Upserted
<1> QED
  BY <1>1 DEF Copies!Applied

NoRows == [inst |-> << >>, sets |-> << >>, shapes |-> << >>]

LEMMA NoRowsFit == Fits(NoRows, 2) /\ Copies!NamesApart(NoRows)
<1>1. /\ NoRows = [inst |-> NoRows.inst, sets |-> NoRows.sets, shapes |-> NoRows.shapes]
      /\ DOMAIN NoRows.inst = {} /\ DOMAIN NoRows.sets = {} /\ DOMAIN NoRows.shapes = {}
  BY DEF NoRows
<1>2. Copies!Range(NoRows.shapes) = {}
  BY <1>1 DEF Copies!Range
<1> QED
  BY <1>1, <1>2, FitsIs DEF Copies!NamesApart

\* What the import of a file shows is what the file was read from.
LEMMA RebuiltIsExact ==
  ASSUME NEW f, Copies!IsFile(f), Copies!Acceptable(f), NEW form, FileOf(f, form)
  PROVE  Copies!Form(Copies!Applied(Copies!NewSession, f, 2)) = form
<1> DEFINE n == Len(f.cards)
           ids == [k \in 1..n |-> 2 + k - 1]
           pool == Copies!Upserted(NoRows, f, 2 + n)
           t == Copies!Applied(NoRows, f, 2)
           given(k) == Copies!IdOf(pool, f.cards[k].set)
<1>1. Copies!Applied(Copies!NewSession, f, 2) = t
  <2>1. Copies!NewSession.sets = NoRows.sets
    BY DEF Copies!NewSession, NoRows
  <2> QED
    BY <2>1, AppliedOfSets
<1>2. n \in Nat /\ DOMAIN f.cards = 1..n /\ DOMAIN pool \subseteq Nat \ {0}
  <2>1. /\ n \in Nat /\ Copies!Cardinality(f.sets) \in Nat /\ DOMAIN f.cards = 1..n
        /\ DOMAIN pool \subseteq 1..((2 + n + Copies!Cardinality(f.sets)) - 1)
    BY NoRowsFit, SetsGiven
  <2> QED
    BY <2>1
<1>3. /\ FormRecord(form) /\ RowsOf(f.cards, form) /\ f.sets = form.pool
      /\ DOMAIN f.shapes = DOMAIN form.shapes
      /\ \A m \in DOMAIN f.shapes : ShapeOf(f.shapes[m], f.cards, form.shapes[m])
  BY DEF FileOf
<1>4. /\ DOMAIN form.cards = 1..n
      /\ \A k \in 1..n : RowOf(f.cards[k], form.cards[k], f.sets) /\ ~Copies!Taken(f, k)
  <2>1. DOMAIN form.cards = 1..n /\ \A k \in 1..n : RowOf(f.cards[k], form.cards[k], f.sets)
    BY <1>2, <1>3 DEF RowsOf
  <2>2. ASSUME NEW k \in 1..n, Copies!Taken(f, k) PROVE FALSE
    <3>1. PICK j \in 1..(k - 1) : f.cards[j].set = f.cards[k].set
      BY <2>2 DEF Copies!Taken
    <3>2. j \in 1..n /\ j # k
      BY <1>2
    <3>3. f.cards[k].set # Copies!NoName
      BY <2>2 DEF Copies!Taken
    <3> QED
      BY <1>2, <1>3, <3>1, <3>2, <3>3 DEF RowsOf
  <2> QED
    BY <2>1, <2>2
<1>5. /\ DOMAIN t.inst = Copies!Range(ids)
      /\ \A k \in 1..n : t.inst[ids[k]] = CardOf(f.cards[k], k, ids[k], given(k))
      /\ DOMAIN t.sets = DOMAIN pool /\ \A i \in DOMAIN pool : t.sets[i] = pool[i]
      /\ t.shapes = [m \in DOMAIN f.shapes |-> Copies!Scope(f, f.shapes[m], ids)]
  BY <1>2, <1>4, NewRows
<1>6. /\ \A i \in DOMAIN pool : pool[i] \in f.sets
      /\ \A m \in f.sets : \E i \in DOMAIN pool : pool[i] = m
  <2>1. 2 + n \in Nat /\ 2 <= 2 + n
    BY <1>2
  <2> HIDE DEF n
  <2> QED
    BY <2>1, NoRowsFit, PoolNames
<1> HIDE DEF n, pool, t
<1>7. DOMAIN ids = 1..n /\ \A k \in 1..n : ids[k] = k + 1
  BY <1>2
<1>8. Copies!Range(ids) = 2..(n + 1)
  <2>1. \A i \in 2..(n + 1) : i - 1 \in 1..n /\ ids[i - 1] = i
    BY <1>2
  <2>2. \A k \in 1..n : ids[k] \in 2..(n + 1)
    BY <1>2
  <2> QED
    BY <2>1, <2>2 DEF Copies!Range
<1> HIDE DEF ids
<1>9. \A k \in 1..n : t.inst[k + 1] = CardOf(f.cards[k], k, k + 1, given(k))
  BY <1>5, <1>7
<1>10. Copies!Sorted(t) = [k \in 1..n |-> k + 1]
  <2>1. \A i \in DOMAIN t.inst : t.inst[i].ord = i - 2
    <3> TAKE i \in DOMAIN t.inst
    <3>1. i - 1 \in 1..n /\ (i - 1) + 1 = i /\ (i - 1) - 1 = i - 2
      BY <1>2, <1>5, <1>8
    <3>2. t.inst[i] = CardOf(f.cards[i - 1], i - 1, i, given(i - 1))
      BY <1>9, <3>1
    <3> HIDE DEF given
    <3> QED
      BY <3>1, <3>2 DEF CardOf
  <2> QED
    BY <1>2, <1>5, <1>8, <2>1, NewOrder
<1>11. ASSUME NEW k \in 1..n PROVE Copies!RulesOf(t.sets, given(k)) = form.cards[k].rules
  <2> DEFINE name == f.cards[k].set
  <2>1. CASE name = Copies!NoName
    <3>1. given(k) = 0 /\ form.cards[k].rules = "all"
      BY <1>4, <2>1 DEF Copies!IdOf, Copies!None, RowOf
    <3>2. 0 \notin DOMAIN t.sets
      BY <1>2, <1>5
    <3> QED
      BY <3>1, <3>2 DEF Copies!RulesOf
  <2>2. CASE name # Copies!NoName
    <3>1. PICK m \in f.sets : m.name = name /\ m.rules = form.cards[k].rules
      BY <1>4, <2>2 DEF RowOf
    <3>2. PICK i \in DOMAIN pool : pool[i] = m
      BY <1>6
    <3>3. given(k) = CHOOSE j \in DOMAIN pool : pool[j].name = name
      BY <2>2 DEF Copies!IdOf
    <3> HIDE DEF given
    <3>4. given(k) \in DOMAIN pool /\ pool[given(k)].name = name
      BY <3>1, <3>2, <3>3
    <3>5. pool[given(k)] = m
      BY <1>6, <3>1, <3>4 DEF Copies!Acceptable
    <3> QED
      BY <1>5, <3>1, <3>4, <3>5 DEF Copies!RulesOf
  <2> QED
    BY <2>1, <2>2
<1>12. ASSUME NEW k \in 1..n PROVE Shown(t, k + 1) = form.cards[k]
  <2> DEFINE r == f.cards[k]
             d == form.cards[k]
             c == CardOf(r, k, k + 1, given(k))
  <2>1. /\ r.name = d.name /\ r.label = d.label /\ r.brk = d.brk /\ r.fields = d.fields /\ r.sort = d.sort
        /\ r.sort \in 0..r.fields
    BY <1>4 DEF RowOf
  <2>2. r.fields \in Nat
    BY <1>2, RowsAre DEF Copies!IsFile, Copies!IsRow
  <2>3. t.inst[k + 1] = c /\ k + 1 \in Nat \ {0}
    BY <1>2, <1>9
  <2>4. d = [name |-> d.name, label |-> d.label, brk |-> d.brk, rules |-> d.rules,
             fields |-> d.fields, sort |-> d.sort]
    BY <1>3, <1>4 DEF FormRecord
  <2> HIDE DEF given
  <2>5. c.name = r.name /\ c.label = r.label /\ c.brk = r.brk /\ c.set = given(k)
    BY DEF CardOf
  <2> HIDE DEF r
  <2>6. Len(c.fields) = r.fields /\ Copies!Place(c.fields, c.sort) = r.sort
    BY <2>1, <2>2, <2>3, SortOfNew
  <2>7. Copies!RulesOf(t.sets, c.set) = d.rules
    BY <1>11, <2>5
  <2> HIDE DEF c, d
  <2>8. Copies!PortableCard(c, d.rules) = d
    BY <2>1, <2>4, <2>5, <2>6 DEF Copies!PortableCard
  <2> QED
    BY <2>3, <2>7, <2>8 DEF Shown, d
<1>13. Copies!Range(t.sets) = form.pool
  <2>1. \A i \in DOMAIN t.sets : t.sets[i] \in f.sets
    BY <1>5, <1>6
  <2>2. \A m \in f.sets : \E i \in DOMAIN t.sets : t.sets[i] = m
    BY <1>5, <1>6
  <2> QED
    BY <1>3, <2>1, <2>2 DEF Copies!Range
<1>14. ASSUME NEW m \in DOMAIN f.shapes
       PROVE  Copies!Place(Copies!Sorted(t), t.shapes[m]) = form.shapes[m]
  <2> DEFINE place == form.shapes[m]
             order == Copies!Sorted(t)
  <2>1. ShapeOf(f.shapes[m], f.cards, place)
    BY <1>3
  <2>2. t.shapes[m] = IF place = 0 THEN 0 ELSE ids[place]
    <3>1. t.shapes[m] = Copies!Scope(f, f.shapes[m], ids)
      BY <1>5
    <3> HIDE DEF place
    <3>2. DOMAIN ids = 1..n
      BY <1>7
    <3>3. Copies!Scope(f, f.shapes[m], ids) = IF place = 0 THEN 0 ELSE ids[place]
      <4> DEFINE h == f.shapes[m]
      <4>1. n \in Nat /\ DOMAIN f.cards = 1..n /\ DOMAIN ids = 1..n /\ ShapeOf(h, f.cards, place)
        BY <1>2, <2>1, <3>2 DEF place
      <4> HIDE DEF h
      <4>2. Copies!Scope(f, h, ids) = IF place = 0 THEN 0 ELSE ids[place]
        BY <4>1, ScopeOfNew
      <4> QED
        BY <4>2 DEF h
    <3> QED
      BY <3>1, <3>3
  <2>3. place \in 1..n \cup {0}
    BY <1>2, <2>1 DEF ShapeOf
  <2>4. DOMAIN order = 1..n /\ \A k \in 1..n : order[k] = k + 1
    BY <1>10
  <2> HIDE DEF order, place
  <2>5. CASE place = 0
    <3>1. 0 \notin Copies!Range(order)
      BY <1>2, <2>4 DEF Copies!Range
    <3> QED
      BY <2>2, <2>5, <3>1, PlaceIs DEF order, place
  <2>6. CASE place # 0
    <3> DEFINE x == place + 1
    <3>1. t.shapes[m] = x /\ order[place] = x /\ place \in 1..n
      BY <1>7, <2>2, <2>3, <2>4, <2>6
    <3>2. x \in Copies!Range(order)
      BY <2>4, <3>1 DEF Copies!Range
    <3>3. Copies!Place(order, x) \in 1..n /\ order[Copies!Place(order, x)] = x
      BY <2>4, <3>2, PlaceIs
    <3>4. Copies!Place(order, x) = place
      BY <1>2, <2>4, <3>1, <3>3
    <3> QED
      BY <3>1, <3>4 DEF order, place
  <2> QED
    BY <2>5, <2>6
<1>15. Copies!Form(t).cards = form.cards
  <2>1. Copies!Form(t).cards = [k \in DOMAIN Copies!Sorted(t) |-> Shown(t, Copies!Sorted(t)[k])]
    BY FormIs
  <2>2. DOMAIN Copies!Sorted(t) = 1..n /\ \A k \in 1..n : Copies!Sorted(t)[k] = k + 1
    BY <1>10
  <2>3. form.cards = [k \in 1..n |-> form.cards[k]]
    BY <1>3, <1>4 DEF FormRecord
  <2> QED
    BY <1>12, <2>1, <2>2, <2>3
<1>16. Copies!Form(t).shapes = form.shapes
  <2>1. Copies!Form(t).shapes = [m \in DOMAIN t.shapes |-> Copies!Place(Copies!Sorted(t), t.shapes[m])]
    BY FormIs
  <2>2. DOMAIN t.shapes = DOMAIN f.shapes
    BY <1>5
  <2>3. form.shapes = [m \in DOMAIN f.shapes |-> form.shapes[m]]
    BY <1>3 DEF FormRecord
  <2> QED
    BY <1>14, <2>1, <2>2, <2>3
<1>17. /\ Copies!Form(t) = [cards |-> Copies!Form(t).cards, pool |-> Copies!Form(t).pool, shapes |-> Copies!Form(t).shapes]
       /\ Copies!Form(t).pool = Copies!Range(t.sets)
  BY FormIs
<1>18. form = [cards |-> form.cards, pool |-> form.pool, shapes |-> form.shapes]
  BY <1>3 DEF FormRecord
<1> QED
  BY <1>1, <1>13, <1>15, <1>16, <1>17, <1>18

LEMMA RebuildFaithful ==
  ASSUME CopiesInv, FaithInv, Copies!Rebuild
  PROVE  FaithInv'
<1> DEFINE form == Copies!Form(Copies!Applied(Copies!NewSession, file, 2))
<1>1. /\ UNCHANGED <<here, copier, seen, file>> /\ file # Copies!Nothing /\ Copies!Acceptable(file)
      /\ made' = [at |-> "made", form |-> form, of |-> file.of]
  BY DEF Copies!Rebuild
<1>2. Copies!IsFile(file) /\ \A v \in file.of : file.of = {v} => FileOf(file, v.form)
  BY <1>1 DEF CopiesInv, Copies!TypeOK, FaithInv, FileKept
<1>3. \A v \in file.of : file.of = {v} => form = v.form
  BY <1>1, <1>2, RebuiltIsExact
<1> HIDE DEF form
<1>4. made'.of = file.of /\ made'.form = form
  BY <1>1
<1>5. Copies!QuietCopiesAreExact'
  BY <1>3, <1>4 DEF Copies!QuietCopiesAreExact
<1>6. /\ FileKept' /\ SeenNow' /\ Stage' /\ Copies!NamesApart(here)'
  BY <1>1 DEF FaithInv, FileKept, SeenNow, Stage, PinsKept, ReadOf, Undisturbed, Copies!NamesApart
<1> QED
  BY <1>5, <1>6 DEF FaithInv

-----------------------------------------------------------------------------
(* An edit: what Becomes leaves, and how the session looks after it.       *)
LEMMA EditSeen ==
  ASSUME NEW s, Copies!Edit, Copies!Becomes(s)
  PROVE  /\ UNCHANGED <<copier, file, made>>
         /\ seen' = IF copier = Copies!Idle THEN seen ELSE seen \cup {Copies!Sighting(here', FALSE)}
BY DEF Copies!Edit, Copies!Becomes, Copies!Turns

LEMMA CardEditFaithful ==
  ASSUME CopiesInv, CopiesInv', FaithInv, Copies!CardEdit
  PROVE  FaithInv'
<1>1. Copies!NamesApart(here)
  BY DEF FaithInv
<1>2. ASSUME NEW i \in Copies!Cards \cup {Copies!None}, Copies!Create(i) PROVE FaithInv'
  <2>1. Looks(here, here')
    BY <1>1, <1>2, CreateLooks
  <2>2. \E s : Copies!Edit /\ Copies!Becomes(s)
    BY <1>2 DEF Copies!Create
  <2> QED
    BY <2>1, <2>2, EditSeen, EditFaithful
<1>3. ASSUME NEW i \in Copies!Cards, Copies!Delete(i) PROVE FaithInv'
  <2>1. Looks(here, here')
    BY <1>1, <1>3, DeleteLooks
  <2>2. \E s : Copies!Edit /\ Copies!Becomes(s)
    BY <1>3 DEF Copies!Delete
  <2> QED
    BY <2>1, <2>2, EditSeen, EditFaithful
<1>4. ASSUME NEW i \in Copies!Cards, Copies!TurnPage(i) PROVE FaithInv'
  <2>1. Looks(here, here')
    BY <1>1, <1>4, TurnPageLooks
  <2>2. \E s : Copies!Edit /\ Copies!Becomes(s)
    BY <1>4 DEF Copies!TurnPage
  <2> QED
    BY <2>1, <2>2, EditSeen, EditFaithful
<1>5. ASSUME NEW i \in Copies!Cards, Copies!DragFields(i) PROVE FaithInv'
  <2>1. Looks(here, here')
    BY <1>1, <1>5, DragFieldsLooks
  <2>2. \E s : Copies!Edit /\ Copies!Becomes(s)
    BY <1>5 DEF Copies!DragFields
  <2> QED
    BY <2>1, <2>2, EditSeen, EditFaithful
<1>6. ASSUME NEW i \in Copies!Cards, NEW op, Copies!Load(op, i) PROVE FaithInv'
  BY <1>6, StillFaithful DEF Copies!Load
<1>7. ASSUME NEW i \in Copies!Cards, NEW t, Copies!SetLabel(i, t) PROVE FaithInv'
  <2>1. Looks(here, here')
    BY <1>1, <1>7, SetLabelLooks
  <2>2. \E s : Copies!Edit /\ Copies!Becomes(s)
    BY <1>7 DEF Copies!SetLabel
  <2> QED
    BY <2>1, <2>2, EditSeen, EditFaithful
<1>8. ASSUME NEW i \in Copies!Cards, NEW f \in Copies!Range(here.inst[i].fields) \cup {Copies!NoSort},
             Copies!SetSort(i, f)
      PROVE  FaithInv'
  <2>1. Looks(here, here')
    BY <1>1, <1>8, SetSortLooks
  <2>2. \E s : Copies!Edit /\ Copies!Becomes(s)
    BY <1>8 DEF Copies!SetSort
  <2> QED
    BY <2>1, <2>2, EditSeen, EditFaithful
<1>9. ASSUME NEW i \in Copies!Cards, NEW n, Copies!SaveShape(n, i) PROVE FaithInv'
  <2>1. Looks(here, here')
    BY <1>1, <1>9, SaveShapeLooks
  <2>2. \E s : Copies!Edit /\ Copies!Becomes(s)
    BY <1>9 DEF Copies!SaveShape
  <2> QED
    BY <2>1, <2>2, EditSeen, EditFaithful
<1>10. ASSUME NEW order, NEW breaks, Copies!Reorder(order, breaks) PROVE FaithInv'
  <2>1. Looks(here, here')
    BY <1>1, <1>10, ReorderLooks
  <2>2. \E s : Copies!Edit /\ Copies!Becomes(s)
    BY <1>10 DEF Copies!Reorder
  <2> QED
    BY <2>1, <2>2, EditSeen, EditFaithful
<1> QED
  BY <1>2, <1>3, <1>4, <1>5, <1>6, <1>7, <1>8, <1>9, <1>10 DEF Copies!CardEdit

LEMMA SaveRulesFaithful ==
  ASSUME CopiesInv, FaithInv, NEW rules, Copies!SaveRules(rules)
  PROVE  FaithInv'
<1>1. \/ \E s : Copies!Edit /\ Copies!Becomes(s)
      \/ UNCHANGED <<here, copier, seen, file, made>>
  BY DEF Copies!SaveRules, Copies!Edit
<1>2. CASE \E s : Copies!Edit /\ Copies!Becomes(s)
  <2>1. Looks(here, here')
    BY SaveRulesLooks DEF FaithInv
  <2> QED
    BY <1>2, <2>1, EditSeen, EditFaithful
<1>3. CASE UNCHANGED <<here, copier, seen, file, made>>
  BY <1>3, StillFaithful
<1> QED
  BY <1>1, <1>2, <1>3

LEMMA FaithInitHolds == Copies!Init => FaithInv
<1> SUFFICES ASSUME Copies!Init PROVE FaithInv
  OBVIOUS
<1>1. /\ here \in Sessions /\ copier = Copies!Idle /\ copier.at = "idle"
      /\ file = Copies!Nothing /\ made = Copies!Nothing
  BY DEF Copies!Init, Copies!Idle
<1>2. Copies!NamesApart(here)
  BY <1>1, CopiesAssumption DEF Copies!StartsAssumption
<1> QED
  BY <1>1, <1>2 DEF FaithInv, SeenNow, Stage, FileKept, Copies!QuietCopiesAreExact

LEMMA FaithStepHolds == CopiesInv /\ FaithInv /\ CopiesInv' /\ [NextCopies]_copyVars => FaithInv'
<1> SUFFICES ASSUME CopiesInv, FaithInv, CopiesInv', [NextCopies]_copyVars PROVE FaithInv'
  OBVIOUS
<1>1. CASE Copies!CardEdit
  BY <1>1, CardEditFaithful
<1>2. CASE Copies!Replicate
  <2>1. Looks(here, here')
    BY <1>2, ReplicateLooks DEF FaithInv
  <2>2. \E s : Copies!Edit /\ Copies!Becomes(s)
    BY <1>2 DEF Copies!Replicate
  <2> QED
    BY <2>1, <2>2, EditSeen, EditFaithful
<1>3. ASSUME NEW r \in {"all", "some"}, Copies!SaveRules(r) PROVE FaithInv'
  BY <1>3, SaveRulesFaithful
<1>4. ASSUME NEW tick \in 0..CardBound, Copies!Import(tick) PROVE FaithInv'
  BY <1>4, ImportFaithful
<1>5. CASE Copies!HandEdit
  BY <1>5, HandEditFaithful
<1>6. CASE Copies!Rebuild
  BY <1>6, RebuildFaithful
<1>7. CASE Copies!Lapse \/ UNCHANGED copyVars
  BY <1>7, StillFaithful DEF Copies!Lapse, copyVars
<1>8. ASSUME NEW at \in {"export", "clone"}, Copies!Begin(at) PROVE FaithInv'
  BY <1>8, BeginFaithful
<1>9. CASE \/ Copies!ExportCards \/ Copies!ExportNames \/ Copies!ExportSets \/ Copies!ExportShapes
           \/ Copies!CloneSets \/ Copies!CloneCards \/ Copies!CloneShapes
  BY <1>9, ExportCardsFaithful, ExportNamesFaithful, ExportSetsFaithful, ExportShapesFaithful,
     CloneSetsFaithful, CloneCardsFaithful, CloneShapesFaithful
<1> QED
  BY <1>1, <1>2, <1>3, <1>4, <1>5, <1>6, <1>7, <1>8, <1>9 DEF NextCopies, InCopies

\* A file of a quiet enough export is one the import takes.
LEMMA FaithfulFiles == CopiesInv /\ FaithInv => Copies!FilesKeepTheirRules
<1> SUFFICES ASSUME CopiesInv, FaithInv, file # Copies!Nothing, file.of # {},
                    \A v \in file.of : ~v.rebuilt
             PROVE  /\ Copies!Acceptable(file)
                    /\ \A c \in Copies!Range(file.cards) :
                          c.set = Copies!NoName => Copies!SeenWith(file.of, c.name, "all")
  BY DEF Copies!FilesKeepTheirRules
<1>1. OneName(file.sets) /\ RowsKept(file.cards, file.sets, file.of)
  BY DEF FaithInv, FileKept, Undisturbed
<1>2. ASSUME NEW c \in Copies!Range(file.cards)
      PROVE  /\ c.set = Copies!NoName \/ \E m \in file.sets : m.name = c.set
             /\ c.set = Copies!NoName => Copies!SeenWith(file.of, c.name, "all")
  <2>1. PICK k \in DOMAIN file.cards : file.cards[k] = c
    BY <1>2 DEF Copies!Range
  <2> QED
    BY <1>1, <2>1 DEF RowsKept
<1> QED
  BY <1>1, <1>2 DEF Copies!Acceptable, OneName

(* serialize_session_config, _apply_plan and clone_session, a statement at *)
(* a time beside every edit: for any number of cards, rule sets and        *)
(* shapes, a Duplicate or a session rebuilt from an exported file looks as *)
(* the session did when nobody changed how it looks meanwhile; and a file  *)
(* no import overtook is one the import takes, with a rule set for every   *)
(* card that was not seen without one.                                     *)
THEOREM QuietCopiesAreTheSession == SpecSetup => []CopiesAreFaithful
<1> DEFINE Inv == which = "copies" => CopiesInv /\ FaithInv
<1>1. InitSetup => Inv
  BY CopiesInitHolds, FaithInitHolds DEF InitSetup
<1>2. Inv /\ [NextRules \/ NextCopies \/ NextCache]_allVars => Inv'
  <2> SUFFICES ASSUME Inv, [NextRules \/ NextCopies \/ NextCache]_allVars, which' = "copies"
               PROVE  CopiesInv' /\ FaithInv'
    OBVIOUS
  <2>1. which = "copies"
    BY DEF NextRules, InRules, NextCopies, InCopies, NextCache, InCache, allVars
  <2> QED
    BY <2>1, CopiesInTheSum, CopiesStepHolds, FaithStepHolds
<1>3. Inv => CopiesAreFaithful
  BY FaithfulFiles DEF FaithInv, CopiesAreFaithful
<1> QED
  BY <1>1, <1>2, <1>3, PTL DEF SpecSetup
=============================================================================
