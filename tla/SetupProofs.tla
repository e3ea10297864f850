----------------------------- MODULE SetupProofs -----------------------------
(***************************************************************************)
(* Proofs about what operators set up on an instrument.  AssignmentRules,  *)
(* for every roster, card, file and number of pages: what the card hides   *)
(* is off, a group keeps no pairs one by one, a Save keeps the pairs its   *)
(* card describes, a card saved as shown changes none, and the lists of    *)
(* the retired library are read as they were meant. None of these is       *)
(* inductive alone: an instrument without a rule set stores no rule and no *)
(* exclusion, the schema reads whatever is stored, and a Link whose rules  *)
(* the card shows is recorded as set. ReconcileCache, for any people,      *)
(* rules and page loads: the verdict under the current stamp is the right  *)
(* one.                                                                    *)
(***************************************************************************)
EXTENDS SetupMC, FiniteSetTheorems, TLAPS

-----------------------------------------------------------------------------
(* A finite set of numbers has a greatest.                                 *)
After(S, i) == {j \in S : j > i}

LEMMA SmallestPart ==
  ASSUME NEW S, IsFiniteSet(S), NEW parts, parts # {}, \A T \in parts : T \subseteq S
  PROVE  \E T \in parts : \A U \in parts : U \subseteq T => U = T
<1>1. parts \subseteq FiniteSubsetsOf(S)
  BY FS_FiniteSubsetsOfFinite
<1>2. PICK T \in parts : \A U \in parts : ~(<<U, T>> \in StrictSubsetOrdering(S))
  BY <1>1, FS_StrictSubsetOrderingWellFounded, WFMin
<1>3. ASSUME NEW U \in parts, U \subseteq T, U # T PROVE FALSE
  <2>1. <<U, T>> \in StrictSubsetOrdering(S)
    BY <1>3 DEF StrictSubsetOrdering
  <2> QED
    BY <1>2, <2>1
<1> QED
  BY <1>3

LEMMA GreatestExists ==
  ASSUME NEW S \in SUBSET Nat, IsFiniteSet(S), S # {}
  PROVE  \E m \in S : \A j \in S : j <= m
<1> DEFINE parts == {After(S, i) : i \in S}
<1>1. parts # {} /\ \A T \in parts : T \subseteq S
  BY DEF After
<1>2. PICK m \in S : \A j \in S : After(S, j) \subseteq After(S, m) => After(S, j) = After(S, m)
  <2>1. PICK T \in parts : \A U \in parts : U \subseteq T => U = T
    <3> HIDE DEF parts
    <3> QED
      BY <1>1, SmallestPart
  <2> QED
    BY <2>1
<1>3. ASSUME NEW j \in S, j > m PROVE FALSE
  <2> SUFFICES ASSUME NEW i \in After(S, j) PROVE i \in After(S, m)
    <3>1. j \in After(S, m) /\ j \notin After(S, j)
      BY <1>3 DEF After
    <3> QED
      BY <1>2, <3>1
  <2>1. i \in Nat /\ j \in Nat /\ m \in Nat /\ i \in S
    BY DEF After
  <2> QED
    BY <1>3, <2>1 DEF After
<1>4. \A j \in S : j <= m
  BY <1>3
<1> QED
  BY <1>4

-----------------------------------------------------------------------------
Settled(i) ==
    /\ i.excl => i.touched = Links
    /\ ~(i.grouped /\ KeepsPairs(i.rules))
    /\ ~i.set => i.rules = << >> /\ ~i.excl

CardInv == overtaken \in BOOLEAN /\ (~overtaken => Settled(inst))

\* An empty rule list keeps no pair one by one.
LEMMA NoRulesNoPairs == ~KeepsPairs(<< >>)
BY DEF KeepsPairs, Range

\* Every starting instrument is settled.
LEMMA InitSettled == Init => CardInv
<1> SUFFICES ASSUME Init PROVE CardInv
    OBVIOUS
<1>1. CASE inst = NewInstrument
    BY <1>1, NoRulesNoPairs DEF Init, CardInv, Settled, NewInstrument
<1>2. CASE inst \in Legacy
    BY <1>2, LegacyAssumption DEF Init, CardInv, Settled
<1> QED
    BY <1>1, <1>2 DEF Init

\* A Save of an accepted form on the row it read settles the instrument.
LEMMA SaveSettles ==
    ASSUME NEW i, NEW form, Settled(i), ~RefusedForm(form)
    PROVE  Settled(SaveStores(i, form, Row(i)))
<1> DEFINE built == BuildRules(form)
           value == Exclusion(form, Row(i))
           writes == i.set \/ built # << >> \/ value
           s == SaveStores(i, form, Row(i))
<1>1. /\ s.touched = Touched(form) /\ s.grouped = Grouped(form)
      /\ writes => s.rules = built /\ s.set /\ (s.excl <=> value)
      /\ ~writes => s.rules = i.rules /\ (s.excl <=> i.excl)
    BY DEF SaveStores, Row
<1>2. value => Touched(form) = Links
    BY DEF Exclusion
<1>3. ~(Grouped(form) /\ KeepsPairs(built))
    BY DEF RefusedForm
<1> SUFFICES Settled(s)
    OBVIOUS
<1> HIDE DEF s, built, value
<1>4. CASE writes
    <2>1. s.excl => s.touched = Links
        BY <1>1, <1>2, <1>4
    <2>2. ~(s.grouped /\ KeepsPairs(s.rules))
        BY <1>1, <1>3, <1>4
    <2>3. s.set
        BY <1>1, <1>4
    <2> QED
        BY <2>1, <2>2, <2>3 DEF Settled
<1>5. CASE ~writes
    <2>1. i.rules = << >> /\ ~i.excl
        BY <1>5 DEF Settled
    <2>2. ~s.excl
        BY <1>1, <1>5, <2>1
    <2>3. s.rules = << >>
        BY <1>1, <1>5, <2>1
    <2>4. ~KeepsPairs(s.rules)
        BY <2>3, NoRulesNoPairs
    <2> QED
        BY <2>2, <2>3, <2>4 DEF Settled
<1> QED
    BY <1>4, <1>5

\* An accepted file settles the instrument when it names a rule set.
LEMMA ImportSettles ==
    ASSUME NEW f, Accepted(f), ~f.set => f.rules = << >> /\ ~f.excl
    PROVE  Settled(Imported(f))
BY DEF Accepted, Imported, Settled

LEMMA NextSettled == CardInv /\ [Next]_vars => CardInv'
<1> SUFFICES ASSUME CardInv, [Next]_vars PROVE CardInv'
    OBVIOUS
<1>1. ASSUME NEW t \in Tabs, Save(t) PROVE CardInv'
    <2>1. overtaken' \in BOOLEAN
        BY <1>1 DEF Save
    <2>2. ASSUME ~overtaken' PROVE Settled(inst)'
        <3>1. ~overtaken /\ request[t].row = Row(inst)
            BY <1>1, <2>2 DEF Save
        <3>2. Settled(SaveStores(inst, request[t].form, Row(inst)))
            BY <1>1, <3>1, SaveSettles DEF Save, CardInv
        <3> QED
            BY <1>1, <3>1, <3>2 DEF Save, Settled
    <2> QED
        BY <2>1, <2>2 DEF CardInv
<1>2. CASE ImportFile
    <2>1. PICK f \in Files : Accepted(f) /\ inst' = Imported(f)
        BY <1>2 DEF ImportFile
    <2>2. Settled(Imported(f))
        BY <2>1, FilesAssumption, ImportSettles
    <2>3. Settled(inst)'
        BY <2>1, <2>2 DEF Settled
    <2> QED
        BY <1>2, <2>3 DEF ImportFile, CardInv
<1>3. ASSUME inst' = inst, overtaken' = overtaken PROVE CardInv'
    BY <1>3 DEF CardInv, Settled
<1>4. ASSUME NEW t \in Tabs, OpenPage(t) \/ CycleUnit(t) \/ ToggleTick(t) \/ Send(t) \/ RefuseSave(t)
      PROVE  CardInv'
    BY <1>3, <1>4 DEF OpenPage, CycleUnit, ToggleTick, Send, RefuseSave, Edited
<1>5. ASSUME NEW t \in Tabs, NEW l \in {"link1", "link2"},
             CyclePill(t, l) \/ TypeCells(t, l) \/ ToggleCombinator(t, l)
      PROVE  CardInv'
    BY <1>3, <1>5 DEF CyclePill, TypeCells, ToggleCombinator, Edited
<1>6. CASE UNCHANGED vars
    BY <1>3, <1>6 DEF vars
<1> QED
    BY <1>1, <1>2, <1>4, <1>5, <1>6 DEF Next

\* In every behaviour, unless a Save landed on a row another Save had changed,
\* the exclusion of self reviews is off wherever the card hides it
\* (resolve_exclude_self_reviews, clear_unsettled_exclude_self_reviews).
THEOREM HiddenFlag == Spec => []HiddenFlagIsOff
<1>1. CardInv => HiddenFlagIsOff
    BY DEF CardInv, Settled, HiddenFlagIsOff
<1> QED
    BY InitSettled, NextSettled, <1>1, PTL DEF Spec

\* With the same exception, no group is combined with a rule that keeps its
\* pairs one by one (set_band1_assignment_rules and _cross_row_errors).
THEOREM GroupsAndPairs == Spec => []GroupsKeepNoPairs
<1>1. CardInv => GroupsKeepNoPairs
    BY DEF CardInv, Settled, GroupsKeepNoPairs
<1> QED
    BY InitSettled, NextSettled, <1>1, PTL DEF Spec

-----------------------------------------------------------------------------
(* Picking positions of a list keeps exactly what stands there.            *)
Below(keep, k) == {j \in keep : j < k}

LEMMA RanksFillUp ==
  ASSUME NEW m \in Nat, NEW keep \in SUBSET (1..m)
  PROVE  /\ IsFiniteSet(keep) /\ Cardinality(keep) \in Nat
         /\ \A n \in 1..Cardinality(keep) : \E k \in keep : Cardinality(Below(keep, k)) = n - 1
         /\ \A k \in keep : /\ Cardinality(Below(keep, k)) \in Nat
                            /\ Cardinality(Below(keep, k)) + 1 \in 1..Cardinality(keep)
         /\ \A j, k \in keep : Cardinality(Below(keep, j)) = Cardinality(Below(keep, k)) => j = k
<1> DEFINE size == Cardinality(keep)
           rank == [k \in keep |-> Cardinality(Below(keep, k)) + 1]
<1>1. IsFiniteSet(keep) /\ size \in Nat
  <2>1. IsFiniteSet(1..m)
    BY FS_Interval
  <2>2. IsFiniteSet(keep)
    BY <2>1, FS_Subset
  <2> QED
    BY <2>2, FS_CardinalityType
<1>2. \A k \in keep : /\ IsFiniteSet(Below(keep, k)) /\ Cardinality(Below(keep, k)) \in Nat
                      /\ Cardinality(Below(keep, k)) < size
  <2> SUFFICES ASSUME NEW k \in keep
               PROVE  /\ IsFiniteSet(Below(keep, k)) /\ Cardinality(Below(keep, k)) \in Nat
                      /\ Cardinality(Below(keep, k)) < size
    OBVIOUS
  <2>1. Below(keep, k) \in SUBSET keep /\ k \in Nat
    BY DEF Below
  <2>2. Below(keep, k) # keep
    BY <2>1 DEF Below
  <2>3. /\ IsFiniteSet(Below(keep, k)) /\ Cardinality(Below(keep, k)) \in Nat
        /\ Cardinality(Below(keep, k)) <= size /\ Cardinality(Below(keep, k)) # size
    BY <1>1, <2>1, <2>2, FS_Subset, FS_CardinalityType
  <2> QED
    BY <1>1, <2>3
<1>3. ASSUME NEW j \in keep, NEW k \in keep, j < k
      PROVE  Cardinality(Below(keep, j)) < Cardinality(Below(keep, k))
  <2>1. Below(keep, j) \in SUBSET Below(keep, k) /\ j \in Below(keep, k) /\ j \notin Below(keep, j)
    <3>1. j \in Nat /\ k \in Nat /\ \A i \in keep : i \in Nat
      OBVIOUS
    <3>2. \A i \in keep : i < j => i < k
      BY <1>3, <3>1
    <3>3. ~(j < j)
      BY <3>1
    <3> QED
      BY <1>3, <3>2, <3>3 DEF Below
  <2>2. /\ Cardinality(Below(keep, j)) <= Cardinality(Below(keep, k))
        /\ Cardinality(Below(keep, j)) # Cardinality(Below(keep, k))
    BY <1>2, <2>1, FS_Subset
  <2> QED
    BY <1>2, <2>2
<1>4. \A j, k \in keep : Cardinality(Below(keep, j)) = Cardinality(Below(keep, k)) => j = k
  <2> SUFFICES ASSUME NEW j \in keep, NEW k \in keep, j # k
               PROVE  Cardinality(Below(keep, j)) # Cardinality(Below(keep, k))
    OBVIOUS
  <2>1. j \in Nat /\ k \in Nat
    OBVIOUS
  <2> QED
    BY <1>2, <1>3, <2>1
<1>5. \A k \in keep : Cardinality(Below(keep, k)) + 1 \in 1..size
  BY <1>1, <1>2
<1>6. rank \in Injection(keep, 1..size)
  <2>1. rank \in [keep -> 1..size]
    BY <1>5
  <2>2. \A j, k \in keep : rank[j] = rank[k] => j = k
    BY <1>2, <1>4
  <2> QED
    BY <2>1, <2>2 DEF Injection, IsInjective
<1>7. rank \in Surjection(keep, 1..size)
  <2>1. IsFiniteSet(1..size) /\ Cardinality(1..size) = size
    BY <1>1, FS_Interval
  <2> HIDE DEF rank
  <2> QED
    BY <1>6, <2>1, FS_Injection
<1>8. \A n \in 1..size : \E k \in keep : Cardinality(Below(keep, k)) = n - 1
  <2> SUFFICES ASSUME NEW n \in 1..size PROVE \E k \in keep : Cardinality(Below(keep, k)) = n - 1
    OBVIOUS
  <2>1. PICK k \in keep : rank[k] = n
    BY <1>7 DEF Surjection
  <2>2. Cardinality(Below(keep, k)) + 1 = n /\ Cardinality(Below(keep, k)) \in Nat
    BY <1>2, <2>1
  <2> QED
    BY <2>2
<1> QED
  BY <1>1, <1>2, <1>4, <1>5, <1>8

At(seq, keep) == {seq[k] : k \in keep}

LEMMA PickedIs ==
  ASSUME NEW m \in Nat, NEW seq, NEW keep \in SUBSET (1..m)
  PROVE  /\ DOMAIN Picked(seq, keep) = 1..Cardinality(keep) /\ Cardinality(keep) \in Nat
         /\ Range(Picked(seq, keep)) = At(seq, keep)
         /\ Picked(seq, keep) \in Seq(At(seq, keep))
         /\ Picked(seq, keep) = << >> <=> keep = {}
<1> DEFINE at(n) == CHOOSE k \in keep : Cardinality({j \in keep : j < k}) = n - 1
           size == Cardinality(keep)
<1>1. size \in Nat /\ IsFiniteSet(keep)
  BY RanksFillUp
<1>2. \A n \in 1..size : at(n) \in keep /\ Cardinality(Below(keep, at(n))) = n - 1
  <2> SUFFICES ASSUME NEW n \in 1..size
               PROVE  at(n) \in keep /\ Cardinality(Below(keep, at(n))) = n - 1
    OBVIOUS
  <2>1. \E k \in keep : Cardinality({j \in keep : j < k}) = n - 1
    BY RanksFillUp DEF Below
  <2> QED
    BY <2>1 DEF Below
<1>3. Picked(seq, keep) = [n \in 1..size |-> seq[at(n)]]
  BY DEF Picked
<1>4. \A k \in keep : \E n \in 1..size : at(n) = k
  <2> SUFFICES ASSUME NEW k \in keep PROVE \E n \in 1..size : at(n) = k
    OBVIOUS
  <2> DEFINE n == Cardinality(Below(keep, k)) + 1
  <2>1. n \in 1..size
    BY RanksFillUp
  <2>2. at(n) \in keep /\ Cardinality(Below(keep, at(n))) = n - 1
    BY <1>2, <2>1
  <2>3. Cardinality(Below(keep, at(n))) + 1 \in 1..size
    BY <2>2, RanksFillUp
  <2>4. Cardinality(Below(keep, at(n))) = Cardinality(Below(keep, k))
    <3> HIDE DEF at
    <3>1. Cardinality(Below(keep, k)) \in Nat
      BY RanksFillUp
    <3> QED
      BY <2>2, <3>1
  <2>5. at(n) = k
    BY <2>2, <2>4, RanksFillUp
  <2> QED
    BY <2>1, <2>5
<1> HIDE DEF at
<1>5. Range(Picked(seq, keep)) = At(seq, keep)
  <2>1. Range(Picked(seq, keep)) = {seq[at(n)] : n \in 1..size}
    BY <1>3 DEF Range
  <2>2. {seq[at(n)] : n \in 1..size} \subseteq At(seq, keep)
    BY <1>2 DEF At
  <2>3. ASSUME NEW k \in keep PROVE seq[k] \in {seq[at(n)] : n \in 1..size}
    BY <1>4
  <2> QED
    BY <2>1, <2>2, <2>3 DEF At
<1>6. Picked(seq, keep) \in Seq(At(seq, keep))
  <2>1. Picked(seq, keep) \in [1..size -> At(seq, keep)]
    BY <1>2, <1>3 DEF At
  <2> QED
    BY <1>1, <2>1
<1>7. Picked(seq, keep) = << >> <=> keep = {}
  <2>1. size = 0 <=> keep = {}
    BY <1>1, FS_EmptySet
  <2>2. Len(Picked(seq, keep)) = size
    BY <1>1, <1>3, <1>6
  <2> QED
    BY <1>6, <2>1, <2>2
<1> QED
  BY <1>1, <1>3, <1>5, <1>6, <1>7

LEMMA NothingCapped ==
  ASSUME NEW base
  PROVE  FoldLeft(Capped, base, << >>) = base
<1> DEFINE good(f) == f = [s \in SUBSET {} |-> IF s = {} THEN base
                                               ELSE LET x == Max(s) IN Capped(f[s \ {x}], << >>[x])]
<1>1. FoldLeft(Capped, base, << >>) = (CHOOSE f : good(f))[{}]
  BY DEF FoldLeft, MapThenFoldSet
<1>2. good([s \in SUBSET {} |-> base])
  OBVIOUS
<1>3. good(CHOOSE f : good(f))
  <2> HIDE DEF good
  <2> QED
    BY <1>2
<1> QED
  BY <1>1, <1>3

(* What the engine keeps under the card's own kind of rules.               *)
Ruled(rules) == {p \in Pairs : \A r \in Range(rules) : Includes(r, p)}

LEMMA EnabledCompositesDecide ==
  ASSUME NEW rules, rules \in Seq(Range(rules)),
         \A r \in Range(rules) : r.kind = "COMPOSITE" /\ Enabled(r)
  PROVE  Evaluate(rules, "ALL_OF") = Ruled(rules)
<1> DEFINE m == Len(rules)
           content == ContentRules(rules)
<1>1. m \in Nat /\ DOMAIN rules = 1..m /\ \A k \in DOMAIN rules : rules[k] \in Range(rules)
  BY DEF Range
<1>2. EnabledAt(rules) = DOMAIN rules /\ \A k \in DOMAIN rules : rules[k].kind = "COMPOSITE"
  BY <1>1 DEF EnabledAt
<1>3. content = Picked(rules, DOMAIN rules) /\ Quotas(rules) = Picked(rules, {})
  <2>1. {k \in EnabledAt(rules) : rules[k].kind # "QUOTA"} = DOMAIN rules
    BY <1>2
  <2>2. {k \in EnabledAt(rules) : rules[k].kind = "QUOTA"} = {}
    BY <1>2
  <2> QED
    BY <2>1, <2>2 DEF ContentRules, Quotas
<1>4. Quotas(rules) = << >>
  <2>1. {} \in SUBSET (1..m)
    OBVIOUS
  <2>2. Picked(rules, {}) = << >>
    <3> HIDE DEF m
    <3> QED
      BY <1>1, <2>1, PickedIs
  <2> QED
    BY <1>3, <2>2
<1>5. Range(content) = Range(rules)
  <2>1. DOMAIN rules \in SUBSET (1..m)
    BY <1>1
  <2>2. Range(content) = At(rules, DOMAIN rules)
    BY <1>1, <1>3, <2>1, PickedIs
  <2> QED
    BY <2>2 DEF Range, At
<1>6. Content(content, "ALL_OF") = Ruled(rules)
  <2>1. CASE content = << >>
    <3>1. Range(content) = {}
      BY <2>1 DEF Range
    <3> QED
      BY <1>5, <2>1, <3>1 DEF Content, Ruled
  <2>2. CASE content # << >>
    <3>1. Content(content, "ALL_OF") = {p \in Pairs : \A r \in Range(content) : Includes(r, p)}
      BY <2>2 DEF Content
    <3> QED
      BY <1>5, <3>1 DEF Ruled
  <2> QED
    BY <2>1, <2>2
<1> QED
  BY <1>4, <1>6, NothingCapped DEF Evaluate

-----------------------------------------------------------------------------
(* A card's cells, as the engine reads them.                               *)
LEMMA OpNames ==
  /\ DOMAIN EngineOp = {"IS", "IS NOT", "IS THE SAME AS", "IS DIFFERENT FROM", "IS FILLED", "IS EMPTY"}
  /\ EngineOp["IS"] = "equals" /\ EngineOp["IS NOT"] = "not_equals"
  /\ EngineOp["IS THE SAME AS"] = "same_as" /\ EngineOp["IS DIFFERENT FROM"] = "different_from"
  /\ EngineOp["IS FILLED"] = "is_not_empty" /\ EngineOp["IS EMPTY"] = "is_empty"
BY DEF EngineOp

LEMMA CellHolds ==
  ASSUME NEW c, c.op \in DOMAIN EngineOp, ~Blank(c), NEW p
  PROVE  Holds(MatchRule(c).pred, p) <=> CellMeans(c, p)
<1> DEFINE pred == MatchRule(c).pred
<1>1. pred.field = c.field /\ pred.op = EngineOp[c.op] /\ pred.exact = FALSE
  BY DEF MatchRule
<1>2. pred.op \notin {"is_not_empty", "is_empty"} => pred.val = c.val /\ c.val # ""
  BY <1>1 DEF MatchRule, NoOperandOps, Blank
<1> SUFFICES Holds(pred, p) <=> CellMeans(c, p)
  OBVIOUS
<1> HIDE DEF pred
<1>3. CASE c.op = "IS"
  BY <1>1, <1>2, <1>3, OpNames DEF Holds, CellMeans, Norm
<1>4. CASE c.op = "IS NOT"
  BY <1>1, <1>2, <1>4, OpNames DEF Holds, CellMeans, Norm
<1>5. CASE c.op = "IS THE SAME AS"
  BY <1>1, <1>2, <1>5, OpNames DEF Holds, CellMeans, Norm
<1>6. CASE c.op = "IS DIFFERENT FROM"
  BY <1>1, <1>2, <1>6, OpNames DEF Holds, CellMeans, Norm
<1>7. CASE c.op = "IS FILLED"
  BY <1>1, <1>7, OpNames DEF Holds, CellMeans, Norm
<1>8. CASE c.op = "IS EMPTY"
  BY <1>1, <1>8, OpNames DEF Holds, CellMeans, Norm
<1> QED
  BY <1>3, <1>4, <1>5, <1>6, <1>7, <1>8, OpNames

WrittenCells(link) == {c \in Range(link.cells) : ~Blank(c)}

LEMMA KidsAre ==
  ASSUME NEW link, IsLink(link)
  PROVE  /\ Range(Kids(link)) = IF link.pill = "filter" THEN {MatchRule(c) : c \in WrittenCells(link)} ELSE {}
         /\ Kids(link) \in Seq(Range(Kids(link)))
         /\ Kids(link) = << >> <=> Range(Kids(link)) = {}
<1> DEFINE keep == {k \in DOMAIN link.cells : ~Blank(link.cells[k])}
           cells == Picked(link.cells, keep)
           m == Len(link.cells)
<1>1. m \in Nat /\ DOMAIN link.cells = 1..m /\ keep \in SUBSET (1..m)
  BY DEF IsLink, AreCells
<1>2. /\ DOMAIN cells = 1..Cardinality(keep) /\ Cardinality(keep) \in Nat
      /\ Range(cells) = At(link.cells, keep)
      /\ cells \in Seq(At(link.cells, keep))
  <2>1. m \in Nat /\ keep \in SUBSET (1..m)
    BY <1>1
  <2> HIDE DEF keep, m
  <2> QED
    BY <2>1, PickedIs
<1>3. At(link.cells, keep) = WrittenCells(link)
  BY DEF WrittenCells, Range, At
<1>4. Kids(link) = IF link.pill = "filter" THEN [k \in DOMAIN cells |-> MatchRule(cells[k])] ELSE << >>
  BY DEF Kids
<1> HIDE DEF cells, keep
<1>5. CASE link.pill = "filter"
  <2>1. Range(Kids(link)) = {MatchRule(c) : c \in Range(cells)}
    BY <1>4, <1>5 DEF Range
  <2>2. Kids(link) \in [1..Cardinality(keep) -> Range(Kids(link))]
    BY <1>2, <1>4, <1>5 DEF Range
  <2>3. Kids(link) \in Seq(Range(Kids(link)))
    BY <1>2, <2>2
  <2>4. Kids(link) = << >> <=> Range(Kids(link)) = {}
    BY <2>3 DEF Range
  <2> QED
    BY <1>2, <1>3, <1>5, <2>1, <2>3, <2>4
<1>6. CASE link.pill # "filter"
  <2>1. Kids(link) = << >> /\ Range(Kids(link)) = {}
    BY <1>4, <1>6 DEF Range
  <2> QED
    BY <1>6, <2>1
<1> QED
  BY <1>5, <1>6

(* The operators of the engine's schema, and what each decides.            *)
Decided == {"equals", "not_equals", "same_as", "different_from", "is_not_empty", "is_empty"}

LEMMA HoldsIsBoolean ==
  ASSUME NEW pred, pred.op \in Decided, NEW p
  PROVE  Holds(pred, p) \in BOOLEAN
<1>1. \/ pred.op = "equals" \/ pred.op = "not_equals" \/ pred.op = "same_as"
      \/ pred.op = "different_from" \/ pred.op = "is_not_empty" \/ pred.op = "is_empty"
  BY DEF Decided
<1> QED
  BY <1>1 DEF Holds

LEMMA OnlyFiltersDrop ==
  ASSUME NEW r, r.kind = "COMPOSITE", r.op \in {"AND", "OR"}, NEW p
  PROVE  Includes(r, p) <=> Matches(r, p)
<1>1. Matches(r, p) \in BOOLEAN
  <2>1. CASE r.op = "AND"
    BY <2>1 DEF Matches
  <2>2. CASE r.op = "OR"
    BY <2>2 DEF Matches
  <2> QED
    BY <2>1, <2>2
<1>2. (r.kind = "FILTER") = FALSE
  OBVIOUS
<1>3. Includes(r, p) <=> FALSE # Matches(r, p)
  BY <1>2 DEF Includes
<1> QED
  BY <1>1, <1>3

LEMMA MatchRuleIs ==
  ASSUME NEW link, IsLink(link), NEW c \in WrittenCells(link)
  PROVE  /\ c.op \in DOMAIN EngineOp /\ ~Blank(c)
         /\ MatchRule(c).pred.op = EngineOp[c.op] /\ EngineOp[c.op] \in Decided
<1>1. c.op \in DOMAIN EngineOp /\ ~Blank(c)
  BY DEF IsLink, AreCells, WrittenCells
<1>2. MatchRule(c).pred.op = EngineOp[c.op]
  BY DEF MatchRule
<1> QED
  BY <1>1, <1>2, OpNames DEF Decided

LEMMA CompositeIs ==
  ASSUME NEW id, NEW link, IsLink(link), Kids(link) # << >>
  PROVE  /\ Composite(id, link).kind = "COMPOSITE" /\ Enabled(Composite(id, link))
         /\ EnabledKids(Composite(id, link)) = Range(Kids(link))
<1> DEFINE comp == Composite(id, link)
<1>1. comp.kind = "COMPOSITE" /\ comp.on = TRUE /\ comp.kids = Kids(link)
  BY DEF Composite
<1>2. \A k \in Range(Kids(link)) : k.on
  BY KidsAre DEF MatchRule
<1>3. EnabledKids(comp) = Range(Kids(link))
  BY <1>1, <1>2 DEF EnabledKids
<1>4. Enabled(comp)
  BY <1>1, <1>3, KidsAre DEF Enabled
<1> QED
  BY <1>1, <1>3, <1>4

LEMMA LinkIncludes ==
  ASSUME NEW id, NEW link, IsLink(link), NEW p
  PROVE  LinkMeans(link, p) <=> (Kids(link) # << >> => Includes(Composite(id, link), p))
<1> DEFINE comp == Composite(id, link)
<1>1. CASE link.pill # "filter" \/ WrittenCells(link) = {}
  <2>1. Kids(link) = << >>
    BY <1>1, KidsAre
  <2> QED
    BY <1>1, <2>1 DEF LinkMeans, WrittenCells
<1>2. CASE link.pill = "filter" /\ WrittenCells(link) # {}
  <2>1. Range(Kids(link)) = {MatchRule(c) : c \in WrittenCells(link)} /\ Kids(link) # << >>
    BY <1>2, KidsAre
  <2>2. comp.kind = "COMPOSITE" /\ EnabledKids(comp) = Range(Kids(link)) /\ comp.op = link.comb
    BY <2>1, CompositeIs DEF Composite
  <2>3. \A c \in WrittenCells(link) : Holds(MatchRule(c).pred, p) <=> CellMeans(c, p)
    BY CellHolds, MatchRuleIs
  <2> HIDE DEF comp
  <2>4. CASE link.comb = "AND"
    <3>1. Includes(comp, p) <=> \A k \in Range(Kids(link)) : Holds(k.pred, p)
      <4>1. Matches(comp, p) <=> FALSE \notin {Holds(k.pred, p) : k \in Range(Kids(link))}
        BY <2>2, <2>4 DEF Matches
      <4>2. \A k \in Range(Kids(link)) : Holds(k.pred, p) \in BOOLEAN
        BY <2>1, MatchRuleIs, HoldsIsBoolean
      <4>3. Matches(comp, p) <=> \A k \in Range(Kids(link)) : Holds(k.pred, p)
        BY <4>1, <4>2
      <4> QED
        BY <2>2, <2>4, <4>3, OnlyFiltersDrop
    <3>2. LinkMeans(link, p) <=> \A c \in WrittenCells(link) : CellMeans(c, p)
      BY <1>2, <2>4 DEF LinkMeans, WrittenCells
    <3> QED
      BY <2>1, <2>3, <3>1, <3>2 DEF comp
  <2>5. CASE link.comb = "OR"
    <3>1. Includes(comp, p) <=> \E k \in Range(Kids(link)) : Holds(k.pred, p)
      <4>1. Matches(comp, p) <=> TRUE \in {Holds(k.pred, p) : k \in Range(Kids(link))}
        BY <2>2, <2>5 DEF Matches
      <4>2. \A k \in Range(Kids(link)) : Holds(k.pred, p) \in BOOLEAN
        BY <2>1, MatchRuleIs, HoldsIsBoolean
      <4>3. Matches(comp, p) <=> \E k \in Range(Kids(link)) : Holds(k.pred, p)
        BY <4>1, <4>2
      <4> QED
        BY <2>2, <2>5, <4>3, OnlyFiltersDrop
    <3>2. LinkMeans(link, p) <=> \E c \in WrittenCells(link) : CellMeans(c, p)
      BY <1>2, <2>5 DEF LinkMeans, WrittenCells
    <3> QED
      BY <2>1, <2>3, <3>1, <3>2 DEF comp
  <2> QED
    BY <2>4, <2>5 DEF IsLink
<1> QED
  BY <1>1, <1>2

-----------------------------------------------------------------------------
(* The rule list a card stores.                                            *)
Ruling(form) == {l \in {"link1", "link2"} : Kids(form[l]) # << >>}

LEMMA BuiltIs ==
  ASSUME NEW form
  PROVE  /\ BuildRules(form) \in Seq(Range(BuildRules(form)))
         /\ Range(BuildRules(form)) = {Composite(l, form[l]) : l \in Ruling(form)}
         /\ BuildRules(form) = << >> <=> Ruling(form) = {}
         /\ \A i, j \in DOMAIN BuildRules(form) :
               BuildRules(form)[i].id = BuildRules(form)[j].id => i = j
<1> DEFINE c1 == Composite("link1", form["link1"])
           c2 == Composite("link2", form["link2"])
           built == BuildRules(form)
<1>1. c1.id = "link1" /\ c2.id = "link2"
  BY DEF Composite
<1>2. built = (IF "link1" \in Ruling(form) THEN <<c1>> ELSE << >>)
                \o (IF "link2" \in Ruling(form) THEN <<c2>> ELSE << >>)
  BY DEF BuildRules, Ruling
<1>3. Ruling(form) \subseteq {"link1", "link2"}
  BY DEF Ruling
<1> SUFFICES /\ built \in Seq(Range(built))
             /\ Range(built) = {Composite(l, form[l]) : l \in Ruling(form)}
             /\ built = << >> <=> Ruling(form) = {}
             /\ \A i, j \in DOMAIN built : built[i].id = built[j].id => i = j
  OBVIOUS
<1> HIDE DEF built
<1>4. CASE Ruling(form) = {}
  <2>1. built = << >>
    BY <1>2, <1>4
  <2> QED
    BY <1>4, <2>1 DEF Range
<1>5. ASSUME NEW l, l \in {"link1", "link2"}, Ruling(form) = {l}
      PROVE  /\ built \in Seq(Range(built))
             /\ Range(built) = {Composite(l, form[l])}
             /\ built # << >>
             /\ \A i, j \in DOMAIN built : built[i].id = built[j].id => i = j
  <2> DEFINE c == Composite(l, form[l])
  <2>1. built = <<c>>
    <3>1. CASE l = "link1"
      <4>1. built = <<c1>> \o << >>
        BY <1>2, <1>5, <3>1
      <4> HIDE DEF c1
      <4>2. built = <<c1>>
        BY <4>1
      <4> QED
        BY <3>1, <4>2 DEF c1
    <3>2. CASE l = "link2"
      <4>1. built = << >> \o <<c2>>
        BY <1>2, <1>5, <3>2
      <4> HIDE DEF c2
      <4>2. built = <<c2>>
        BY <4>1
      <4> QED
        BY <3>2, <4>2 DEF c2
    <3> QED
      BY <1>5, <3>1, <3>2
  <2> HIDE DEF c
  <2>2. DOMAIN built = {1} /\ built[1] = c /\ built # << >>
    BY <2>1
  <2>3. Range(built) = {c}
    BY <2>2 DEF Range
  <2>4. built \in Seq(Range(built))
    BY <2>1, <2>3
  <2> QED
    BY <2>2, <2>3, <2>4 DEF c
<1>6. CASE Ruling(form) = {"link1", "link2"}
  <2>1. built = <<c1>> \o <<c2>>
    BY <1>2, <1>6
  <2>2. {Composite(l, form[l]) : l \in Ruling(form)} = {c1, c2}
    BY <1>6
  <2> HIDE DEF c1, c2
  <2>3. <<c1>> \in Seq({c1, c2}) /\ <<c2>> \in Seq({c1, c2}) /\ Len(<<c1>>) = 1 /\ Len(<<c2>>) = 1
    OBVIOUS
  <2>4. built \in Seq({c1, c2}) /\ Len(built) = 2 /\ built[1] = c1 /\ built[2] = c2
    BY <2>1, <2>3
  <2>5. DOMAIN built = {1, 2} /\ built # << >>
    BY <2>4
  <2>6. Range(built) = {c1, c2}
    BY <2>4, <2>5 DEF Range
  <2>7. \A i, j \in DOMAIN built : built[i].id = built[j].id => i = j
    BY <1>1, <2>4, <2>5
  <2> QED
    BY <1>6, <2>2, <2>4, <2>5, <2>6, <2>7
<1>7. Ruling(form) = {} \/ Ruling(form) = {"link1"} \/ Ruling(form) = {"link2"}
      \/ Ruling(form) = {"link1", "link2"}
  BY <1>3
<1>8. CASE \E l \in {"link1", "link2"} : Ruling(form) = {l}
  <2>1. PICK l \in {"link1", "link2"} : Ruling(form) = {l}
    BY <1>8
  <2>2. \A x : x \in {Composite(m, form[m]) : m \in Ruling(form)} <=> x = Composite(l, form[l])
    BY <2>1
  <2>3. {Composite(m, form[m]) : m \in Ruling(form)} = {Composite(l, form[l])}
    BY <2>2
  <2> QED
    BY <1>5, <2>1, <2>2, <2>3
<1> QED
  BY <1>4, <1>6, <1>7, <1>8

(* ... keeps the pairs its words describe.                                 *)
LEMMA BuiltKeeps ==
  ASSUME NEW form, IsForm(form)
  PROVE  /\ \A r \in Range(BuildRules(form)) : r.kind = "COMPOSITE" /\ Enabled(r)
         /\ Evaluate(BuildRules(form), "ALL_OF") =
               {p \in Pairs : LinkMeans(form.link1, p) /\ LinkMeans(form.link2, p)}
<1> DEFINE built == BuildRules(form)
<1>1. IsLink(form["link1"]) /\ IsLink(form["link2"])
  BY DEF IsForm
<1>2. \A r \in Range(built) : r.kind = "COMPOSITE" /\ Enabled(r)
  <2> SUFFICES ASSUME NEW l \in Ruling(form)
               PROVE  Composite(l, form[l]).kind = "COMPOSITE" /\ Enabled(Composite(l, form[l]))
    BY BuiltIs
  <2>1. IsLink(form[l]) /\ Kids(form[l]) # << >>
    BY <1>1 DEF Ruling
  <2> QED
    BY <2>1, CompositeIs
<1>3. Evaluate(built, "ALL_OF") = Ruled(built)
  BY <1>2, BuiltIs, EnabledCompositesDecide
<1>4. ASSUME NEW p
      PROVE  (\A r \in Range(built) : Includes(r, p)) <=> LinkMeans(form.link1, p) /\ LinkMeans(form.link2, p)
  <2>1. (\A r \in Range(built) : Includes(r, p))
           <=> \A l \in Ruling(form) : Includes(Composite(l, form[l]), p)
    BY BuiltIs
  <2>2. ASSUME NEW l \in {"link1", "link2"}
        PROVE  LinkMeans(form[l], p) <=> (l \in Ruling(form) => Includes(Composite(l, form[l]), p))
    <3>1. IsLink(form[l])
      BY <1>1
    <3> QED
      BY <3>1, LinkIncludes DEF Ruling
  <2>3. Ruling(form) \subseteq {"link1", "link2"}
    BY DEF Ruling
  <2> QED
    BY <2>1, <2>2, <2>3
<1> QED
  BY <1>2, <1>3, <1>4 DEF Ruled

-----------------------------------------------------------------------------
(* Every card on a page, and every one posted, is a form.                  *)
LEMMA ShownAtIs ==
  ASSUME NEW rules, AreRules(rules), NEW id, ShownAt(rules, id) # {}
  PROVE  Max(ShownAt(rules, id)) \in ShownAt(rules, id)
<1> DEFINE at == ShownAt(rules, id)
<1>1. Len(rules) \in Nat /\ at \in SUBSET (1..Len(rules)) /\ at # {}
  BY DEF AreRules, ShownAt
<1>2. IsFiniteSet(at) /\ at \in SUBSET Nat
  <2>1. IsFiniteSet(1..Len(rules))
    BY <1>1, FS_Interval
  <2> HIDE DEF at
  <2>2. IsFiniteSet(at)
    BY <1>1, <2>1, FS_Subset
  <2> QED
    BY <1>1, <2>2
<1>3. PICK m \in at : \A j \in at : j <= m
  <2> HIDE DEF at
  <2> QED
    BY <1>1, <1>2, GreatestExists
<1>4. \E m2 \in at : \A j \in at : m2 >= j
  BY <1>2, <1>3
<1> QED
  BY <1>4 DEF Max

LEMMA OffersAre ==
  /\ CardOps["link1"] = {"equals", "not_equals", "is_not_empty", "is_empty"}
  /\ CardOps["link2"] = Decided
  /\ \A o \in Decided : \E l \in DOMAIN EngineOp : EngineOp[l] = o
<1>1. Range(EngineOp) = Decided
  BY OpNames DEF Range, Decided
<1>2. \A o \in Decided : \E l \in DOMAIN EngineOp : EngineOp[l] = o
  BY OpNames DEF Decided
<1> QED
  BY <1>1, <1>2 DEF CardOps, NoOperandOps

LEMMA ShownCellOp ==
  ASSUME NEW id \in {"link1", "link2"}, NEW pred
  PROVE  /\ ShownCell(id, pred).op \in DOMAIN EngineOp
         /\ pred.op \in CardOps[id] => EngineOp[ShownCell(id, pred).op] = pred.op
<1> DEFINE named == CHOOSE l \in DOMAIN EngineOp : EngineOp[l] = pred.op
<1>1. ShownCell(id, pred).op = IF pred.op \in CardOps[id] THEN named ELSE "IS"
  BY DEF ShownCell
<1>2. pred.op \in CardOps[id] => \E l \in DOMAIN EngineOp : EngineOp[l] = pred.op
  BY OffersAre DEF Decided
<1>3. pred.op \in CardOps[id] => named \in DOMAIN EngineOp /\ EngineOp[named] = pred.op
  BY <1>2
<1> QED
  BY <1>1, <1>3, OpNames

LEMMA DefaultIsCell == AreCells(<<DefaultCell>>)
<1>1. Range(<<DefaultCell>>) = {DefaultCell}
  BY DEF Range
<1>2. DefaultCell.op \in DOMAIN EngineOp
  BY OpNames DEF DefaultCell
<1> HIDE DEF DefaultCell
<1> QED
  BY <1>1, <1>2 DEF AreCells

(* What a Link of the card draws of a stored rule.                         *)
ShownKids(rule0) == Picked(rule0.kids, {k \in DOMAIN rule0.kids : rule0.kids[k].on /\ rule0.kids[k].kind = "MATCH"})

LEMMA ShownLinkIs ==
  ASSUME NEW i, AreRules(i.rules), NEW id \in {"link1", "link2"}
  PROVE  /\ IsLink(ShownLink(i, id))
         /\ ShownLink(i, id).pill = IF id \notin i.touched THEN "not set"
                                    ELSE IF ShownAt(i.rules, id) = {} THEN "all" ELSE "filter"
<1> DEFINE at == ShownAt(i.rules, id)
           top == i.rules[Max(at)]
           kids == ShownKids(top)
           link == ShownLink(i, id)
           cells == [k \in DOMAIN kids |-> ShownCell(id, kids[k].pred)]
<1>1. /\ link.pill = CASE id \notin i.touched -> "not set"
                       [] id \in i.touched /\ at = {} -> "all"
                       [] id \in i.touched /\ at # {} -> "filter"
      /\ link.comb = IF at # {} /\ top.op = "OR" THEN "OR" ELSE "AND"
      /\ link.cells = IF at = {} \/ kids = << >> THEN <<DefaultCell>> ELSE cells
      /\ link = [pill |-> link.pill, comb |-> link.comb, cells |-> link.cells]
  BY DEF ShownLink, ShownKids
<1>2. at # {} => kids \in Seq(Range(kids))
  <2> SUFFICES ASSUME at # {} PROVE kids \in Seq(Range(kids))
    OBVIOUS
  <2> DEFINE keep == {k \in DOMAIN top.kids : top.kids[k].on /\ top.kids[k].kind = "MATCH"}
  <2>1. Max(at) \in at
    BY ShownAtIs
  <2>2. top \in Range(i.rules) /\ top.kind = "COMPOSITE"
    BY <2>1 DEF ShownAt, Range
  <2>3. Len(top.kids) \in Nat /\ keep \in SUBSET (1..Len(top.kids))
    BY <2>2 DEF AreRules
  <2>4. kids = Picked(top.kids, keep)
    BY DEF ShownKids
  <2> HIDE DEF keep, top, kids
  <2>5. kids \in Seq(At(top.kids, keep)) /\ Range(kids) = At(top.kids, keep)
    BY <2>3, <2>4, PickedIs
  <2> QED
    BY <2>5
<1>3. AreCells(link.cells)
  <2>1. CASE at = {} \/ kids = << >>
    BY <1>1, <2>1, DefaultIsCell
  <2>2. CASE at # {} /\ kids # << >>
    <3>1. link.cells = cells
      BY <1>1, <2>2
    <3>2. cells \in Seq(Range(cells))
      <4>1. DOMAIN cells = 1..Len(kids) /\ Len(kids) \in Nat
        BY <1>2, <2>2
      <4>2. cells \in [1..Len(kids) -> Range(cells)]
        BY <4>1 DEF Range
      <4> HIDE DEF cells, kids
      <4> QED
        BY <4>1, <4>2
    <3>3. \A c \in Range(cells) : c.op \in DOMAIN EngineOp
      BY ShownCellOp DEF Range
    <3> HIDE DEF cells
    <3> QED
      BY <3>1, <3>2, <3>3 DEF AreCells
  <2> QED
    BY <2>1, <2>2
<1> HIDE DEF link
<1> QED
  BY <1>1, <1>3 DEF IsLink, link

LEMMA ShownIsForm ==
  ASSUME NEW i, AreRules(i.rules)
  PROVE  IsForm(ShownCard(i))
<1>1. IsLink(ShownLink(i, "link1")) /\ IsLink(ShownLink(i, "link2"))
  BY ShownLinkIs
<1> QED
  BY <1>1 DEF IsForm, ShownCard

LEMMA TickIsForm ==
  ASSUME NEW form, IsForm(form), NEW tick
  PROVE  IsForm([form EXCEPT !.tick = tick])
BY DEF IsForm

LEMMA UnitIsForm ==
  ASSUME NEW form, IsForm(form), NEW unit
  PROVE  IsForm([form EXCEPT !.link3.pill = unit])
<1> DEFINE f == [form EXCEPT !.link3.pill = unit]
<1>1. /\ f.at = form.at /\ f.link1 = form.link1 /\ f.link2 = form.link2 /\ f.tick = form.tick
      /\ f.link3 = [form.link3 EXCEPT !.pill = unit]
      /\ f = [at |-> f.at, link1 |-> f.link1, link2 |-> f.link2, link3 |-> f.link3, tick |-> f.tick]
  BY DEF IsForm
<1>2. f.link3 = [pill |-> f.link3.pill] /\ form.at = "open"
  BY <1>1 DEF IsForm
<1> HIDE DEF f
<1>3. f = [at |-> "open", link1 |-> f.link1, link2 |-> f.link2, link3 |-> [pill |-> f.link3.pill], tick |-> f.tick]
  BY <1>1, <1>2
<1>4. IsLink(f.link1) /\ IsLink(f.link2)
  BY <1>1 DEF IsForm
<1> QED
  BY <1>3, <1>4 DEF IsForm, f

LEMMA LinkIsForm ==
  ASSUME NEW form, IsForm(form), NEW l \in {"link1", "link2"}, NEW link, IsLink(link)
  PROVE  IsForm([form EXCEPT ![l] = link])
<1> DEFINE f == [form EXCEPT ![l] = link]
<1>1. form = [at |-> "open", link1 |-> form.link1, link2 |-> form.link2,
              link3 |-> [pill |-> form.link3.pill], tick |-> form.tick]
  BY DEF IsForm
<1>2. /\ f.at = form.at /\ f.link3 = form.link3 /\ f.tick = form.tick
      /\ f.link1 = IF l = "link1" THEN link ELSE form.link1
      /\ f.link2 = IF l = "link2" THEN link ELSE form.link2
      /\ f = [at |-> f.at, link1 |-> f.link1, link2 |-> f.link2, link3 |-> f.link3, tick |-> f.tick]
  <2>1. DOMAIN form = {"at", "link1", "link2", "link3", "tick"}
    BY <1>1
  <2>2. f = [x \in {"at", "link1", "link2", "link3", "tick"} |-> IF x = l THEN link ELSE form[x]]
    BY <2>1
  <2> HIDE DEF f
  <2>3. /\ f["at"] = form["at"] /\ f["link3"] = form["link3"] /\ f["tick"] = form["tick"]
        /\ f["link1"] = IF l = "link1" THEN link ELSE form["link1"]
        /\ f["link2"] = IF l = "link2" THEN link ELSE form["link2"]
    BY <2>2
  <2>4. f = [at |-> f["at"], link1 |-> f["link1"], link2 |-> f["link2"], link3 |-> f["link3"], tick |-> f["tick"]]
    BY <2>2
  <2> QED
    BY <2>3, <2>4
<1>3. form.at = "open" /\ form.link3 = [pill |-> form.link3.pill]
  BY <1>1
<1> SUFFICES IsForm(f)
  OBVIOUS
<1> HIDE DEF f
<1>4. f = [at |-> "open", link1 |-> f.link1, link2 |-> f.link2, link3 |-> [pill |-> f.link3.pill], tick |-> f.tick]
  BY <1>2, <1>3
<1>5. IsLink(f.link1) /\ IsLink(f.link2)
  BY <1>2 DEF IsForm
<1> QED
  BY <1>4, <1>5 DEF IsForm

LEMMA LinkEdits ==
  ASSUME NEW form, IsForm(form), NEW l \in {"link1", "link2"}
  PROVE  /\ \A x : IsForm([form EXCEPT ![l].pill = x])
         /\ \A x \in {"AND", "OR"} : IsForm([form EXCEPT ![l].comb = x])
         /\ \A x : AreCells(x) => IsForm([form EXCEPT ![l].cells = x])
<1>1. IsLink(form[l])
  BY DEF IsForm
<1>2. \A x : IsLink([form[l] EXCEPT !.pill = x])
  BY <1>1 DEF IsLink
<1>3. \A x \in {"AND", "OR"} : IsLink([form[l] EXCEPT !.comb = x])
  BY <1>1 DEF IsLink
<1>4. \A x : AreCells(x) => IsLink([form[l] EXCEPT !.cells = x])
  BY <1>1 DEF IsLink
<1>5. /\ \A x : [form EXCEPT ![l].pill = x] = [form EXCEPT ![l] = [form[l] EXCEPT !.pill = x]]
      /\ \A x : [form EXCEPT ![l].comb = x] = [form EXCEPT ![l] = [form[l] EXCEPT !.comb = x]]
      /\ \A x : [form EXCEPT ![l].cells = x] = [form EXCEPT ![l] = [form[l] EXCEPT !.cells = x]]
  OBVIOUS
<1> QED
  BY <1>2, <1>3, <1>4, <1>5, LinkIsForm

(* What an edited page holds is still a form.                              *)
LEMMA EditedTyped ==
  ASSUME TypeOK, NEW t \in Tabs, NEW form, IsForm(form), Edited(t, form)
  PROVE  TypeOK'
<1>1. /\ pages' = [pages EXCEPT ![t] = form]
      /\ inst' = inst /\ request' = request /\ overtaken' = overtaken
  BY DEF Edited
<1>2. pages' = [u \in Tabs |-> pages'[u]] /\ \A u \in Tabs : pages'[u] = NoPage \/ IsForm(pages'[u])
  BY <1>1 DEF TypeOK
<1> QED
  BY <1>1, <1>2 DEF TypeOK, IsStored

LEMMA BuiltAreRules ==
  ASSUME NEW form, IsForm(form)
  PROVE  AreRules(BuildRules(form))
<1> SUFFICES ASSUME NEW l \in Ruling(form)
             PROVE  /\ Composite(l, form[l]).kids \in Seq(Range(Composite(l, form[l]).kids))
                    /\ \A k \in Range(Composite(l, form[l]).kids) :
                          /\ k.pred = [field |-> k.pred.field, op |-> k.pred.op,
                                       exact |-> k.pred.exact, val |-> k.pred.val]
                          /\ k.pred.exact \in BOOLEAN
  <2>1. \A r \in Range(BuildRules(form)) : \E l \in Ruling(form) : r = Composite(l, form[l])
    BY BuiltIs
  <2> QED
    <3>1. \A r \in Range(BuildRules(form)) : r.kind # "QUOTA"
      BY <2>1 DEF Composite
    <3> QED
      BY <2>1, <3>1, BuiltIs DEF AreRules
<1>1. IsLink(form[l]) /\ Composite(l, form[l]).kids = Kids(form[l])
  BY DEF IsForm, Ruling, Composite
<1>2. \A k \in Range(Kids(form[l])) : \E c \in WrittenCells(form[l]) : k = MatchRule(c)
  BY <1>1, KidsAre
<1>3. \A c : /\ MatchRule(c).pred = [field |-> MatchRule(c).pred.field, op |-> MatchRule(c).pred.op,
                                    exact |-> MatchRule(c).pred.exact, val |-> MatchRule(c).pred.val]
             /\ MatchRule(c).pred.exact \in BOOLEAN
  BY DEF MatchRule
<1> QED
  BY <1>1, <1>2, <1>3, KidsAre

LEMMA SaveIsStored ==
  ASSUME NEW i, IsStored(i), NEW form, IsForm(form), NEW row
  PROVE  IsStored(SaveStores(i, form, row))
<1> DEFINE built == BuildRules(form)
           value == Exclusion(form, row)
           writes == row.set \/ built # << >> \/ value
           s == SaveStores(i, form, row)
<1>1. /\ s.rules = IF writes THEN built ELSE i.rules
      /\ s.set = (i.set \/ writes)
      /\ s.excl = IF writes THEN value ELSE i.excl
      /\ s.touched = IF Touched(form) = row.touched THEN i.touched ELSE Touched(form)
      /\ s.grouped = IF Grouped(form) = row.grouped THEN i.grouped ELSE Grouped(form)
      /\ s.comb = "ALL_OF" \/ s.comb = i.comb
  BY DEF SaveStores
<1>2. value \in BOOLEAN /\ Grouped(form) \in BOOLEAN /\ Touched(form) \subseteq Links
  BY DEF Exclusion, Grouped, Touched
<1>3. AreRules(built) /\ AreRules(i.rules)
  BY BuiltAreRules DEF IsStored
<1> HIDE DEF s, built, value
<1>4. AreRules(s.rules)
  BY <1>1, <1>3
<1>5. s.touched \subseteq Links
  BY <1>1, <1>2 DEF IsStored
<1>6. s.set \in BOOLEAN /\ s.excl \in BOOLEAN
  BY <1>1, <1>2 DEF IsStored
<1>7. s.grouped \in BOOLEAN
  BY <1>1, <1>2 DEF IsStored
<1>8. s.comb \in {"ALL_OF", "ANY_OF", "PIPELINE"}
  BY <1>1 DEF IsStored
<1> QED
  BY <1>4, <1>5, <1>6, <1>7, <1>8 DEF IsStored, s

LEMMA InitTyped == Init => TypeOK
<1> SUFFICES ASSUME Init PROVE TypeOK
  OBVIOUS
<1>1. IsStored(inst)
  <2>1. CASE inst = NewInstrument
    <3>1. AreRules(<< >>)
      BY DEF AreRules, Range
    <3> QED
      BY <2>1, <3>1 DEF IsStored, NewInstrument
  <2>2. CASE inst \in Legacy
    BY <2>2, StoredAssumption
  <2> QED
    BY <2>1, <2>2 DEF Init
<1> QED
  BY <1>1 DEF Init, TypeOK

LEMMA ImportIsStored ==
  ASSUME NEW f \in Files
  PROVE  IsStored(Imported(f))
<1>1. IsStored(f)
  BY StoredAssumption
<1>2. ShownLinks(f.rules) \subseteq Links
  BY DEF ShownLinks, Links
<1> QED
  BY <1>1, <1>2 DEF IsStored, Imported

LEMMA NextTyped == TypeOK /\ [Next]_vars => TypeOK'
<1> SUFFICES ASSUME TypeOK, [Next]_vars PROVE TypeOK'
  OBVIOUS
<1>1. ASSUME NEW t \in Tabs, OpenPage(t) PROVE TypeOK'
  <2>1. IsForm(ShownCard(inst))
    BY ShownIsForm DEF TypeOK, IsStored
  <2> HIDE DEF ShownCard
  <2> QED
    BY <1>1, <2>1 DEF OpenPage, TypeOK, IsStored
<1>2. ASSUME NEW t \in Tabs, Editing(t) PROVE IsForm(pages[t])
  <2>1. pages[t] # NoPage
    BY <1>2 DEF Editing, NoPage
  <2> QED
    BY <2>1 DEF TypeOK
<1>3. ASSUME NEW t \in Tabs, NEW l \in {"link1", "link2"}, CyclePill(t, l) PROVE TypeOK'
  <2>1. IsForm([pages[t] EXCEPT ![l].pill = Next3[@]])
    BY <1>2, <1>3, LinkEdits DEF CyclePill
  <2> QED
    BY <1>3, <2>1, TickIsForm, EditedTyped DEF CyclePill, Synced
<1>4. ASSUME NEW t \in Tabs, CycleUnit(t) PROVE TypeOK'
  <2> DEFINE unit == NextUnit(pages[t])
             f1 == [pages[t] EXCEPT !.link3.pill = unit]
             f2 == [pages[t] EXCEPT !.link3.pill = unit, !.tick = @ /\ unit # "group"]
  <2>1. IsForm(pages[t])
    BY <1>2, <1>4 DEF CycleUnit
  <2>2. IsForm(f1)
    BY <2>1, UnitIsForm
  <2>3. IsForm(f2)
    <3>1. f2 = [f1 EXCEPT !.tick = pages[t].tick /\ unit # "group"]
      BY <2>1 DEF IsForm
    <3> HIDE DEF f1, f2, unit
    <3> QED
      BY <2>2, <3>1, TickIsForm
  <2>4. Edited(t, Synced(f2))
    BY <1>4 DEF CycleUnit
  <2> HIDE DEF f2
  <2> QED
    BY <2>3, <2>4, TickIsForm, EditedTyped DEF Synced
<1>5. ASSUME NEW t \in Tabs, NEW l \in {"link1", "link2"}, TypeCells(t, l) PROVE TypeOK'
  <2>1. PICK cells \in CellLists[l] : Edited(t, [pages[t] EXCEPT ![l].cells = cells])
    BY <1>5 DEF TypeCells
  <2>2. AreCells(cells)
    BY <2>1, CellsAssumption
  <2> QED
    BY <1>2, <1>5, <2>1, <2>2, LinkEdits, EditedTyped DEF TypeCells
<1>6. ASSUME NEW t \in Tabs, NEW l \in {"link1", "link2"}, ToggleCombinator(t, l) PROVE TypeOK'
  <2>1. IsForm([pages[t] EXCEPT ![l].comb = IF @ = "AND" THEN "OR" ELSE "AND"])
    BY <1>2, <1>6, LinkEdits DEF ToggleCombinator
  <2> QED
    BY <1>6, <2>1, EditedTyped DEF ToggleCombinator
<1>7. ASSUME NEW t \in Tabs, ToggleTick(t) PROVE TypeOK'
  <2>1. IsForm([pages[t] EXCEPT !.tick = ~@])
    BY <1>2, <1>7, TickIsForm DEF ToggleTick
  <2> QED
    BY <1>7, <2>1, EditedTyped DEF ToggleTick
<1>8. ASSUME NEW t \in Tabs, Send(t) PROVE TypeOK'
  <2>1. IsForm(pages[t])
    <3>1. pages[t] # NoPage
      BY <1>8 DEF Send, NoPage
    <3> QED
      BY <3>1 DEF TypeOK
  <2>2. request' = [request EXCEPT ![t] = [at |-> "posted", form |-> pages[t], row |-> Row(inst)]]
        /\ inst' = inst /\ pages' = pages /\ overtaken' = overtaken
    BY <1>8 DEF Send
  <2>3. /\ request' = [u \in Tabs |-> request'[u]]
        /\ \A u \in Tabs : request'[u] = NoRequest \/ IsForm(request'[u].form)
    BY <2>1, <2>2 DEF TypeOK
  <2> QED
    BY <2>2, <2>3 DEF TypeOK, IsStored
<1>9. ASSUME NEW t \in Tabs, request' = [request EXCEPT ![t] = NoRequest], IsStored(inst'),
             overtaken' \in BOOLEAN, pages' = pages
      PROVE  TypeOK'
  <2>1. /\ request' = [u \in Tabs |-> request'[u]]
        /\ \A u \in Tabs : request'[u] = NoRequest \/ IsForm(request'[u].form)
    BY <1>9 DEF TypeOK
  <2> QED
    BY <1>9, <2>1 DEF TypeOK, IsStored
<1>10. ASSUME NEW t \in Tabs, Save(t) PROVE TypeOK'
  <2>1. IsForm(request[t].form)
    BY <1>10 DEF Save, TypeOK
  <2>2. IsStored(inst')
    BY <1>10, <2>1, SaveIsStored DEF Save, TypeOK
  <2>3. overtaken' \in BOOLEAN
    BY <1>10 DEF Save, TypeOK
  <2> QED
    BY <1>9, <1>10, <2>2, <2>3 DEF Save
<1>11. ASSUME NEW t \in Tabs, RefuseSave(t) PROVE TypeOK'
  <2>1. IsStored(inst') /\ overtaken' \in BOOLEAN
    BY <1>11 DEF RefuseSave, TypeOK
  <2> QED
    BY <1>9, <1>11, <2>1 DEF RefuseSave
<1>12. CASE ImportFile
  <2>1. IsStored(inst')
    BY <1>12, ImportIsStored DEF ImportFile
  <2> QED
    BY <1>12, <2>1 DEF ImportFile, TypeOK, IsStored
<1>13. CASE UNCHANGED vars
  BY <1>13 DEF vars, TypeOK, IsStored
<1> QED
  BY <1>1, <1>3, <1>4, <1>5, <1>6, <1>7, <1>8, <1>10, <1>11, <1>12, <1>13 DEF Next

-----------------------------------------------------------------------------
(* What an instrument's rules are, beside the rules Settled asks for: the  *)
(* schema reads them, and a Link with rules the card shows is not Not set. *)
Unmaterialized(i) == ~i.set => i.rules = << >> /\ ~i.excl
Recorded(i) == i.touched # {} /\ Represented(i.rules) => ShownLinks(i.rules) \subseteq i.touched

RulesInv ==
    /\ TypeOK /\ CardInv
    /\ ~PayloadError(inst.rules) /\ Unmaterialized(inst)
    /\ ~overtaken => Recorded(inst)

LEMMA NoRules == ~PayloadError(<< >>) /\ ShownLinks(<< >>) = {}
<1>1. DOMAIN << >> = {} /\ Range(<< >>) = {}
  BY DEF Range
<1> QED
  BY <1>1 DEF PayloadError, ShownLinks, ShownAt

LEMMA InitRuled == Init => RulesInv
<1> SUFFICES ASSUME Init PROVE RulesInv
  OBVIOUS
<1>1. CASE inst = NewInstrument
  BY <1>1, NoRules, InitTyped, InitSettled DEF RulesInv, NewInstrument, Unmaterialized, Recorded
<1>2. CASE inst \in Legacy
  BY <1>2, LegacyAssumption, RecordedAssumption, InitTyped, InitSettled
  DEF RulesInv, Unmaterialized, Recorded
<1> QED
  BY <1>1, <1>2 DEF Init

LEMMA SavedRules ==
  ASSUME NEW i, Unmaterialized(i), NEW form, NEW row
  PROVE  LET s == SaveStores(i, form, row)
         IN  /\ Unmaterialized(s)
             /\ s.rules = BuildRules(form) \/ s.rules = i.rules
             /\ row.set = i.set => s.rules = BuildRules(form) /\ (s.excl <=> Exclusion(form, row))
<1> DEFINE built == BuildRules(form)
           value == Exclusion(form, row)
           writes == row.set \/ built # << >> \/ value
           s == SaveStores(i, form, row)
<1>1. /\ s.rules = IF writes THEN built ELSE i.rules
      /\ s.set = (i.set \/ writes)
      /\ s.excl = IF writes THEN value ELSE i.excl
  BY DEF SaveStores
<1> SUFFICES /\ Unmaterialized(s)
             /\ s.rules = built \/ s.rules = i.rules
             /\ row.set = i.set => s.rules = built /\ (s.excl <=> value)
  OBVIOUS
<1> HIDE DEF s, built, value
<1>2. CASE writes
  <2>1. s.rules = built /\ (s.excl <=> value) /\ s.set
    BY <1>1, <1>2
  <2> QED
    BY <2>1 DEF Unmaterialized
<1>3. CASE ~writes
  <2>1. s.rules = i.rules /\ (s.excl <=> i.excl) /\ (s.set <=> i.set) /\ ~row.set /\ built = << >> /\ ~value
    BY <1>1, <1>3
  <2> QED
    BY <2>1 DEF Unmaterialized
<1> QED
  BY <1>2, <1>3

LEMMA BuiltIsRecorded ==
  ASSUME NEW form
  PROVE  ShownLinks(BuildRules(form)) \subseteq Touched(form)
<1> SUFFICES ASSUME NEW l \in ShownLinks(BuildRules(form)) PROVE l \in Touched(form)
  OBVIOUS
<1>1. \E r \in Range(BuildRules(form)) : r.id = l
  BY DEF ShownLinks, ShownAt, Range
<1>2. PICK m \in Ruling(form) : Composite(m, form[m]).id = l
  BY <1>1, BuiltIs
<1>3. l \in Ruling(form)
  BY <1>2 DEF Composite
<1>4. form[l].pill = "filter" /\ l \in Links
  BY <1>3 DEF Ruling, Kids, Links
<1> QED
  BY <1>4 DEF Touched

LEMMA SaveRules ==
  ASSUME RulesInv, NEW t \in Tabs, Save(t)
  PROVE  RulesInv'
<1> DEFINE form == request[t].form
           row == request[t].row
           s == SaveStores(inst, form, row)
<1>1. inst' = s /\ ~RefusedForm(form) /\ overtaken' = (overtaken \/ row # Row(inst))
  BY DEF Save
<1>2. TypeOK' /\ CardInv'
  BY NextTyped, NextSettled DEF RulesInv, Next
<1>3. ~PayloadError(BuildRules(form))
  BY <1>1 DEF RefusedForm
<1>4. Unmaterialized(s) /\ ~PayloadError(s.rules)
  BY <1>3, SavedRules DEF RulesInv
<1>5. ASSUME ~overtaken' PROVE Recorded(s)
  <2>1. ~overtaken /\ row = Row(inst)
    BY <1>1, <1>5 DEF RulesInv, TypeOK
  <2>2. s.rules = BuildRules(form)
    BY <2>1, SavedRules DEF RulesInv, Row
  <2>3. s.touched = Touched(form)
    BY <2>1 DEF SaveStores, Row
  <2> HIDE DEF s
  <2> QED
    BY <2>2, <2>3, BuiltIsRecorded DEF Recorded
<1> HIDE DEF s
<1> QED
  BY <1>1, <1>2, <1>4, <1>5 DEF RulesInv, Unmaterialized, Recorded

LEMMA ImportRules ==
  ASSUME RulesInv, ImportFile
  PROVE  RulesInv'
<1>1. PICK f \in Files : Accepted(f) /\ inst' = Imported(f)
  BY DEF ImportFile
<1>2. TypeOK' /\ CardInv'
  BY NextTyped, NextSettled DEF RulesInv, Next
<1>3. /\ inst'.rules = f.rules /\ inst'.set = f.set /\ inst'.touched = f.touched \cup ShownLinks(f.rules)
      /\ inst'.excl => f.excl
  BY <1>1 DEF Imported
<1>4. ~PayloadError(f.rules)
  BY <1>1 DEF Accepted
<1>5. ~f.set => f.rules = << >> /\ ~f.excl
  BY FilesAssumption
<1> QED
  BY <1>2, <1>3, <1>4, <1>5 DEF RulesInv, Unmaterialized, Recorded

LEMMA NextRuled == RulesInv /\ [Next]_vars => RulesInv'
<1> SUFFICES ASSUME RulesInv, [Next]_vars PROVE RulesInv'
  OBVIOUS
<1>1. ASSUME inst' = inst, overtaken' = overtaken PROVE RulesInv'
  <2>1. TypeOK' /\ CardInv'
    BY NextTyped, NextSettled DEF RulesInv
  <2> QED
    BY <1>1, <2>1 DEF RulesInv, Unmaterialized, Recorded
<1>2. ASSUME NEW t \in Tabs, OpenPage(t) \/ CycleUnit(t) \/ ToggleTick(t) \/ Send(t) \/ RefuseSave(t)
      PROVE  RulesInv'
  BY <1>1, <1>2 DEF OpenPage, CycleUnit, ToggleTick, Send, RefuseSave, Edited
<1>3. ASSUME NEW t \in Tabs, NEW l \in {"link1", "link2"},
             CyclePill(t, l) \/ TypeCells(t, l) \/ ToggleCombinator(t, l)
      PROVE  RulesInv'
  BY <1>1, <1>3 DEF CyclePill, TypeCells, ToggleCombinator, Edited
<1>4. CASE UNCHANGED vars
  BY <1>1, <1>4 DEF vars
<1> QED
  BY <1>2, <1>3, <1>4, SaveRules, ImportRules DEF Next

-----------------------------------------------------------------------------
(* A Save whose row is today's stores what the card says.                  *)
LEMMA SaveApplies ==
  ASSUME RulesInv, NEW t \in Tabs, Save(t), request[t].row = Row(inst), inst.comb = "ALL_OF",
         ~(request[t].form.tick /\ Grouped(request[t].form) /\ ~inst.grouped)
  PROVE  Kept(inst') = CardMeans(request[t].form)
<1> DEFINE form == request[t].form
           row == request[t].row
           s == SaveStores(inst, form, row)
<1>1. inst' = s /\ row.set = inst.set /\ row.grouped = inst.grouped
  BY DEF Save, Row
<1>2. IsForm(form)
  BY DEF Save, RulesInv, TypeOK
<1>3. s.rules = BuildRules(form) /\ (s.excl <=> Exclusion(form, row))
  BY <1>1, SavedRules DEF RulesInv
<1>4. s.comb = "ALL_OF"
  BY DEF SaveStores
<1>5. s.grouped = Grouped(form)
  BY <1>1 DEF SaveStores
<1>6. s.excl <=> form.tick /\ Touched(form) = Links
  BY <1>1, <1>3 DEF Exclusion
<1> HIDE DEF s
<1>7. Evaluate(s.rules, s.comb) = {p \in Pairs : LinkMeans(form.link1, p) /\ LinkMeans(form.link2, p)}
  BY <1>2, <1>3, <1>4, BuiltKeeps
<1> HIDE DEF form
<1>8. Kept(s) = CardMeans(form)
  BY <1>5, <1>6, <1>7 DEF Kept, CardMeans
<1> QED
  BY <1>1, <1>8 DEF form

\* In every behaviour, a Save answered by none between its read and its lock
\* leaves the engine keeping the pairs the posted card describes; the one
\* exception is a tick set again after a move to Group, which the Save clears
\* (set_band1_assignment_rules, resolve_exclude_self_reviews, evaluate).
THEOREM SavesApplyTheCard == Spec => AppliesWhatIsShown
<1>1. ASSUME RulesInv, [Next]_vars
      PROVE  [\A t \in Tabs :
                 /\ Save(t) /\ request[t].row = Row(inst) /\ inst.comb = "ALL_OF"
                 /\ ~(request[t].form.tick /\ Grouped(request[t].form) /\ ~inst.grouped)
                 => Kept(inst') = CardMeans(request[t].form)]_vars
  BY <1>1, SaveApplies
<1> QED
  BY InitRuled, NextRuled, <1>1, PTL DEF Spec, AppliesWhatIsShown

-----------------------------------------------------------------------------
(* Opening a card and saving it as shown.  The rules a card can show stand *)
(* at most once for each Link, and the card built from what it draws has   *)
(* the same predicates under the same combinator.                          *)
Preds(r) == {k.pred : k \in Range(r.kids)}

LEMMA SamePredsSameIncludes ==
  ASSUME NEW first, NEW second, NEW p,
         first.kind = "COMPOSITE", second.kind = "COMPOSITE", first.op \in {"AND", "OR"}, second.op = first.op,
         EnabledKids(first) = Range(first.kids), EnabledKids(second) = Range(second.kids), Preds(first) = Preds(second)
  PROVE  Includes(first, p) <=> Includes(second, p)
<1> DEFINE held1 == {Holds(k.pred, p) : k \in EnabledKids(first)}
           held2 == {Holds(k.pred, p) : k \in EnabledKids(second)}
<1>1. held1 = {Holds(pred, p) : pred \in Preds(first)} /\ held2 = {Holds(pred, p) : pred \in Preds(second)}
  BY DEF Preds
<1>2. held1 = held2
  BY <1>1
<1>3. Matches(first, p) <=> Matches(second, p)
  <2>1. CASE first.op = "AND"
    <3>1. (Matches(first, p) <=> FALSE \notin held1) /\ (Matches(second, p) <=> FALSE \notin held2)
      BY <2>1 DEF Matches
    <3> QED
      BY <1>2, <3>1
  <2>2. CASE first.op = "OR"
    <3>1. (Matches(first, p) <=> TRUE \in held1) /\ (Matches(second, p) <=> TRUE \in held2)
      BY <2>2 DEF Matches
    <3> QED
      BY <1>2, <3>1
  <2> QED
    BY <2>1, <2>2
<1> QED
  BY <1>3, OnlyFiltersDrop

(* A list a card can show, as the schema reads it.                         *)
Showable(rules) ==
    AreRules(rules) /\ Represented(rules) /\ ~PayloadError(rules)

LEMMA ShowableIs ==
  ASSUME NEW rules, Showable(rules)
  PROVE  /\ \A r \in Range(rules) :
               /\ r.id \in {"link1", "link2"} /\ r.kind = "COMPOSITE" /\ r.on /\ r.op \in {"AND", "OR"}
               /\ r.kids \in Seq(Range(r.kids)) /\ Range(r.kids) # {}
               /\ EnabledKids(r) = Range(r.kids) /\ Enabled(r)
         /\ \A i, j \in DOMAIN rules : rules[i].id = rules[j].id => i = j
<1>1. \A i, j \in DOMAIN rules : rules[i].id = rules[j].id => i = j
  BY DEF Showable, PayloadError
<1>2. ASSUME NEW r \in Range(rules)
      PROVE  /\ r.id \in {"link1", "link2"} /\ r.kind = "COMPOSITE" /\ r.on /\ r.op \in {"AND", "OR"}
             /\ r.kids \in Seq(Range(r.kids)) /\ Range(r.kids) # {}
             /\ EnabledKids(r) = Range(r.kids) /\ Enabled(r)
  <2>1. /\ r.id \in {"link1", "link2"} /\ r.kind = "COMPOSITE" /\ r.on /\ r.op \in {"AND", "OR"}
        /\ \A k \in Range(r.kids) : k.on
    BY DEF Showable, Represented
  <2>2. r.kids \in Seq(Range(r.kids))
    BY <2>1 DEF Showable, AreRules
  <2>3. r.kids # << >>
    BY <2>1 DEF Showable, PayloadError
  <2>4. Range(r.kids) # {}
    <3>1. 1 \in DOMAIN r.kids
      BY <2>2, <2>3
    <3> QED
      BY <3>1 DEF Range
  <2>5. EnabledKids(r) = Range(r.kids)
    BY <2>1 DEF EnabledKids
  <2>6. Enabled(r)
    BY <2>1, <2>4, <2>5 DEF Enabled
  <2> QED
    BY <2>1, <2>2, <2>4, <2>5, <2>6
<1> QED
  BY <1>1, <1>2

(* A predicate of such a rule survives the way to the cell and back.       *)
LEMMA CellKeepsPred ==
  ASSUME NEW rules, Showable(rules), NEW r \in Range(rules), NEW pred \in Preds(r)
  PROVE  /\ ~Blank(ShownCell(r.id, pred)) /\ MatchRule(ShownCell(r.id, pred)).pred = pred
         /\ ~BadPredicate(pred)
<1> DEFINE cell == ShownCell(r.id, pred)
<1>1. PICK k \in Range(r.kids) : pred = k.pred
  BY DEF Preds
<1>2. /\ r.id \in {"link1", "link2"} /\ r.kind = "COMPOSITE"
      /\ pred.exact = FALSE /\ pred.op \in CardOps[r.id]
      /\ pred.op \in NoOperandOps \/ pred.val \notin {"", Null}
  <2>1. r.id \in {"link1", "link2"} /\ r.kind = "COMPOSITE"
    BY ShowableIs
  <2>2. ~k.pred.exact /\ k.pred.op \in CardOps[r.id] /\ (k.pred.op \in NoOperandOps \/ k.pred.val \notin {"", Null})
    BY DEF Showable, Represented
  <2>3. k.pred.exact \in BOOLEAN
    BY <2>1 DEF Showable, AreRules
  <2> QED
    BY <1>1, <2>1, <2>2, <2>3
<1>3. pred = [field |-> pred.field, op |-> pred.op, exact |-> pred.exact, val |-> pred.val]
  BY <1>1, <1>2 DEF Showable, AreRules
<1>4. ~BadPredicate(pred)
  BY <1>1, <1>2 DEF Showable, PayloadError
<1>5. pred.field # "" /\ (pred.op \in NoOperandOps => pred.val = Null)
  <2>1. pred.field \in {"reviewer.tag1", "reviewee.tag1", "pair_context.tag1"}
    BY <1>4 DEF BadPredicate, Side
  <2> QED
    BY <1>4, <2>1 DEF BadPredicate
<1>6. /\ cell.field = pred.field /\ EngineOp[cell.op] = pred.op
      /\ cell.val = IF pred.val = Null THEN "" ELSE pred.val
  <2>1. EngineOp[cell.op] = pred.op
    BY <1>2, ShownCellOp
  <2> QED
    BY <1>2, <2>1 DEF ShownCell
<1> HIDE DEF cell
<1>7. ~Blank(cell)
  BY <1>2, <1>5, <1>6 DEF Blank
<1>8. MatchRule(cell).pred = [field |-> cell.field, op |-> EngineOp[cell.op], exact |-> FALSE,
                             val |-> IF EngineOp[cell.op] \in NoOperandOps THEN Null ELSE cell.val]
  BY DEF MatchRule
<1>9. MatchRule(cell).pred = pred
  <2>1. (IF EngineOp[cell.op] \in NoOperandOps THEN Null ELSE cell.val) = pred.val
    BY <1>2, <1>5, <1>6
  <2> QED
    BY <1>2, <1>3, <1>6, <1>8, <2>1
<1> QED
  BY <1>4, <1>7, <1>9 DEF cell

(* The Link drawn of a rule, and the rule built of the Link.               *)
LEMMA LinkOfRule ==
  ASSUME NEW i, Showable(i.rules), NEW n \in DOMAIN i.rules, i.rules[n].id \in i.touched
  PROVE  LET r == i.rules[n]
             built == Composite(r.id, ShownLink(i, r.id))
         IN  /\ Kids(ShownLink(i, r.id)) # << >>
             /\ built.op = r.op /\ Preds(built) = Preds(r)
<1> DEFINE r == i.rules[n]
           at == ShownAt(i.rules, r.id)
           link == ShownLink(i, r.id)
           keep == {k \in DOMAIN r.kids : r.kids[k].on /\ r.kids[k].kind = "MATCH"}
           kids == Picked(r.kids, keep)
           built == Composite(r.id, link)
<1>1. r \in Range(i.rules)
  BY DEF Range
<1>2. /\ r.id \in {"link1", "link2"} /\ r.kind = "COMPOSITE" /\ r.on /\ r.op \in {"AND", "OR"}
      /\ r.kids \in Seq(Range(r.kids)) /\ Range(r.kids) # {} /\ Enabled(r)
  BY <1>1, ShowableIs
<1>3. at = {n}
  BY <1>2, ShowableIs DEF ShownAt
<1>4. Max(at) = n
  <2>1. Max(at) \in at
    BY <1>3, ShownAtIs DEF Showable
  <2> QED
    BY <1>3, <2>1
<1>5. keep = DOMAIN r.kids
  BY <1>1, <1>2 DEF Showable, Represented, Range
<1>6. kids # << >> /\ Range(kids) = Range(r.kids)
  <2>1. Len(r.kids) \in Nat /\ DOMAIN r.kids \in SUBSET (1..Len(r.kids))
    BY <1>2
  <2>2. DOMAIN r.kids # {} /\ At(r.kids, DOMAIN r.kids) = Range(r.kids)
    BY <1>2 DEF Range, At
  <2> HIDE DEF r
  <2> QED
    BY <1>5, <2>1, <2>2, PickedIs
<1>7. /\ link.pill = "filter"
      /\ link.comb = r.op
      /\ link.cells = [k \in DOMAIN kids |-> ShownCell(r.id, kids[k].pred)]
  <2>1. link.pill = "filter"
    BY <1>2, <1>3, ShownLinkIs DEF Showable
  <2>2. /\ link.comb = IF at # {} /\ r.op = "OR" THEN "OR" ELSE "AND"
        /\ link.cells = IF at = {} \/ kids = << >> THEN <<DefaultCell>>
                        ELSE [k \in DOMAIN kids |-> ShownCell(r.id, kids[k].pred)]
    BY <1>4 DEF ShownLink
  <2> HIDE DEF link, at, kids, r
  <2> QED
    BY <1>2, <1>3, <1>6, <2>1, <2>2
<1>8. IsLink(link)
  BY <1>2, ShownLinkIs DEF Showable
<1>9. Range(link.cells) = {ShownCell(r.id, pred) : pred \in Preds(r)}
  <2>1. Range(link.cells) = {ShownCell(r.id, k.pred) : k \in Range(kids)}
    <3> HIDE DEF kids, r, link
    <3> QED
      BY <1>7 DEF Range
  <2> QED
    BY <1>6, <2>1 DEF Preds
<1>10. WrittenCells(link) = Range(link.cells)
  BY <1>1, <1>9, CellKeepsPred DEF WrittenCells
<1>11. Range(Kids(link)) = {MatchRule(c) : c \in Range(link.cells)}
  BY <1>7, <1>8, <1>10, KidsAre
<1>12. {k.pred : k \in Range(Kids(link))} = Preds(r)
  <2>1. {k.pred : k \in Range(Kids(link))} = {MatchRule(ShownCell(r.id, pred)).pred : pred \in Preds(r)}
    BY <1>9, <1>11
  <2>2. \A pred \in Preds(r) : MatchRule(ShownCell(r.id, pred)).pred = pred
    BY <1>1, CellKeepsPred
  <2> QED
    BY <2>1, <2>2
<1>13. Kids(link) # << >>
  <2>1. Preds(r) # {}
    BY <1>2 DEF Preds
  <2> QED
    BY <1>8, <1>12, <2>1, KidsAre
<1>14. built.op = r.op /\ Preds(built) = Preds(r)
  BY <1>7, <1>12 DEF Composite, Preds
<1> QED
  BY <1>13, <1>14

(* Two rules that decide alike and are refused alike.                      *)
Alike(a, b) ==
    /\ a.id = b.id /\ a.kind = "COMPOSITE" /\ b.kind = "COMPOSITE" /\ a.on /\ b.on
    /\ a.op = b.op /\ a.op \in {"AND", "OR"} /\ Preds(a) = Preds(b)
    /\ EnabledKids(a) = Range(a.kids) /\ EnabledKids(b) = Range(b.kids)

TwinLists(one, other) ==
    /\ \A a \in Range(one) : \E b \in Range(other) : Alike(a, b)
    /\ \A b \in Range(other) : \E a \in Range(one) : Alike(a, b)

LEMMA TwinsAreOffered ==
  ASSUME NEW one, NEW other, TwinLists(one, other)
  PROVE  Unoffered(one) <=> Unoffered(other)
<1>1. ASSUME NEW rules, NEW l, NEW pred
      PROVE  pred \in Predicates(rules, l)
               <=> \E r \in Range(rules) : r.id = l /\ r.kind = "COMPOSITE" /\ pred \in Preds(r)
  BY DEF Predicates, Preds
<1>2. ASSUME NEW l, NEW pred PROVE pred \in Predicates(one, l) <=> pred \in Predicates(other, l)
  BY <1>1 DEF TwinLists, Alike
<1>3. \A l : Predicates(one, l) = Predicates(other, l)
  BY <1>2
<1> QED
  BY <1>3 DEF Unoffered

LEMMA TwinsKeepPairs ==
  ASSUME NEW one, NEW other, TwinLists(one, other), KeepsPairs(one)
  PROVE  KeepsPairs(other)
<1>1. PICK a \in Range(one) :
         /\ a.id = "link2" /\ a.kind = "COMPOSITE" /\ a.on
         /\ \E k \in Range(a.kids) :
               k.on /\ k.pred.op \in {"equals", "is_not_empty"} /\ k.pred.field \in PairFields
  BY DEF KeepsPairs
<1>2. PICK k \in Range(a.kids) :
         k.on /\ k.pred.op \in {"equals", "is_not_empty"} /\ k.pred.field \in PairFields
  BY <1>1
<1>3. PICK b \in Range(other) : Alike(a, b)
  BY DEF TwinLists
<1>4. k.pred \in Preds(a)
  BY DEF Preds
<1>5. PICK j \in Range(b.kids) : j.pred = k.pred
  BY <1>3, <1>4 DEF Alike, Preds
<1>6. j.on
  BY <1>3, <1>5 DEF Alike, EnabledKids
<1> QED
  BY <1>1, <1>2, <1>3, <1>5, <1>6 DEF KeepsPairs, Alike

LEMMA TwinsRuleAlike ==
  ASSUME NEW one, NEW other, TwinLists(one, other)
  PROVE  Ruled(one) = Ruled(other)
<1>1. ASSUME NEW p, NEW a, NEW b, Alike(a, b) PROVE Includes(a, p) <=> Includes(b, p)
  BY <1>1, SamePredsSameIncludes DEF Alike
<1>2. ASSUME NEW p
      PROVE  (\A r \in Range(one) : Includes(r, p)) <=> \A r \in Range(other) : Includes(r, p)
  BY <1>1 DEF TwinLists
<1> QED
  BY <1>2 DEF Ruled

LEMMA ShownRulesAreTwins ==
  ASSUME NEW i, Showable(i.rules), \A n \in DOMAIN i.rules : i.rules[n].id \in i.touched
  PROVE  TwinLists(BuildRules(ShownCard(i)), i.rules)
<1> DEFINE form == ShownCard(i)
           built(l) == Composite(l, form[l])
<1>1. \A l \in {"link1", "link2"} : form[l] = ShownLink(i, l) /\ IsLink(form[l])
  <2>1. form["link1"] = ShownLink(i, "link1") /\ form["link2"] = ShownLink(i, "link2")
    BY DEF ShownCard
  <2> QED
    BY <2>1, ShownLinkIs DEF Showable
<1> HIDE DEF form
<1>2. ASSUME NEW n \in DOMAIN i.rules
      PROVE  i.rules[n].id \in Ruling(form) /\ Alike(built(i.rules[n].id), i.rules[n])
  <2> DEFINE r == i.rules[n]
  <2>1. r \in Range(i.rules)
    BY DEF Range
  <2>2. /\ r.id \in {"link1", "link2"} /\ r.kind = "COMPOSITE" /\ r.on /\ r.op \in {"AND", "OR"}
        /\ EnabledKids(r) = Range(r.kids)
    BY <2>1, ShowableIs
  <2>3. /\ Kids(form[r.id]) # << >> /\ built(r.id).op = r.op /\ Preds(built(r.id)) = Preds(r)
    BY <1>1, <2>2, LinkOfRule
  <2>4. /\ built(r.id).id = r.id /\ built(r.id).kind = "COMPOSITE" /\ built(r.id).on
        /\ built(r.id).kids = Kids(form[r.id])
    BY DEF Composite
  <2>5. EnabledKids(built(r.id)) = Range(built(r.id).kids)
    BY <1>1, <2>2, <2>3, <2>4, CompositeIs
  <2> HIDE DEF r, built
  <2>6. Alike(built(r.id), r)
    BY <2>2, <2>3, <2>4, <2>5 DEF Alike
  <2> QED
    BY <2>2, <2>3, <2>6 DEF Ruling, r
<1>3. ASSUME NEW l \in Ruling(form) PROVE \E n \in DOMAIN i.rules : i.rules[n].id = l
  <2>1. l \in {"link1", "link2"} /\ Kids(form[l]) # << >>
    BY DEF Ruling
  <2>2. ShownLink(i, l).pill = "filter"
    BY <1>1, <2>1, KidsAre
  <2>3. ShownAt(i.rules, l) # {}
    BY <2>1, <2>2, ShownLinkIs DEF Showable
  <2> QED
    BY <2>3 DEF ShownAt
<1>4. Range(BuildRules(form)) = {built(l) : l \in Ruling(form)}
  BY BuiltIs
<1> HIDE DEF built
<1>5. ASSUME NEW a \in Range(BuildRules(form)) PROVE \E b \in Range(i.rules) : Alike(a, b)
  <2>1. PICK l \in Ruling(form) : a = built(l)
    BY <1>4
  <2>2. PICK n \in DOMAIN i.rules : i.rules[n].id = l
    BY <1>3
  <2> QED
    BY <1>2, <2>1, <2>2 DEF Range
<1>6. ASSUME NEW b \in Range(i.rules) PROVE \E a \in Range(BuildRules(form)) : Alike(a, b)
  <2>1. PICK n \in DOMAIN i.rules : b = i.rules[n]
    BY DEF Range
  <2> QED
    BY <1>2, <1>4, <2>1
<1> QED
  BY <1>5, <1>6 DEF TwinLists, form

LEMMA ResaveKeeps ==
  ASSUME NEW i, IsStored(i), Settled(i), ~PayloadError(i.rules), Unmaterialized(i), Recorded(i),
         i.comb = "ALL_OF", Represented(i.rules), ~Unoffered(i.rules),
         i.touched # {} \/ i.rules = << >>
  PROVE  /\ ~RefusedForm(ShownCard(i))
         /\ Kept(SaveStores(i, ShownCard(i), Row(i))) = Kept(i)
<1> DEFINE form == ShownCard(i)
           built == BuildRules(form)
           s == SaveStores(i, form, Row(i))
<1>1. Showable(i.rules) /\ IsForm(form)
  BY ShownIsForm DEF Showable, IsStored
<1>2. \A n \in DOMAIN i.rules : i.rules[n].id \in i.touched
  <2> SUFFICES ASSUME NEW n \in DOMAIN i.rules PROVE i.rules[n].id \in i.touched
    OBVIOUS
  <2>1. i.rules # << >>
    OBVIOUS
  <2>2. i.rules[n] \in Range(i.rules)
    BY DEF Range
  <2>3. n \in ShownAt(i.rules, i.rules[n].id) /\ i.rules[n].id \in {"link1", "link2"}
    BY <1>1, <2>2, ShowableIs DEF ShownAt
  <2>4. i.rules[n].id \in ShownLinks(i.rules)
    BY <2>3 DEF ShownLinks
  <2> QED
    BY <2>1, <2>4 DEF Recorded
<1>3. TwinLists(built, i.rules)
  BY <1>1, <1>2, ShownRulesAreTwins
<1>4. /\ form.tick = i.excl
      /\ \A l \in {"link1", "link2"} : form[l] = ShownLink(i, l)
      /\ form.link3.pill = IF "link3" \notin i.touched THEN "not set"
                           ELSE IF i.grouped THEN "group" ELSE "individual"
  <2>1. /\ form.tick = i.excl
        /\ form["link1"] = ShownLink(i, "link1") /\ form["link2"] = ShownLink(i, "link2")
    BY DEF ShownCard
  <2>2. form.link3.pill = IF "link3" \notin i.touched THEN "not set"
                          ELSE IF i.grouped THEN "group" ELSE "individual"
    BY DEF ShownCard
  <2> QED
    BY <2>1, <2>2
<1>5. Touched(form) = i.touched
  <2>1. ASSUME NEW l \in Links PROVE form[l].pill # "not set" <=> l \in i.touched
    <3>1. CASE l = "link3"
      BY <1>4, <3>1
    <3>2. CASE l \in {"link1", "link2"}
      BY <1>1, <1>4, <3>2, ShownLinkIs DEF Showable
    <3> QED
      BY <3>1, <3>2 DEF Links
  <2>2. i.touched \subseteq Links
    BY DEF IsStored
  <2> HIDE DEF form
  <2> QED
    BY <2>1, <2>2 DEF Touched
<1>6. Grouped(form) <=> "link3" \in i.touched /\ i.grouped
  BY <1>4 DEF Grouped
<1>7. ~RefusedForm(form)
  <2>1. ~Unoffered(built)
    BY <1>3, TwinsAreOffered
  <2>2. ~PayloadError(built)
    <3>1. ASSUME NEW a \in Range(built)
          PROVE  /\ a.kind = "COMPOSITE" /\ a.kids # << >>
                 /\ \A k \in Range(a.kids) : ~BadPredicate(k.pred)
      <4>1. PICK r \in Range(i.rules) : Alike(a, r)
        BY <1>3 DEF TwinLists
      <4>2. Preds(a) = Preds(r) /\ a.kind = "COMPOSITE"
        BY <4>1 DEF Alike
      <4>3. \A k \in Range(a.kids) : ~BadPredicate(k.pred)
        BY <1>1, <4>2, CellKeepsPred DEF Preds
      <4>4. Preds(r) # {}
        <5>1. Range(r.kids) # {}
          BY <1>1, ShowableIs
        <5> QED
          BY <5>1 DEF Preds
      <4>5. a.kids # << >>
        <5>1. Range(<< >>) = {}
          BY DEF Range
        <5>2. Range(a.kids) # {}
          BY <4>2, <4>4 DEF Preds
        <5> QED
          BY <5>1, <5>2
      <4> QED
        BY <4>2, <4>3, <4>5
    <3>2. \A j, k \in DOMAIN built : built[j].id = built[k].id => j = k
      BY BuiltIs
    <3> HIDE DEF built
    <3> QED
      BY <3>1, <3>2 DEF PayloadError
  <2>3. ~(Grouped(form) /\ KeepsPairs(built))
    BY <1>3, <1>6, TwinsKeepPairs DEF Settled
  <2> HIDE DEF form
  <2> QED
    BY <2>1, <2>2, <2>3 DEF RefusedForm
<1>8. Evaluate(built, "ALL_OF") = Evaluate(i.rules, "ALL_OF")
  <2>1. Evaluate(built, "ALL_OF") = Ruled(built)
    BY <1>1, BuiltIs, BuiltKeeps, EnabledCompositesDecide
  <2>2. Evaluate(i.rules, "ALL_OF") = Ruled(i.rules)
    BY <1>1, ShowableIs, EnabledCompositesDecide DEF Showable, AreRules
  <2> QED
    BY <1>3, <2>1, <2>2, TwinsRuleAlike
<1>9. /\ s.rules = built /\ (s.excl <=> Exclusion(form, Row(i)))
      /\ s.comb = "ALL_OF" /\ s.grouped = Grouped(form)
  <2>1. s.rules = built /\ (s.excl <=> Exclusion(form, Row(i)))
    BY SavedRules DEF Row
  <2>2. s.comb = "ALL_OF" /\ s.grouped = Grouped(form)
    BY DEF SaveStores, Row
  <2> QED
    BY <2>1, <2>2
<1>10. Exclusion(form, Row(i)) <=> i.excl
  BY <1>4, <1>5, <1>6 DEF Exclusion, Row, Settled
<1>11. i.excl => (s.grouped <=> i.grouped)
  BY <1>6, <1>9 DEF Settled, Links
<1>12. Kept(s) = Kept(i)
  <2> HIDE DEF s, form, built
  <2>1. Evaluate(s.rules, s.comb) = Evaluate(i.rules, i.comb) /\ (s.excl <=> i.excl)
    BY <1>8, <1>9, <1>10
  <2>2. \A p : s.excl => (IsSelf(s.grouped, p) <=> IsSelf(i.grouped, p))
    BY <1>11, <2>1 DEF IsSelf
  <2> QED
    BY <2>1, <2>2 DEF Kept
<1> QED
  BY <1>7, <1>12

\* In every behaviour, opening the card and saving it as shown is accepted
\* and changes no pair the engine keeps, whoever stored the rules (decode and
\* _build_rules_json agree on what a Link means, set_band1_assignment_rules).
THEOREM ResavingKeepsPairs == Spec => []ResaveKeepsPairs
<1>1. RulesInv => ResaveKeepsPairs
  BY ResaveKeeps DEF RulesInv, TypeOK, CardInv, ResaveKeepsPairs
<1> QED
  BY InitRuled, NextRuled, <1>1, PTL DEF Spec

-----------------------------------------------------------------------------
(* Induction over the numbers, for a set of them.                          *)
LEMMA LeastExists ==
  ASSUME NEW S \in SUBSET Nat, S # {}
  PROVE  \E m \in S : \A j \in S : m <= j
<1>1. PICK n \in S : TRUE
  OBVIOUS
<1> DEFINE low == {j \in S : j <= n}
           gaps == {i \in 0..n : n - i \in S}
<1>2. n \in Nat /\ IsFiniteSet(0..n)
  BY FS_Interval
<1>3. gaps \in SUBSET (0..n) /\ gaps \in SUBSET Nat /\ 0 \in gaps
  BY <1>2
<1>4. IsFiniteSet(gaps)
  <2> HIDE DEF gaps
  <2> QED
    BY <1>2, <1>3, FS_Subset
<1>5. PICK g \in gaps : \A i \in gaps : i <= g
  <2> HIDE DEF gaps
  <2> QED
    BY <1>3, <1>4, GreatestExists
<1>6. n - g \in S /\ g \in 0..n
  OBVIOUS
<1>7. ASSUME NEW j \in S PROVE n - g <= j
  <2>1. CASE j > n
    BY <1>2, <1>6, <2>1
  <2>2. CASE j <= n
    <3>1. j \in Nat /\ n - j \in 0..n /\ n - (n - j) = j
      BY <1>2, <2>2
    <3>2. n - j \in gaps
      BY <3>1
    <3>3. n - j <= g
      BY <1>5, <3>2
    <3> QED
      BY <1>2, <1>6, <3>1, <3>3
  <2>3. j \in Nat
    OBVIOUS
  <2> QED
    BY <1>2, <2>1, <2>2, <2>3
<1> QED
  BY <1>6, <1>7

LEMMA CountingUp ==
  ASSUME NEW S, 0 \in S, \A m \in Nat : m \in S => m + 1 \in S
  PROVE  Nat \subseteq S
<1> SUFFICES ASSUME Nat \ S # {} PROVE FALSE
  OBVIOUS
<1>1. PICK m \in Nat \ S : \A j \in Nat \ S : m <= j
  BY LeastExists
<1>2. m # 0 /\ m - 1 \in Nat
  BY <1>1
<1>3. m - 1 \in S
  BY <1>1, <1>2
<1>4. (m - 1) + 1 \in S
  BY <1>2, <1>3
<1> QED
  BY <1>1, <1>2, <1>4

(* A fold that takes the highest position first has a table of its values. *)
LEMMA HighestOf ==
  ASSUME NEW m \in Nat, NEW s \in SUBSET (1..(m + 1)), m + 1 \in s
  PROVE  Max(s) = m + 1
<1>1. m + 1 \in s /\ \A j \in s : m + 1 >= j
  OBVIOUS
<1>2. Max(s) \in s /\ \A j \in s : Max(s) >= j
  BY <1>1 DEF Max
<1>3. Max(s) \in 1..(m + 1)
  BY <1>2
<1>4. Max(s) >= m + 1
  BY <1>1, <1>2
<1> QED
  BY <1>3, <1>4

FoldTable(f, s, base, step) ==
    f[s] = IF s = {} THEN base ELSE step[<<f[s \ {Max(s)}], Max(s)>>]

LEMMA FoldTableExists ==
  ASSUME NEW n \in Nat, NEW W, NEW base \in W, NEW step \in [W \X Nat -> W]
  PROVE  \E f \in [SUBSET (1..n) -> W] : \A s \in SUBSET (1..n) : FoldTable(f, s, base, step)
<1> DEFINE good(m) == \E f \in [SUBSET (1..m) -> W] :
                         \A s \in SUBSET (1..m) : FoldTable(f, s, base, step)
           T == {m \in Nat : good(m)}
<1>1. good(0)
  <2> DEFINE f == [s \in SUBSET (1..0) |-> base]
  <2>1. \A s \in SUBSET (1..0) : s = {}
    OBVIOUS
  <2>2. f \in [SUBSET (1..0) -> W]
    OBVIOUS
  <2>3. \A s \in SUBSET (1..0) : FoldTable(f, s, base, step)
    BY <2>1 DEF FoldTable
  <2> HIDE DEF f
  <2> QED
    BY <2>2, <2>3
<1>2. ASSUME NEW m \in Nat, good(m) PROVE good(m + 1)
  <2>1. PICK f \in [SUBSET (1..m) -> W] : \A s \in SUBSET (1..m) : FoldTable(f, s, base, step)
    BY <1>2
  <2> DEFINE val(s) == IF m + 1 \in s THEN step[<<f[s \ {m + 1}], m + 1>>] ELSE f[s]
             g == [s \in SUBSET (1..(m + 1)) |-> val(s)]
  <2>3. \A s \in SUBSET (1..(m + 1)) : m + 1 \notin s => s \in SUBSET (1..m)
    <3>1. \A j \in 1..(m + 1) : j # m + 1 => j \in 1..m
      OBVIOUS
    <3> QED
      BY <3>1
  <2>7. \A s \in SUBSET (1..(m + 1)) : m + 1 \in s => s \ {m + 1} \in SUBSET (1..m)
    <3> SUFFICES ASSUME NEW s \in SUBSET (1..(m + 1)) PROVE s \ {m + 1} \in SUBSET (1..m)
      OBVIOUS
    <3>1. s \ {m + 1} \in SUBSET (1..(m + 1)) /\ m + 1 \notin s \ {m + 1}
      OBVIOUS
    <3> QED
      BY <2>3, <3>1
  <2>2. g \in [SUBSET (1..(m + 1)) -> W]
    <3> SUFFICES ASSUME NEW s \in SUBSET (1..(m + 1)) PROVE val(s) \in W
      OBVIOUS
    <3>1. CASE m + 1 \in s
      <4>1. f[s \ {m + 1}] \in W /\ m + 1 \in Nat
        BY <2>1, <2>7, <3>1
      <4>2. step[<<f[s \ {m + 1}], m + 1>>] \in W
        BY <4>1
      <4> QED
        BY <3>1, <4>2
    <3>2. CASE m + 1 \notin s
      BY <2>1, <2>3, <3>2
    <3> QED
      BY <3>1, <3>2
  <2>4. \A s \in SUBSET (1..m) : s \in SUBSET (1..(m + 1)) /\ m + 1 \notin s
    OBVIOUS
  <2>5. \A s \in SUBSET (1..m) : g[s] = f[s]
    BY <2>4
  <2>6. ASSUME NEW s \in SUBSET (1..(m + 1)) PROVE FoldTable(g, s, base, step)
    <3>1. CASE m + 1 \in s
      <4>1. s \ {m + 1} \in SUBSET (1..m)
        BY <2>7, <3>1
      <4>2. Max(s) = m + 1 /\ s # {}
        BY <3>1, HighestOf
      <4>3. g[s] = step[<<f[s \ {m + 1}], m + 1>>]
        BY <3>1
      <4>4. g[s \ {m + 1}] = f[s \ {m + 1}]
        BY <2>5, <4>1
      <4> HIDE DEF g
      <4> QED
        BY <4>2, <4>3, <4>4 DEF FoldTable
    <3>2. CASE m + 1 \notin s
      <4>1. s \in SUBSET (1..m)
        BY <2>3, <3>2
      <4>2. FoldTable(f, s, base, step) /\ g[s] = f[s]
        BY <2>1, <2>5, <4>1
      <4>3. s \ {Max(s)} \in SUBSET (1..m)
        BY <4>1
      <4>4. g[s \ {Max(s)}] = f[s \ {Max(s)}]
        BY <2>5, <4>3
      <4> HIDE DEF g
      <4> QED
        BY <4>2, <4>4 DEF FoldTable
    <3> QED
      BY <3>1, <3>2
  <2> HIDE DEF g
  <2> QED
    BY <2>2, <2>6
<1>3. T \subseteq Nat /\ 0 \in T /\ \A m \in Nat : m \in T => m + 1 \in T
  <2> HIDE DEF good
  <2> QED
    BY <1>1, <1>2
<1>4. n \in T
  <2> HIDE DEF T
  <2> QED
    BY <1>3, CountingUp
<1> QED
  BY <1>4

Upto(k) == 1..k

LEMMA UptoIs ==
  ASSUME NEW n \in Nat
  PROVE  /\ Upto(0) = {} /\ Upto(n) = 1..n /\ Upto(n) \in SUBSET (1..n)
         /\ \A k \in 1..n : /\ Upto(k) \in SUBSET (1..n) /\ Upto(k - 1) \in SUBSET (1..n)
                            /\ Upto(k) # {} /\ Max(Upto(k)) = k /\ Upto(k) \ {k} = Upto(k - 1)
<1>1. Upto(0) = {} /\ Upto(n) = 1..n /\ Upto(n) \in SUBSET (1..n)
  BY DEF Upto
<1>2. ASSUME NEW k \in 1..n
      PROVE  /\ Upto(k) \in SUBSET (1..n) /\ Upto(k - 1) \in SUBSET (1..n)
             /\ Upto(k) # {} /\ Max(Upto(k)) = k /\ Upto(k) \ {k} = Upto(k - 1)
  <2>1. /\ Upto(k) \in SUBSET (1..n) /\ Upto(k - 1) \in SUBSET (1..n)
        /\ Upto(k) # {} /\ Upto(k) \ {k} = Upto(k - 1)
    <3>1. Upto(k) \in SUBSET (1..n) /\ Upto(k - 1) \in SUBSET (1..n) /\ k \in Upto(k)
      BY DEF Upto
    <3>2. \A j \in Nat : (j \in 1..k /\ j # k) <=> j \in 1..(k - 1)
      OBVIOUS
    <3>3. 1..k \subseteq Nat /\ 1..(k - 1) \subseteq Nat
      OBVIOUS
    <3>4. Upto(k) \ {k} = Upto(k - 1)
      BY <3>2, <3>3 DEF Upto
    <3> QED
      BY <3>1, <3>4
  <2>2. k - 1 \in Nat /\ (k - 1) + 1 = k /\ Upto(k) \in SUBSET (1..((k - 1) + 1)) /\ (k - 1) + 1 \in Upto(k)
    BY DEF Upto
  <2>3. Max(Upto(k)) = (k - 1) + 1
    <3> DEFINE m == k - 1
    <3>1. m \in Nat /\ Upto(k) \in SUBSET (1..(m + 1)) /\ m + 1 \in Upto(k)
      BY <2>2
    <3> HIDE DEF m
    <3>2. Max(Upto(k)) = m + 1
      BY <3>1, HighestOf
    <3> QED
      BY <3>2 DEF m
  <2> QED
    BY <2>1, <2>2, <2>3
<1> QED
  BY <1>1, <1>2

(* What the engine's two loops return.                                     *)
QuotasRun(base, seq) == FoldLeft(Capped, base, seq)
PipelineRun(base, seq) == FoldLeft(PipelineStep, base, seq)

(* Their working sets, after each rule.                                    *)
CapsBy(g, n, seq, base) ==
    /\ g[0] = base /\ g[n] = QuotasRun(base, seq)
    /\ \A k \in 1..n : g[k] = Capped(g[k - 1], seq[k])
    /\ \A k \in 0..n : g[k] \in SUBSET Pairs
NarrowsBy(g, n, seq, base) ==
    /\ g[0] = base /\ g[n] = PipelineRun(base, seq)
    /\ \A k \in 1..n : g[k] = PipelineStep(g[k - 1], seq[k])
    /\ \A k \in 0..n : g[k] \in SUBSET Pairs

LEMMA CappedRuns ==
  ASSUME NEW n \in Nat, NEW seq, DOMAIN seq = 1..n, NEW base \in SUBSET Pairs
  PROVE  \E g : CapsBy(g, n, seq, base)
<1> DEFINE step == [a \in (SUBSET Pairs) \X Nat |-> Capped(a[1], seq[a[2]])]
           good(f) == f = [s \in SUBSET DOMAIN seq |->
                              IF s = {} THEN base ELSE LET x == Max(s) IN Capped(f[s \ {x}], seq[x])]
           iter == CHOOSE f : good(f)
           g == [k \in 0..n |-> iter[Upto(k)]]
<1>1. \A w \in SUBSET Pairs : \A r : Capped(w, r) \in SUBSET Pairs
  BY DEF Capped
<1>2. step \in [(SUBSET Pairs) \X Nat -> SUBSET Pairs]
  BY <1>1
<1>3. \E f : good(f)
  <2>1. PICK f \in [SUBSET (1..n) -> SUBSET Pairs] : \A s \in SUBSET (1..n) : FoldTable(f, s, base, step)
    <3> HIDE DEF step
    <3> QED
      BY <1>2, FoldTableExists
  <2>2. ASSUME NEW s \in SUBSET (1..n)
        PROVE  f[s] = IF s = {} THEN base ELSE LET x == Max(s) IN Capped(f[s \ {x}], seq[x])
    <3>1. CASE s = {}
      BY <2>1, <3>1 DEF FoldTable
    <3>2. CASE s # {}
      <4>1. s \in SUBSET Nat /\ IsFiniteSet(s)
        <5>1. IsFiniteSet(1..n) /\ s \in SUBSET (1..n) /\ 1..n \subseteq Nat
          BY FS_Interval
        <5> QED
          BY <5>1, FS_Subset
      <4>2. \E m \in s : \A j \in s : j <= m
        BY <3>2, <4>1, GreatestExists
      <4>3. \E m \in s : \A j \in s : m >= j
        BY <4>1, <4>2
      <4>4. Max(s) \in s
        BY <4>3 DEF Max
      <4>5. Max(s) \in Nat /\ f[s \ {Max(s)}] \in SUBSET Pairs
        BY <4>1, <4>4
      <4>6. step[<<f[s \ {Max(s)}], Max(s)>>] = Capped(f[s \ {Max(s)}], seq[Max(s)])
        BY <4>5
      <4> HIDE DEF step
      <4> QED
        BY <2>1, <3>2, <4>6 DEF FoldTable
    <3> QED
      BY <3>1, <3>2
  <2>3. f = [s \in SUBSET (1..n) |-> f[s]]
    OBVIOUS
  <2>4. f = [s \in SUBSET DOMAIN seq |->
                IF s = {} THEN base ELSE LET x == Max(s) IN Capped(f[s \ {x}], seq[x])]
    BY <2>2, <2>3
  <2> QED
    BY <2>4
<1>4. good(iter)
  <2> HIDE DEF good
  <2> QED
    BY <1>3
<1>5. QuotasRun(base, seq) = iter[DOMAIN seq]
  BY DEF QuotasRun, FoldLeft, MapThenFoldSet
<1>6. \A s \in SUBSET (1..n) : iter[s] = IF s = {} THEN base
                                         ELSE LET x == Max(s) IN Capped(iter[s \ {x}], seq[x])
  <2> HIDE DEF iter
  <2> QED
    BY <1>4
<1> HIDE DEF iter, good, step
<1>7. \A k \in 0..n : g[k] = iter[Upto(k)]
  OBVIOUS
<1> HIDE DEF g
<1>8. g[0] = base /\ g[n] = QuotasRun(base, seq)
  <2>1. g[0] = iter[{}] /\ g[n] = iter[1..n]
    BY <1>7, UptoIs
  <2> QED
    BY <1>5, <1>6, <2>1
<1>9. ASSUME NEW k \in 1..n PROVE g[k] = Capped(g[k - 1], seq[k])
  <2>1. g[k] = iter[Upto(k)] /\ g[k - 1] = iter[Upto(k - 1)]
    BY <1>7
  <2>2. /\ Upto(k) \in SUBSET (1..n) /\ Upto(k) # {}
        /\ Max(Upto(k)) = k /\ Upto(k) \ {k} = Upto(k - 1)
    BY UptoIs
  <2>3. iter[Upto(k)] = Capped(iter[Upto(k) \ {k}], seq[k])
    BY <1>6, <2>2
  <2> QED
    BY <2>1, <2>2, <2>3
<1>10. \A k \in 0..n : g[k] \in SUBSET Pairs
  <2> DEFINE T == {k \in Nat : k \in 0..n => g[k] \in SUBSET Pairs}
  <2>1. 0 \in T
    BY <1>8
  <2>2. ASSUME NEW k \in Nat, k \in T PROVE k + 1 \in T
    <3> SUFFICES ASSUME k + 1 \in 0..n PROVE g[k + 1] \in SUBSET Pairs
      OBVIOUS
    <3>1. k + 1 \in 1..n /\ (k + 1) - 1 = k /\ k \in 0..n
      OBVIOUS
    <3>2. g[k + 1] = Capped(g[k], seq[k + 1])
      BY <1>9, <3>1
    <3> QED
      BY <1>1, <2>2, <3>1, <3>2
  <2>3. Nat \subseteq T
    <3> HIDE DEF T
    <3> QED
      BY <2>1, <2>2, CountingUp
  <2> QED
    BY <2>3
<1> QED
  BY <1>8, <1>9, <1>10 DEF CapsBy

LEMMA PipelineRuns ==
  ASSUME NEW n \in Nat, NEW seq, DOMAIN seq = 1..n, NEW base \in SUBSET Pairs
  PROVE  \E g : NarrowsBy(g, n, seq, base)
<1> DEFINE step == [a \in (SUBSET Pairs) \X Nat |-> PipelineStep(a[1], seq[a[2]])]
           good(f) == f = [s \in SUBSET DOMAIN seq |->
                              IF s = {} THEN base ELSE LET x == Max(s) IN PipelineStep(f[s \ {x}], seq[x])]
           iter == CHOOSE f : good(f)
           g == [k \in 0..n |-> iter[Upto(k)]]
<1>1. \A w \in SUBSET Pairs : \A r : PipelineStep(w, r) \in SUBSET Pairs
  BY DEF PipelineStep
<1>2. step \in [(SUBSET Pairs) \X Nat -> SUBSET Pairs]
  BY <1>1
<1>3. \E f : good(f)
  <2>1. PICK f \in [SUBSET (1..n) -> SUBSET Pairs] : \A s \in SUBSET (1..n) : FoldTable(f, s, base, step)
    <3> HIDE DEF step
    <3> QED
      BY <1>2, FoldTableExists
  <2>2. ASSUME NEW s \in SUBSET (1..n)
        PROVE  f[s] = IF s = {} THEN base ELSE LET x == Max(s) IN PipelineStep(f[s \ {x}], seq[x])
    <3>1. CASE s = {}
      BY <2>1, <3>1 DEF FoldTable
    <3>2. CASE s # {}
      <4>1. s \in SUBSET Nat /\ IsFiniteSet(s)
        <5>1. IsFiniteSet(1..n) /\ s \in SUBSET (1..n) /\ 1..n \subseteq Nat
          BY FS_Interval
        <5> QED
          BY <5>1, FS_Subset
      <4>2. \E m \in s : \A j \in s : j <= m
        BY <3>2, <4>1, GreatestExists
      <4>3. \E m \in s : \A j \in s : m >= j
        BY <4>1, <4>2
      <4>4. Max(s) \in s
        BY <4>3 DEF Max
      <4>5. Max(s) \in Nat /\ f[s \ {Max(s)}] \in SUBSET Pairs
        BY <4>1, <4>4
      <4>6. step[<<f[s \ {Max(s)}], Max(s)>>] = PipelineStep(f[s \ {Max(s)}], seq[Max(s)])
        BY <4>5
      <4> HIDE DEF step
      <4> QED
        BY <2>1, <3>2, <4>6 DEF FoldTable
    <3> QED
      BY <3>1, <3>2
  <2>3. f = [s \in SUBSET (1..n) |-> f[s]]
    OBVIOUS
  <2>4. f = [s \in SUBSET DOMAIN seq |->
                IF s = {} THEN base ELSE LET x == Max(s) IN PipelineStep(f[s \ {x}], seq[x])]
    BY <2>2, <2>3
  <2> QED
    BY <2>4
<1>4. good(iter)
  <2> HIDE DEF good
  <2> QED
    BY <1>3
<1>5. PipelineRun(base, seq) = iter[DOMAIN seq]
  BY DEF PipelineRun, FoldLeft, MapThenFoldSet
<1>6. \A s \in SUBSET (1..n) : iter[s] = IF s = {} THEN base
                                         ELSE LET x == Max(s) IN PipelineStep(iter[s \ {x}], seq[x])
  <2> HIDE DEF iter
  <2> QED
    BY <1>4
<1> HIDE DEF iter, good, step
<1>7. \A k \in 0..n : g[k] = iter[Upto(k)]
  OBVIOUS
<1> HIDE DEF g
<1>8. g[0] = base /\ g[n] = PipelineRun(base, seq)
  <2>1. g[0] = iter[{}] /\ g[n] = iter[1..n]
    BY <1>7, UptoIs
  <2> QED
    BY <1>5, <1>6, <2>1
<1>9. ASSUME NEW k \in 1..n PROVE g[k] = PipelineStep(g[k - 1], seq[k])
  <2>1. g[k] = iter[Upto(k)] /\ g[k - 1] = iter[Upto(k - 1)]
    BY <1>7
  <2>2. /\ Upto(k) \in SUBSET (1..n) /\ Upto(k) # {}
        /\ Max(Upto(k)) = k /\ Upto(k) \ {k} = Upto(k - 1)
    BY UptoIs
  <2>3. iter[Upto(k)] = PipelineStep(iter[Upto(k) \ {k}], seq[k])
    BY <1>6, <2>2
  <2> QED
    BY <2>1, <2>2, <2>3
<1>10. \A k \in 0..n : g[k] \in SUBSET Pairs
  <2> DEFINE T == {k \in Nat : k \in 0..n => g[k] \in SUBSET Pairs}
  <2>1. 0 \in T
    BY <1>8
  <2>2. ASSUME NEW k \in Nat, k \in T PROVE k + 1 \in T
    <3> SUFFICES ASSUME k + 1 \in 0..n PROVE g[k + 1] \in SUBSET Pairs
      OBVIOUS
    <3>1. k + 1 \in 1..n /\ (k + 1) - 1 = k /\ k \in 0..n
      OBVIOUS
    <3>2. g[k + 1] = PipelineStep(g[k], seq[k + 1])
      BY <1>9, <3>1
    <3> QED
      BY <1>1, <2>2, <3>1, <3>2
  <2>3. Nat \subseteq T
    <3> HIDE DEF T
    <3> QED
      BY <2>1, <2>2, CountingUp
  <2> QED
    BY <2>3
<1> QED
  BY <1>8, <1>9, <1>10 DEF NarrowsBy

-----------------------------------------------------------------------------
(* Under PIPELINE the last rule that matches a pair decides it.            *)
SaysUpto(seq, k, p) == {j \in 1..k : Matches(seq[j], p)}

LEMMA PipelineIs ==
  ASSUME NEW n \in Nat, NEW seq, DOMAIN seq = 1..n, NEW p \in Pairs
  PROVE  p \in PipelineRun(Pairs, seq)
            <=> (SaysUpto(seq, n, p) = {} \/ seq[Max(SaysUpto(seq, n, p))].kind # "FILTER")
<1> DEFINE says(k) == SaysUpto(seq, k, p)
           kept(k) == says(k) = {} \/ seq[Max(says(k))].kind # "FILTER"
<1>0. PICK g : NarrowsBy(g, n, seq, Pairs)
  <2>1. Pairs \in SUBSET Pairs
    OBVIOUS
  <2> QED
    BY <2>1, PipelineRuns
<1>1. /\ g[0] = Pairs /\ g[n] = PipelineRun(Pairs, seq)
      /\ \A k \in 1..n : g[k] = PipelineStep(g[k - 1], seq[k])
  BY <1>0 DEF NarrowsBy
<1> DEFINE T == {k \in Nat : k \in 0..n => (p \in g[k] <=> kept(k))}
<1>2. 0 \in T
  <2>1. says(0) = {}
    BY DEF SaysUpto
  <2> QED
    BY <1>1, <2>1
<1>3. ASSUME NEW k \in Nat, k \in T PROVE k + 1 \in T
  <2> SUFFICES ASSUME k + 1 \in 0..n PROVE p \in g[k + 1] <=> kept(k + 1)
    OBVIOUS
  <2>1. k + 1 \in 1..n /\ (k + 1) - 1 = k /\ k \in 0..n
    OBVIOUS
  <2>2. g[k + 1] = PipelineStep(g[k], seq[k + 1])
    BY <1>1, <2>1
  <2>3. p \in g[k] <=> kept(k)
    BY <1>3, <2>1
  <2> DEFINE turn == seq[k + 1]
             working == g[k]
  <2>4. g[k + 1] = PipelineStep(working, turn)
    BY <2>2
  <2>5. CASE Matches(turn, p)
    <3>1. k + 1 \in says(k + 1) /\ says(k + 1) \in SUBSET (1..(k + 1))
      BY <2>5 DEF SaysUpto
    <3>2. Max(says(k + 1)) = k + 1 /\ says(k + 1) # {}
      <4> HIDE DEF says
      <4> QED
        BY <3>1, HighestOf
    <3>3. kept(k + 1) <=> turn.kind # "FILTER"
      <4> HIDE DEF says
      <4> QED
        BY <3>2
    <3>4. p \in PipelineStep(working, turn) <=> turn.kind # "FILTER"
      <4> HIDE DEF turn, working
      <4>1. p \in {o \in Pairs : Matches(turn, o)}
        BY <2>5
      <4> QED
        BY <4>1 DEF PipelineStep
    <3> HIDE DEF kept, turn, working
    <3> QED
      BY <2>4, <3>3, <3>4
  <2>6. CASE ~Matches(turn, p)
    <3>1. says(k + 1) = says(k)
      <4>1. \A j \in 1..(k + 1) : j # k + 1 => j \in 1..k
        OBVIOUS
      <4>2. 1..k \subseteq 1..(k + 1)
        OBVIOUS
      <4> QED
        BY <2>6, <4>1, <4>2 DEF SaysUpto
    <3>2. kept(k + 1) <=> kept(k)
      <4> HIDE DEF says
      <4> QED
        BY <3>1
    <3>3. p \in PipelineStep(working, turn) <=> p \in working
      <4> HIDE DEF turn, working
      <4>1. p \notin {o \in Pairs : Matches(turn, o)}
        BY <2>6
      <4> QED
        BY <4>1 DEF PipelineStep
    <3>4. p \in working <=> kept(k)
      BY <2>3
    <3> HIDE DEF kept, turn, working
    <3> QED
      BY <2>4, <3>2, <3>3, <3>4
  <2> QED
    BY <2>5, <2>6
<1>4. n \in T
  <2> HIDE DEF T
  <2> QED
    BY <1>2, <1>3, CountingUp
<1> QED
  BY <1>1, <1>4

-----------------------------------------------------------------------------
(* A quota keeps the first pairs of each axis key, and no more of them.    *)
LEMMA LowestOf ==
  ASSUME NEW m \in Nat, NEW keep \in SUBSET (1..m), NEW c \in Nat,
         NEW low, low = {k \in keep : Cardinality(Below(keep, k)) < c}
  PROVE  /\ Cardinality(low) \in Nat /\ Cardinality(low) <= c
         /\ Cardinality(keep) >= c => Cardinality(low) = c
<1> DEFINE size == Cardinality(keep)
           top == IF size <= c THEN size ELSE c
           rank == [k \in low |-> Cardinality(Below(keep, k)) + 1]
<1>1. /\ IsFiniteSet(keep) /\ size \in Nat
      /\ \A i \in 1..size : \E k \in keep : Cardinality(Below(keep, k)) = i - 1
      /\ \A k \in keep : Cardinality(Below(keep, k)) \in Nat /\ Cardinality(Below(keep, k)) + 1 \in 1..size
      /\ \A j, k \in keep : Cardinality(Below(keep, j)) = Cardinality(Below(keep, k)) => j = k
  BY RanksFillUp
<1>2. top \in Nat /\ top <= c /\ (size >= c => top = c) /\ top <= size
  BY <1>1
<1>3. low \subseteq keep /\ \A k \in low : rank[k] \in 1..top
  <2>1. low \subseteq keep
    OBVIOUS
  <2>2. ASSUME NEW k \in low PROVE rank[k] \in 1..top
    <3>1. /\ Cardinality(Below(keep, k)) < c /\ Cardinality(Below(keep, k)) \in Nat
          /\ Cardinality(Below(keep, k)) + 1 \in 1..size
      BY <1>1
    <3> QED
      BY <1>1, <3>1
  <2> QED
    BY <2>1, <2>2
<1>4. \A i \in 1..top : \E k \in low : rank[k] = i
  <2> SUFFICES ASSUME NEW i \in 1..top PROVE \E k \in low : rank[k] = i
    OBVIOUS
  <2>1. i \in 1..size /\ i - 1 < c
    BY <1>1, <1>2
  <2>2. PICK k \in keep : Cardinality(Below(keep, k)) = i - 1
    BY <1>1, <2>1
  <2>3. k \in low
    BY <2>1, <2>2
  <2>4. rank[k] = Cardinality(Below(keep, k)) + 1
    BY <2>3
  <2> QED
    BY <2>2, <2>3, <2>4
<1>5. \A j, k \in low : rank[j] = rank[k] => j = k
  <2> SUFFICES ASSUME NEW j \in low, NEW k \in low, rank[j] = rank[k] PROVE j = k
    OBVIOUS
  <2>1. Cardinality(Below(keep, j)) + 1 = Cardinality(Below(keep, k)) + 1
    OBVIOUS
  <2>2. Cardinality(Below(keep, j)) \in Nat /\ Cardinality(Below(keep, k)) \in Nat /\ j \in keep /\ k \in keep
    BY <1>1, <1>3
  <2> QED
    BY <1>1, <2>1, <2>2
<1>6. rank \in Injection(low, 1..top) /\ rank \in Surjection(low, 1..top)
  <2>1. rank \in [low -> 1..top] /\ DOMAIN rank = low
    BY <1>3
  <2> HIDE DEF rank, top
  <2> QED
    BY <1>4, <1>5, <2>1 DEF Injection, IsInjective, Surjection
<1>7. IsFiniteSet(1..top) /\ Cardinality(1..top) = top
  <2> HIDE DEF top
  <2>1. IsFiniteSet(1..top) /\ Cardinality(1..top) = IF 1 > top THEN 0 ELSE top - 1 + 1
    <3>1. 1 \in Int /\ top \in Int
      BY <1>2
    <3> QED
      BY <3>1, FS_Interval
  <2> QED
    BY <1>2, <2>1
<1>8. Cardinality(low) = top
  <2> HIDE DEF rank, top
  <2> QED
    BY <1>6, <1>7, FS_Injection
<1> QED
  BY <1>2, <1>8

LEMMA PlacesAre ==
  /\ Len(PairOrder) \in Nat /\ DOMAIN PairOrder = 1..Len(PairOrder)
  /\ \A p \in Pairs : Place(p) \in 1..Len(PairOrder) /\ PairOrder[Place(p)] = p
<1>1. Len(PairOrder) \in Nat /\ DOMAIN PairOrder = 1..Len(PairOrder)
  BY BoundsAssumption
<1>2. ASSUME NEW p \in Pairs PROVE Place(p) \in 1..Len(PairOrder) /\ PairOrder[Place(p)] = p
  <2>1. \E k \in DOMAIN PairOrder : PairOrder[k] = p
    BY DEF Pairs, Range
  <2> QED
    BY <1>1, <2>1 DEF Place
<1> QED
  BY <1>1, <1>2

PlacesOf(S) == {Place(p) : p \in S}

LEMMA PlacesCount ==
  ASSUME NEW S \in SUBSET Pairs
  PROVE  /\ IsFiniteSet(S) /\ Cardinality(S) \in Nat
         /\ Cardinality(S) = Cardinality(PlacesOf(S)) /\ PlacesOf(S) \in SUBSET (1..Len(PairOrder))
<1> DEFINE f == [p \in S |-> Place(p)]
           T == PlacesOf(S)
<1>1. T \in SUBSET (1..Len(PairOrder))
  BY PlacesAre DEF PlacesOf
<1>2. IsFiniteSet(T) /\ Cardinality(T) \in Nat
  <2>1. IsFiniteSet(1..Len(PairOrder))
    BY PlacesAre, FS_Interval
  <2> HIDE DEF T
  <2> QED
    BY <1>1, <2>1, FS_Subset, FS_CardinalityType
<1>3. f \in [S -> T] /\ \A k \in T : \E p \in S : f[p] = k
  BY DEF PlacesOf
<1>4. \A p, o \in S : f[p] = f[o] => p = o
  <2> SUFFICES ASSUME NEW p \in S, NEW o \in S, Place(p) = Place(o) PROVE p = o
    OBVIOUS
  <2>1. PairOrder[Place(p)] = p /\ PairOrder[Place(o)] = o
    BY PlacesAre
  <2> QED
    BY <2>1
<1>5. f \in Injection(S, T) /\ f \in Surjection(S, T)
  <2>1. DOMAIN f = S
    OBVIOUS
  <2> HIDE DEF f, T
  <2> QED
    BY <1>3, <1>4, <2>1 DEF Injection, IsInjective, Surjection
<1>6. IsFiniteSet(S) /\ Cardinality(S) = Cardinality(T)
  <2> HIDE DEF f, T
  <2> QED
    BY <1>2, <1>5, FS_Injection
<1> QED
  BY <1>1, <1>2, <1>6

ShareOf(S, q, p) == {o \in S : Axis(q, o) = Axis(q, p)}

LEMMA SharesAre ==
  ASSUME NEW S \in SUBSET Pairs, NEW q, NEW p
  PROVE  /\ ShareOf(S, q, p) \in SUBSET S /\ ShareOf(S, q, p) \in SUBSET Pairs
         /\ IsFiniteSet(ShareOf(S, q, p)) /\ Cardinality(ShareOf(S, q, p)) \in Nat
<1>1. ShareOf(S, q, p) \in SUBSET S /\ ShareOf(S, q, p) \in SUBSET Pairs
  BY DEF ShareOf
<1> QED
  BY <1>1, PlacesCount

Ahead(S, q, o) == {x \in S : Axis(q, x) = Axis(q, o) /\ Place(x) < Place(o)}

LEMMA CappedIs ==
  ASSUME NEW S \in SUBSET Pairs, NEW q, q.max \in Nat, NEW p
  PROVE  /\ Capped(S, q) \in SUBSET S
         /\ Cardinality(ShareOf(Capped(S, q), q, p)) <= q.max
         /\ Cardinality(ShareOf(S, q, p)) >= q.max => Cardinality(ShareOf(Capped(S, q), q, p)) = q.max
         /\ p \in S => p \in Capped(S, q) \/ Cardinality(ShareOf(S, q, p)) > q.max
<1> DEFINE A == ShareOf(S, q, p)
           K == PlacesOf(A)
           B == ShareOf(Capped(S, q), q, p)
           low == {k \in K : Cardinality(Below(K, k)) < q.max}
<1>1. Capped(S, q) = {o \in S : Cardinality(Ahead(S, q, o)) < q.max}
  BY DEF Capped, Ahead
<1>2. A \in SUBSET S /\ A \in SUBSET Pairs
  BY SharesAre
<1>3. /\ Cardinality(A) = Cardinality(K) /\ K \in SUBSET (1..Len(PairOrder)) /\ Len(PairOrder) \in Nat
  <2> HIDE DEF A
  <2> QED
    BY <1>2, PlacesCount, PlacesAre
<1>4. \A o \in A : Place(o) \in K
  <2> HIDE DEF A
  <2> QED
    BY DEF PlacesOf
<1>5. ASSUME NEW o \in A PROVE Cardinality(Ahead(S, q, o)) = Cardinality(Below(K, Place(o)))
  <2>1. Ahead(S, q, o) \in SUBSET Pairs /\ \A x : x \in Ahead(S, q, o) <=> x \in A /\ Place(x) < Place(o)
    BY DEF Ahead, ShareOf
  <2>2. PlacesOf(Ahead(S, q, o)) = Below(K, Place(o))
    <3> HIDE DEF A
    <3> QED
      BY <2>1 DEF PlacesOf, Below
  <2> QED
    BY <2>1, <2>2, PlacesCount
<1>6. \A o \in A : o \in B <=> Place(o) \in low
  <2>1. \A o \in A : o \in B <=> Cardinality(Ahead(S, q, o)) < q.max
    BY <1>1 DEF ShareOf
  <2> HIDE DEF A, B, K
  <2> QED
    BY <1>4, <1>5, <2>1
<1>7. B \in SUBSET A
  BY <1>1 DEF ShareOf
<1>8. PlacesOf(B) = low
  <2>1. \A k \in K : \E o \in A : k = Place(o)
    BY DEF PlacesOf
  <2> HIDE DEF A, B, K
  <2>2. ASSUME NEW k \in PlacesOf(B) PROVE k \in low
    BY <1>6, <1>7 DEF PlacesOf
  <2>3. ASSUME NEW k \in low PROVE k \in PlacesOf(B)
    BY <1>6, <2>1 DEF PlacesOf
  <2> HIDE DEF low
  <2> QED
    BY <2>2, <2>3
<1>9. Cardinality(B) = Cardinality(low)
  <2> HIDE DEF A, B, low
  <2> QED
    BY <1>2, <1>7, <1>8, PlacesCount
<1>10. /\ Cardinality(low) \in Nat /\ Cardinality(low) <= q.max
       /\ Cardinality(K) >= q.max => Cardinality(low) = q.max
  <2> HIDE DEF K
  <2> QED
    BY <1>3, LowestOf
<1>11. p \in S /\ p \notin Capped(S, q) => Cardinality(A) > q.max
  <2> SUFFICES ASSUME p \in S, p \notin Capped(S, q) PROVE Cardinality(A) > q.max
    OBVIOUS
  <2>1. p \in A /\ ~(Cardinality(Ahead(S, q, p)) < q.max)
    BY <1>1 DEF ShareOf
  <2>2. ~(Cardinality(Below(K, Place(p))) < q.max) /\ Place(p) \in K
    <3> HIDE DEF A, K
    <3> QED
      BY <1>4, <1>5, <2>1
  <2>3. /\ Cardinality(Below(K, Place(p))) \in Nat /\ Cardinality(K) \in Nat
        /\ Cardinality(Below(K, Place(p))) + 1 \in 1..Cardinality(K)
    <3> HIDE DEF K
    <3> QED
      BY <1>3, <2>2, RanksFillUp
  <2> HIDE DEF A, K
  <2> QED
    BY <1>3, <2>2, <2>3
<1> HIDE DEF low
<1>12. Capped(S, q) \in SUBSET S
  BY <1>1
<1> QED
  BY <1>3, <1>9, <1>10, <1>11, <1>12

(* Quotas in turn: no later one undoes an earlier cap, and one alone drops *)
(* a pair only where its axis is full.                                     *)
LEMMA QuotasAre ==
  ASSUME NEW n \in Nat, NEW seq, DOMAIN seq = 1..n, NEW base \in SUBSET Pairs,
         \A k \in 1..n : seq[k].max \in Nat, NEW i \in 1..n, NEW p \in base
  PROVE  LET kept == QuotasRun(base, seq)
         IN  /\ Cardinality(ShareOf(kept, seq[i], p)) <= seq[i].max
             /\ (\A k \in 1..n : seq[k] = seq[i])
                   => p \in kept \/ Cardinality(ShareOf(kept, seq[i], p)) = seq[i].max
<1>0. PICK g : CapsBy(g, n, seq, base)
  BY CappedRuns
<1>1. /\ g[0] = base /\ g[n] = QuotasRun(base, seq)
      /\ \A k \in 1..n : g[k] = Capped(g[k - 1], seq[k])
      /\ \A k \in 0..n : g[k] \in SUBSET Pairs
  BY <1>0 DEF CapsBy
<1> DEFINE q == seq[i]
           kept == QuotasRun(base, seq)
<1>6. g[n] = kept
  BY <1>1
<1> HIDE DEF kept
<1>2. q.max \in Nat
  OBVIOUS
<1>3. \A k \in 1..n : g[k - 1] \in SUBSET Pairs /\ g[k] \in SUBSET Pairs /\ g[k] \in SUBSET g[k - 1]
  <2> SUFFICES ASSUME NEW k \in 1..n
               PROVE  g[k - 1] \in SUBSET Pairs /\ g[k] \in SUBSET Pairs /\ g[k] \in SUBSET g[k - 1]
    OBVIOUS
  <2>1. g[k - 1] \in SUBSET Pairs /\ g[k] \in SUBSET Pairs /\ seq[k].max \in Nat
    BY <1>1
  <2>2. Capped(g[k - 1], seq[k]) \in SUBSET g[k - 1]
    BY <2>1, CappedIs
  <2> QED
    BY <1>1, <2>1, <2>2
<1>4. Cardinality(ShareOf(kept, q, p)) <= q.max
  <2> DEFINE T == {k \in Nat : i + k \in 1..n => g[i + k] \subseteq g[i]}
  <2>1. 0 \in T
    OBVIOUS
  <2>2. ASSUME NEW k \in Nat, k \in T PROVE k + 1 \in T
    <3> SUFFICES ASSUME i + (k + 1) \in 1..n PROVE g[i + (k + 1)] \subseteq g[i]
      OBVIOUS
    <3>1. i + k \in 1..n /\ (i + (k + 1)) - 1 = i + k
      OBVIOUS
    <3>2. g[i + (k + 1)] \subseteq g[i + k]
      BY <1>3, <3>1
    <3> QED
      BY <2>2, <3>1, <3>2
  <2>3. Nat \subseteq T
    <3> HIDE DEF T
    <3> QED
      BY <2>1, <2>2, CountingUp
  <2>4. n - i \in Nat /\ i + (n - i) = n /\ n \in 1..n
    OBVIOUS
  <2>5. kept \subseteq g[i] /\ g[i] \in SUBSET Pairs
    BY <1>3, <1>6, <2>3, <2>4
  <2>6. Cardinality(ShareOf(g[i], q, p)) <= q.max
    BY <1>1, <1>2, <1>3, CappedIs
  <2>7. ShareOf(kept, q, p) \in SUBSET ShareOf(g[i], q, p)
    BY <2>5 DEF ShareOf
  <2>8. /\ IsFiniteSet(ShareOf(g[i], q, p)) /\ Cardinality(ShareOf(g[i], q, p)) \in Nat
        /\ Cardinality(ShareOf(kept, q, p)) \in Nat
    BY <2>5, SharesAre
  <2>9. Cardinality(ShareOf(kept, q, p)) <= Cardinality(ShareOf(g[i], q, p))
    BY <2>7, <2>8, FS_Subset
  <2> HIDE DEF q
  <2> QED
    BY <1>2, <2>6, <2>8, <2>9
<1>5. ASSUME \A k \in 1..n : seq[k] = q
      PROVE  p \in kept \/ Cardinality(ShareOf(kept, q, p)) = q.max
  <2> DEFINE T == {k \in Nat : k + 1 \in 1..n => g[k + 1] = g[1]}
  <2> HIDE DEF q
  <2>1. 1 \in 1..n /\ g[1] = Capped(base, q) /\ g[1] \in SUBSET Pairs
    BY <1>1, <1>3, <1>5
  <2>2. \A o : Cardinality(ShareOf(g[1], q, o)) <= q.max /\ Cardinality(ShareOf(g[1], q, o)) \in Nat
    BY <1>2, <2>1, CappedIs, SharesAre
  <2>3. Capped(g[1], q) = g[1]
    <3>1. Capped(g[1], q) \subseteq g[1]
      BY <1>2, <2>1, CappedIs
    <3>2. ASSUME NEW o \in g[1] PROVE o \in Capped(g[1], q)
      <4>1. o \in Capped(g[1], q) \/ Cardinality(ShareOf(g[1], q, o)) > q.max
        BY <1>2, <2>1, CappedIs
      <4> QED
        BY <1>2, <2>2, <4>1
    <3> QED
      BY <3>1, <3>2
  <2>4. 0 \in T
    OBVIOUS
  <2>5. ASSUME NEW k \in Nat, k \in T PROVE k + 1 \in T
    <3> SUFFICES ASSUME (k + 1) + 1 \in 1..n PROVE g[(k + 1) + 1] = g[1]
      OBVIOUS
    <3>1. k + 1 \in 1..n /\ ((k + 1) + 1) - 1 = k + 1
      OBVIOUS
    <3>2. g[(k + 1) + 1] = Capped(g[k + 1], q)
      BY <1>1, <1>5, <3>1
    <3>3. g[k + 1] = g[1]
      BY <2>5, <3>1
    <3> QED
      BY <2>3, <3>2, <3>3
  <2>6. Nat \subseteq T
    <3> HIDE DEF T
    <3> QED
      BY <2>4, <2>5, CountingUp
  <2>7. n - 1 \in Nat /\ (n - 1) + 1 = n /\ n \in 1..n
    BY <2>1
  <2>8. kept = Capped(base, q)
    BY <1>6, <2>1, <2>6, <2>7
  <2>9. /\ p \in Capped(base, q) \/ Cardinality(ShareOf(base, q, p)) > q.max
        /\ Cardinality(ShareOf(base, q, p)) >= q.max
              => Cardinality(ShareOf(Capped(base, q), q, p)) = q.max
    BY <1>2, CappedIs
  <2>10. Cardinality(ShareOf(base, q, p)) \in Nat
    BY SharesAre
  <2> QED
    BY <1>2, <2>8, <2>9, <2>10
<1> QED
  BY <1>4, <1>5 DEF kept

-----------------------------------------------------------------------------
LEMMA ListsMean ==
  ASSUME IsStored(inst) PROVE OldListsMean
<1> DEFINE rules == inst.rules
           content == ContentRules(rules)
           quotas == Quotas(rules)
           chosen == Content(content, inst.comb)
           kept == Evaluate(rules, inst.comb)
           m == Len(rules)
           keepC == {k \in EnabledAt(rules) : rules[k].kind # "QUOTA"}
           keepQ == {k \in EnabledAt(rules) : rules[k].kind = "QUOTA"}
<1>1. /\ AreRules(rules) /\ inst.comb \in {"ALL_OF", "ANY_OF", "PIPELINE"}
      /\ m \in Nat /\ DOMAIN rules = 1..m
  <2>1. AreRules(rules) /\ inst.comb \in {"ALL_OF", "ANY_OF", "PIPELINE"}
    BY DEF IsStored
  <2> HIDE DEF rules
  <2> QED
    BY <2>1 DEF AreRules
<1>2. /\ keepC \in SUBSET (1..m) /\ keepQ \in SUBSET (1..m)
      /\ content = Picked(rules, keepC) /\ quotas = Picked(rules, keepQ)
  BY <1>1 DEF EnabledAt, ContentRules, Quotas
<1>3. \A r \in Range(quotas) : r.max \in Nat
  <2>1. Range(quotas) = At(rules, keepQ)
    <3> HIDE DEF rules, keepQ, quotas, m
    <3> QED
      BY <1>1, <1>2, PickedIs
  <2>2. \A k \in keepQ : rules[k] \in Range(rules) /\ rules[k].kind = "QUOTA"
    BY DEF EnabledAt, Range
  <2>3. \A k \in keepQ : rules[k].max \in Nat
    <3> HIDE DEF rules, keepQ
    <3> QED
      BY <1>1, <2>2 DEF AreRules
  <2> HIDE DEF rules, keepQ, quotas
  <2> QED
    BY <2>1, <2>3 DEF At
<1>4. \E n \in Nat : DOMAIN content = 1..n
  <2> HIDE DEF rules, keepC, content, m
  <2>1. DOMAIN content = 1..Cardinality(keepC) /\ Cardinality(keepC) \in Nat
    BY <1>1, <1>2, PickedIs
  <2> QED
    BY <2>1
<1>5. \E n \in Nat : DOMAIN quotas = 1..n
  <2> HIDE DEF rules, keepQ, quotas, m
  <2>1. DOMAIN quotas = 1..Cardinality(keepQ) /\ Cardinality(keepQ) \in Nat
    BY <1>1, <1>2, PickedIs
  <2> QED
    BY <2>1
<1> HIDE DEF content, quotas, rules, keepC, keepQ
<1>6. PICK c \in Nat : DOMAIN content = 1..c
  BY <1>4
<1>7. PICK n \in Nat : DOMAIN quotas = 1..n
  BY <1>5
<1>8. chosen \in SUBSET Pairs
  <2>1. PipelineRun(Pairs, content) \in SUBSET Pairs
    <3>1. PICK g : NarrowsBy(g, c, content, Pairs)
      <4>1. Pairs \in SUBSET Pairs
        OBVIOUS
      <4> QED
        BY <1>6, <4>1, PipelineRuns
    <3>2. c \in 0..c
      OBVIOUS
    <3> QED
      BY <3>1, <3>2 DEF NarrowsBy
  <2> QED
    BY <1>1, <2>1 DEF Content, PipelineRun
<1>9. kept = QuotasRun(chosen, quotas)
  BY DEF Evaluate, QuotasRun, content, quotas
<1>10. ASSUME inst.comb = "PIPELINE", NEW p \in Pairs
       PROVE  LET says == {k \in DOMAIN content : Matches(content[k], p)}
              IN  p \in chosen <=> (says = {} \/ content[Max(says)].kind # "FILTER")
  <2> DEFINE says == {k \in DOMAIN content : Matches(content[k], p)}
  <2>1. says = SaysUpto(content, c, p)
    BY <1>6 DEF SaysUpto
  <2>2. CASE content = << >>
    <3>1. says = {} /\ chosen = Pairs
      BY <2>2 DEF Content
    <3> QED
      BY <3>1
  <2>3. CASE content # << >>
    <3>1. chosen = PipelineRun(Pairs, content)
      BY <1>10, <2>3 DEF Content, PipelineRun
    <3>2. p \in chosen <=> (SaysUpto(content, c, p) = {} \/ content[Max(SaysUpto(content, c, p))].kind # "FILTER")
      BY <1>6, <3>1, PipelineIs
    <3> HIDE DEF says
    <3>3. p \in chosen <=> (says = {} \/ content[Max(says)].kind # "FILTER")
      BY <2>1, <3>2
    <3> QED
      BY <3>3 DEF says
  <2> QED
    BY <2>2, <2>3
<1>11. ASSUME NEW q \in Range(quotas), NEW p \in chosen
       PROVE  /\ Cardinality(ShareOf(kept, q, p)) <= q.max
              /\ Range(quotas) = {q} => p \in kept \/ Cardinality(ShareOf(kept, q, p)) = q.max
  <2>1. PICK i \in 1..n : quotas[i] = q
    BY <1>7 DEF Range
  <2>2. \A k \in 1..n : quotas[k] \in Range(quotas)
    BY <1>7 DEF Range
  <2>3. \A k \in 1..n : quotas[k].max \in Nat
    BY <1>3, <2>2
  <2> HIDE DEF chosen, kept
  <2>4. /\ Cardinality(ShareOf(kept, quotas[i], p)) <= quotas[i].max
        /\ (\A k \in 1..n : quotas[k] = quotas[i])
              => p \in kept \/ Cardinality(ShareOf(kept, quotas[i], p)) = quotas[i].max
    BY <1>7, <1>8, <1>9, <2>3, QuotasAre
  <2>5. Range(quotas) = {q} => \A k \in 1..n : quotas[k] = quotas[i]
    BY <2>1, <2>2
  <2> QED
    BY <2>1, <2>4, <2>5
<1> QED
  BY <1>10, <1>11 DEF OldListsMean, ShareOf, content, quotas, rules

\* For any roster, tags, stored lists and behaviour: under PIPELINE the last rule
\* that matches a pair decides it, no later quota undoes an earlier cap, and a
\* sole quota drops a pair only where its axis is full (_apply_content_rules and
\* apply_quota take the rules in turn).
THEOREM OldListsMeanTheSame == Spec => []OldListsMean
<1>1. RulesInv => OldListsMean
  BY ListsMean DEF RulesInv, TypeOK
<1> QED
  BY InitRuled, NextRuled, <1>1, PTL DEF Spec

-----------------------------------------------------------------------------
(***************************************************************************)
(* The cached verdict.  What a stamp keeps of the rows is how many there   *)
(* are and their highest id.  That tells the rows of today from those of   *)
(* any earlier moment, because a row keeps its id and no id is handed out  *)
(* twice.                                                                  *)
(***************************************************************************)
RowSets == UNION {[ids -> People] : ids \in SUBSET (1..IdBound)}

(* The rows of today are rows of R, or were inserted after it.             *)
Earlier(R) ==
    \E n \in 0..lastId : /\ DOMAIN R \subseteq 1..n
                         /\ \A i \in DOMAIN rows : i <= n => i \in DOMAIN R /\ rows[i] = R[i]

(* A verdict computed from one earlier view of the rows.                   *)
FromOneView(v) ==
    \E R \in RowSets :
        /\ Earlier(R) /\ v.stamp.rows = Cache!Summary(R)
        /\ v = Cache!Stored(v.stamp, Cache!Verdict(Cache!Fan(v.stamp.rule, v.stamp.roster), R))

CacheTyped ==
    /\ lastId \in 0..IdBound
    /\ rows \in RowSets /\ DOMAIN rows \subseteq 1..lastId
    /\ roster \subseteq People
    /\ load = [p \in Loads |-> load[p]]

CacheInv ==
    /\ CacheTyped
    /\ \A v \in computed : FromOneView(v)
    /\ \A p \in Loads : load[p].at = "missed" =>
          /\ load[p].seen \in RowSets /\ Earlier(load[p].seen)
          /\ load[p].stamp.rows = Cache!Summary(load[p].seen)

(* The instance's own names for the operators of the library.              *)
LEMMA CacheLibrary ==
  ASSUME NEW S
  PROVE  /\ Cache!IsFiniteSet(S) <=> IsFiniteSet(S)
         /\ Cache!Cardinality(S) = Cardinality(S)
         /\ Cache!Max(S) = Max(S) /\ Cache!SetToSeq(S) = SetToSeq(S)
<1>1. Cache!IsFiniteSet(S) <=> IsFiniteSet(S)
  BY DEF Cache!IsFiniteSet, IsFiniteSet
<1>2. Cache!Cardinality(S) = Cardinality(S)
  BY DEF Cache!Cardinality, Cardinality
<1>3. Cache!Max(S) = Max(S)
  BY DEF Cache!Max, Max
<1>4. Cache!SetToSeq(S) = SetToSeq(S)
  BY <1>2 DEF Cache!SetToSeq, SetToSeq, Cache!IsInjective, IsInjective
<1> QED
  BY <1>1, <1>2, <1>3, <1>4

LEMMA RowSet ==
  ASSUME NEW R
  PROVE  R \in RowSets <=> DOMAIN R \in SUBSET (1..IdBound) /\ R \in [DOMAIN R -> People]
BY DEF RowSets

LEMMA IdBoundIsNat == IdBound \in Nat /\ IsFiniteSet(People)
BY CacheAssumption, CacheLibrary DEF Cache!BoundsAssumption

LEMMA IdsAreFinite ==
  ASSUME NEW R \in RowSets
  PROVE  /\ DOMAIN R \in SUBSET Nat /\ IsFiniteSet(DOMAIN R)
         /\ Cardinality(DOMAIN R) \in Nat /\ (Cardinality(DOMAIN R) = 0 <=> DOMAIN R = {})
<1>1. DOMAIN R \in SUBSET (1..IdBound)
  BY RowSet
<1>2. IsFiniteSet(1..IdBound)
  BY IdBoundIsNat, FS_Interval
<1> QED
  BY <1>1, <1>2, IdBoundIsNat, FS_Subset, FS_CardinalityType, FS_EmptySet

LEMMA HighestId ==
  ASSUME NEW R \in RowSets, DOMAIN R # {}
  PROVE  Max(DOMAIN R) \in DOMAIN R /\ \A i \in DOMAIN R : i <= Max(DOMAIN R)
<1>1. \E m \in DOMAIN R : \A i \in DOMAIN R : i <= m
  BY IdsAreFinite, GreatestExists
<1>2. \E m \in DOMAIN R : \A i \in DOMAIN R : m >= i
  BY <1>1, IdsAreFinite
<1>3. Max(DOMAIN R) \in DOMAIN R /\ \A i \in DOMAIN R : Max(DOMAIN R) >= i
  BY <1>2 DEF Max
<1> QED
  BY <1>3, IdsAreFinite

(* The count and the highest id tell the rows from any earlier ones.       *)
LEMMA SummaryTells ==
  ASSUME CacheTyped, NEW R \in RowSets, Earlier(R), Cache!Summary(R) = Cache!Summary(rows)
  PROVE  R = rows
<1>1. rows \in RowSets
  BY DEF CacheTyped
<1>2. Cardinality(DOMAIN R) = Cardinality(DOMAIN rows)
  BY CacheLibrary DEF Cache!Summary
<1>3. DOMAIN R = DOMAIN rows /\ \A i \in DOMAIN rows : rows[i] = R[i]
  <2>1. CASE DOMAIN rows = {}
    BY <1>1, <1>2, <2>1, IdsAreFinite
  <2>2. CASE DOMAIN rows # {}
    <3>1. DOMAIN R # {}
      BY <1>1, <1>2, <2>2, IdsAreFinite
    <3>2. Max(DOMAIN R) = Max(DOMAIN rows)
      BY <2>2, <3>1, CacheLibrary DEF Cache!Summary
    <3>3. PICK n \in 0..lastId :
             /\ DOMAIN R \subseteq 1..n
             /\ \A i \in DOMAIN rows : i <= n => i \in DOMAIN R /\ rows[i] = R[i]
      BY DEF Earlier
    <3>4. \A i \in DOMAIN rows : i <= n
      <4>1. Max(DOMAIN R) \in 1..n
        BY <3>1, <3>3, HighestId
      <4>2. \A i \in DOMAIN rows : i <= Max(DOMAIN R) /\ i \in Nat
        BY <1>1, <2>2, <3>2, HighestId, IdsAreFinite
      <4> QED
        BY <4>1, <4>2
    <3>5. DOMAIN rows \in SUBSET DOMAIN R
      BY <3>3, <3>4
    <3>6. DOMAIN R = DOMAIN rows
      BY <1>2, <3>5, IdsAreFinite, FS_Subset
    <3> QED
      BY <3>3, <3>4, <3>6
  <2> QED
    BY <2>1, <2>2
<1> QED
  BY <1>1, <1>3, RowSet

LEMMA InvGivesVerdicts ==
  ASSUME CacheInv
  PROVE  Cache!ComputedVerdictsAreRight
<1> SUFFICES ASSUME NEW v \in computed, v.stamp = Cache!Current
             PROVE  v = Cache!Truth
  BY DEF Cache!ComputedVerdictsAreRight
<1>1. PICK R \in RowSets :
         /\ Earlier(R) /\ v.stamp.rows = Cache!Summary(R)
         /\ v = Cache!Stored(v.stamp, Cache!Verdict(Cache!Fan(v.stamp.rule, v.stamp.roster), R))
  BY DEF CacheInv, FromOneView
<1>2. v.stamp.rule = rule /\ v.stamp.roster = roster /\ v.stamp.rows = Cache!Summary(rows)
  BY DEF Cache!Current, Cache!Stamp
<1>3. R = rows
  BY <1>1, <1>2, SummaryTells DEF CacheInv
<1> QED
  BY <1>1, <1>2, <1>3 DEF Cache!Truth

-----------------------------------------------------------------------------
(* Rows keep their ids, and new ones get ids no row had.                   *)
RowsMoveOn ==
    /\ lastId' \in 0..IdBound /\ lastId <= lastId'
    /\ rows' \in RowSets /\ DOMAIN rows' \subseteq 1..lastId'
    /\ \A i \in DOMAIN rows' : i <= lastId => i \in DOMAIN rows /\ rows'[i] = rows[i]

LEMMA EarlierStays ==
  ASSUME CacheTyped, RowsMoveOn, NEW R, Earlier(R)
  PROVE  Earlier(R)'
<1>1. PICK n \in 0..lastId :
         /\ DOMAIN R \subseteq 1..n
         /\ \A i \in DOMAIN rows : i <= n => i \in DOMAIN R /\ rows[i] = R[i]
  BY DEF Earlier
<1>2. n \in 0..lastId' /\ n <= lastId
  BY DEF CacheTyped, RowsMoveOn
<1>3. ASSUME NEW i \in DOMAIN rows', i <= n
      PROVE  i \in DOMAIN R /\ rows'[i] = R[i]
  <2>1. i \in Nat /\ lastId \in Nat /\ n \in Nat
    BY DEF CacheTyped, RowsMoveOn
  <2>2. i <= lastId
    BY <1>2, <1>3, <2>1
  <2> QED
    BY <1>1, <1>3, <2>2 DEF RowsMoveOn
<1> QED
  BY <1>1, <1>2, <1>3 DEF Earlier

LEMMA RowsAreEarlier == ASSUME CacheTyped PROVE Earlier(rows)
<1>1. lastId \in 0..lastId
  BY DEF CacheTyped
<1> QED
  BY <1>1 DEF CacheTyped, Earlier

(* A step keeps the invariant when it moves the rows on and what it adds   *)
(* was computed, or read, from one view.                                   *)
LEMMA MovingOnKeeps ==
  ASSUME CacheInv, RowsMoveOn, roster' \subseteq roster, load' = [p \in Loads |-> load'[p]],
         \A v \in computed' \ computed : FromOneView(v)',
         \A p \in Loads : load'[p].at = "missed" /\ load'[p] # load[p] =>
            /\ load'[p].seen \in RowSets /\ Earlier(load'[p].seen)
            /\ load'[p].stamp.rows = Cache!Summary(load'[p].seen)
  PROVE  CacheInv'
<1>1. CacheTyped
  BY DEF CacheInv
<1>2. CacheTyped'
  BY <1>1 DEF CacheTyped, RowsMoveOn
<1>3. \A R \in RowSets : Earlier(R) => Earlier(R)'
  BY <1>1, EarlierStays
<1>4. \A v \in computed' : FromOneView(v)'
  <2> SUFFICES ASSUME NEW v \in computed PROVE FromOneView(v)'
    OBVIOUS
  <2>1. FromOneView(v)
    BY DEF CacheInv
  <2> QED
    BY <1>3, <2>1 DEF FromOneView
<1>5. ASSUME NEW p \in Loads, load'[p].at = "missed"
      PROVE  (/\ load[p].seen \in RowSets /\ Earlier(load[p].seen)
              /\ load[p].stamp.rows = Cache!Summary(load[p].seen))'
  <2>1. PICK R \in RowSets :
           R = load'[p].seen /\ Earlier(R) /\ load'[p].stamp.rows = Cache!Summary(R)
    BY <1>5 DEF CacheInv
  <2>2. Earlier(R)'
    BY <1>3, <2>1
  <2> QED
    BY <2>1, <2>2 DEF Earlier
<1> QED
  BY <1>2, <1>4, <1>5 DEF CacheInv

LEMMA QuietKeeps ==
  ASSUME CacheInv, UNCHANGED <<rows, lastId>>, roster' \subseteq roster,
         load' = [p \in Loads |-> load'[p]],
         \A v \in computed' \ computed : FromOneView(v),
         \A p \in Loads : load'[p].at = "missed" /\ load'[p] # load[p] =>
            /\ load'[p].seen \in RowSets /\ Earlier(load'[p].seen)
            /\ load'[p].stamp.rows = Cache!Summary(load'[p].seen)
  PROVE  CacheInv'
<1>1. RowsMoveOn
  BY DEF CacheInv, CacheTyped, RowsMoveOn
<1>2. ASSUME NEW v, FromOneView(v) PROVE FromOneView(v)'
  <2>1. \A R : Earlier(R) => Earlier(R)'
    BY DEF Earlier
  <2> QED
    BY <1>2, <2>1 DEF FromOneView
<1> QED
  BY <1>1, <1>2, MovingOnKeeps

(* A load's next statement, seen from the other loads.                     *)
LEMMA LoadSteps ==
  ASSUME CacheTyped, NEW p \in Loads, NEW at, NEW then, Cache!Steps(p, at, then)
  PROVE  /\ load' = [q \in Loads |-> load'[q]] /\ load'[p] = then /\ load[p].at = at
         /\ \A q \in Loads : load'[q] # load[q] => q = p
         /\ UNCHANGED <<rows, lastId, roster>>
BY DEF CacheTyped, Cache!Steps

LEMMA CacheInitHolds ==
  ASSUME Cache!Init
  PROVE  CacheInv
<1>1. rows = << >> /\ lastId = 0 /\ roster = People
  BY DEF Cache!Init
<1>2. CacheTyped
  <2>1. DOMAIN rows = {} /\ rows \in [{} -> People]
    BY <1>1
  <2>2. rows \in RowSets
    BY <2>1, RowSet
  <2>3. lastId \in 0..IdBound
    BY <1>1, IdBoundIsNat
  <2>4. load = [p \in Loads |-> load[p]]
    BY DEF Cache!Init
  <2> QED
    BY <1>1, <2>1, <2>2, <2>3, <2>4 DEF CacheTyped
<1>3. \A p \in Loads : load[p].at # "missed"
  BY DEF Cache!Init, Cache!Idle
<1> QED
  BY <1>2, <1>3 DEF CacheInv, Cache!Init

(* What a run inserts, as a sequence without repetitions.                  *)
LEMMA InsertedIs ==
  ASSUME CacheTyped, NEW fan \in SUBSET People
  PROVE  /\ Len(Cache!Inserted(fan)) \in Nat
         /\ DOMAIN Cache!Inserted(fan) = 1..Len(Cache!Inserted(fan))
         /\ \A k \in DOMAIN Cache!Inserted(fan) : Cache!Inserted(fan)[k] \in fan
<1> DEFINE new == fan \ Cache!Range(rows)
<1>1. IsFiniteSet(new)
  BY IdBoundIsNat, FS_Subset
<1>2. Cardinality(new) \in Nat /\ ExistsBijection(1..Cardinality(new), new)
  BY <1>1, FS_CardinalityType
<1>3. \E f \in [1..Cardinality(new) -> new] : IsInjective(f)
  <2>1. PICK f \in [1..Cardinality(new) -> new] :
           \A a, b \in 1..Cardinality(new) : f[a] = f[b] => a = b
    BY <1>2 DEF ExistsBijection, Bijection, Injection, IsInjective
  <2> QED
    BY <2>1 DEF IsInjective
<1>4. Cache!Inserted(fan) \in [1..Cardinality(new) -> new]
  <2>1. Cache!Inserted(fan) = SetToSeq(new)
    BY CacheLibrary DEF Cache!Inserted
  <2> QED
    BY <1>3, <2>1 DEF SetToSeq
<1> HIDE DEF new
<1>5. /\ Cache!Inserted(fan) \in Seq(new) /\ Len(Cache!Inserted(fan)) = Cardinality(new)
      /\ DOMAIN Cache!Inserted(fan) = 1..Cardinality(new)
  BY <1>2, <1>4
<1> QED
  BY <1>2, <1>4, <1>5 DEF new

LEMMA RunMovesOn ==
  ASSUME CacheTyped, NEW fan \in SUBSET People,
         lastId' = lastId + Len(Cache!Inserted(fan)), lastId' <= IdBound,
         rows' = Cache!Materialised(fan)
  PROVE  RowsMoveOn
<1> DEFINE new == Cache!Inserted(fan)
           fresh == {lastId + k : k \in DOMAIN new}
           kept == Cache!Kept(fan)
<1>1. /\ Len(new) \in Nat /\ DOMAIN new = 1..Len(new)
      /\ \A k \in DOMAIN new : new[k] \in fan
  BY InsertedIs
<1>2. /\ lastId \in Nat /\ IdBound \in Nat /\ DOMAIN rows \subseteq 1..lastId
      /\ rows \in [DOMAIN rows -> People]
  BY IdBoundIsNat, RowSet DEF CacheTyped
<1>3. kept \subseteq DOMAIN rows
  BY DEF Cache!Kept
<1>4. rows' = [i \in kept \cup fresh |-> IF i > lastId THEN new[i - lastId] ELSE rows[i]]
  BY DEF Cache!Materialised
<1> HIDE DEF new, kept
<1>5. lastId' \in 0..IdBound /\ lastId <= lastId'
  BY <1>1, <1>2 DEF new
<1>6. ASSUME NEW i \in DOMAIN rows'
      PROVE  /\ i \in 1..lastId' /\ rows'[i] \in People
             /\ i <= lastId => i \in DOMAIN rows /\ rows'[i] = rows[i]
  <2>1. CASE i \in kept
    BY <1>2, <1>3, <1>4, <1>5, <2>1
  <2>2. ASSUME NEW k \in DOMAIN new, i = lastId + k
        PROVE  /\ i \in 1..lastId' /\ i > lastId /\ rows'[i] \in People
    <3>1. k \in Nat /\ 1 <= k /\ k <= Len(new) /\ i > lastId /\ i - lastId = k
      BY <1>1, <1>2, <2>2
    <3>2. rows'[i] = new[k]
      BY <1>4, <1>6, <3>1
    <3>3. i \in 1..lastId'
      BY <1>1, <1>2, <2>2, <3>1 DEF new
    <3> QED
      BY <1>1, <3>1, <3>2, <3>3
  <2>3. i \in kept \/ i \in fresh
    BY <1>4, <1>6
  <2>4. i > lastId => ~(i <= lastId)
    <3>1. i \in Int
      <4>1. CASE i \in kept
        BY <1>2, <1>3, <4>1
      <4>2. CASE i \in fresh
        BY <1>1, <1>2, <4>2
      <4> QED
        BY <2>3, <4>1, <4>2
    <3> QED
      BY <1>2, <3>1
  <2> QED
    BY <2>1, <2>2, <2>3, <2>4
<1>7. DOMAIN rows' \subseteq 1..lastId' /\ DOMAIN rows' \in SUBSET (1..IdBound)
  <2>1. 1..lastId' \subseteq 1..IdBound
    BY <1>2, <1>5
  <2> QED
    BY <1>6, <2>1
<1>8. rows' \in [DOMAIN rows' -> People]
  BY <1>4, <1>6
<1> QED
  BY <1>5, <1>6, <1>7, <1>8, RowSet DEF RowsMoveOn

LEMMA GenerateKeeps ==
  ASSUME CacheInv, Cache!CommitGenerate
  PROVE  CacheInv'
<1> DEFINE fan == Cache!Fan(rule, roster)
           written == Cache!Materialised(fan)
           fresh == Cache!Stored(Cache!Stamp(rule, roster, Cache!Summary(written)),
                                 Cache!Verdict(fan, written))
<1>1. /\ lastId' = lastId + Len(Cache!Inserted(fan)) /\ lastId' <= IdBound
      /\ rows' = written /\ computed' = computed \cup {fresh}
      /\ UNCHANGED <<rule, roster, load>>
  BY DEF Cache!CommitGenerate
<1>2. fan \in SUBSET People
  BY DEF CacheInv, CacheTyped, Cache!Fan
<1> HIDE DEF fan
<1>3. RowsMoveOn
  BY <1>1, <1>2, RunMovesOn DEF CacheInv
<1>4. PICK R \in RowSets : R = rows' /\ Earlier(R)'
  <2>1. \E n \in 0..lastId' : DOMAIN rows' \subseteq 1..n
    BY <1>3 DEF RowsMoveOn
  <2>2. \A R : R = rows' => Earlier(R)'
    BY <2>1 DEF Earlier
  <2>3. rows' \in RowSets
    BY <1>3 DEF RowsMoveOn
  <2> QED
    BY <2>2, <2>3
<1>5. \A v : v = fresh => FromOneView(v)'
  <2>1. /\ fresh.stamp.rows = Cache!Summary(R)
        /\ fresh = Cache!Stored(fresh.stamp,
                      Cache!Verdict(Cache!Fan(fresh.stamp.rule, fresh.stamp.roster), R))
    BY <1>1, <1>4 DEF Cache!Stored, Cache!Stamp, fan
  <2> HIDE DEF fresh
  <2> QED
    BY <1>4, <2>1 DEF FromOneView
<1>6. \A v \in computed' \ computed : FromOneView(v)'
  <2> HIDE DEF fresh
  <2> QED
    BY <1>1, <1>5
<1> QED
  BY <1>1, <1>3, <1>5, <1>6, MovingOnKeeps DEF CacheInv, CacheTyped

LEMMA DeletePersonKeeps ==
  ASSUME CacheInv, NEW x, Cache!DeletePerson(x)
  PROVE  CacheInv'
<1>1. /\ roster' \subseteq roster /\ UNCHANGED <<lastId, load, computed>>
      /\ rows' = [i \in {j \in DOMAIN rows : rows[j] # x} |-> rows[i]]
  BY DEF Cache!DeletePerson, Cache!Edit, Cache!Restrict
<1>2. RowsMoveOn
  <2>1. rows \in RowSets /\ DOMAIN rows \subseteq 1..lastId /\ lastId \in 0..IdBound
    BY DEF CacheInv, CacheTyped
  <2>2. DOMAIN rows \in SUBSET (1..IdBound) /\ rows \in [DOMAIN rows -> People]
    BY <2>1, RowSet
  <2>3. DOMAIN rows' \in SUBSET (1..IdBound) /\ rows' \in [DOMAIN rows' -> People]
    BY <1>1, <2>2
  <2>4. lastId <= lastId'
    BY <1>1, <2>1
  <2> QED
    BY <1>1, <2>1, <2>3, <2>4, RowSet DEF RowsMoveOn
<1> QED
  BY <1>1, <1>2, MovingOnKeeps DEF CacheInv, CacheTyped

LEMMA ReadSummaryKeeps ==
  ASSUME CacheInv, NEW p \in Loads, Cache!ReadSummary(p)
  PROVE  CacheInv'
<1> DEFINE stamp == Cache!Stamp(load[p].rule, load[p].roster, Cache!Summary(rows))
           hit == load[p].loaded.stamp = stamp
           then == IF hit THEN Cache!Idle
                   ELSE [at |-> "missed", loaded |-> load[p].loaded, stamp |-> stamp, seen |-> rows]
<1>1. Cache!Steps(p, "roster", then) /\ UNCHANGED computed
  BY DEF Cache!ReadSummary
<1>2. then.at = "missed" => then.seen = rows /\ then.stamp.rows = Cache!Summary(rows)
  BY DEF Cache!Idle, Cache!Stamp
<1> HIDE DEF then
<1>3. /\ load' = [q \in Loads |-> load'[q]] /\ load'[p] = then
      /\ \A q \in Loads : load'[q] # load[q] => q = p
      /\ UNCHANGED <<rows, lastId, roster>>
  BY <1>1, LoadSteps DEF CacheInv
<1>4. rows \in RowSets /\ Earlier(rows)
  BY RowsAreEarlier DEF CacheInv, CacheTyped
<1> QED
  BY <1>1, <1>2, <1>3, <1>4, QuietKeeps

LEMMA DiffKeeps ==
  ASSUME CacheInv, NEW p \in Loads, Cache!Diff(p)
  PROVE  CacheInv'
<1> DEFINE stamp == load[p].stamp
           view == load[p].seen
           counted == stamp.rule = Cache!FullMatrix /\ stamp.rows.count = 0
           read == IF counted THEN << >> ELSE rows
           fresh == Cache!Stored(stamp, Cache!Verdict(Cache!Fan(stamp.rule, stamp.roster), read))
           then == [at |-> "computed", loaded |-> load[p].loaded, fresh |-> fresh]
<1>1. /\ Cache!Steps(p, "missed", then)
      /\ computed' = IF counted \/ read = view THEN computed \cup {fresh} ELSE computed
  BY DEF Cache!Diff
<1>2. /\ load' = [q \in Loads |-> load'[q]] /\ load'[p] = then /\ load[p].at = "missed"
      /\ \A q \in Loads : load'[q] # load[q] => q = p
      /\ UNCHANGED <<rows, lastId, roster>>
  <2> HIDE DEF then
  <2> QED
    BY <1>1, LoadSteps DEF CacheInv
<1>3. view \in RowSets /\ Earlier(view) /\ stamp.rows = Cache!Summary(view)
  BY <1>2 DEF CacheInv
<1>4. ASSUME counted \/ read = view PROVE FromOneView(fresh)
  <2>1. read = view
    <3> SUFFICES ASSUME counted PROVE << >> = view
      BY <1>4
    <3>1. Cardinality(DOMAIN view) = 0
      BY <1>3, CacheLibrary DEF Cache!Summary
    <3>2. DOMAIN view = {} /\ view \in [DOMAIN view -> People]
      BY <1>3, <3>1, IdsAreFinite, RowSet
    <3> QED
      BY <3>2
  <2>2. /\ fresh.stamp = stamp
        /\ fresh = Cache!Stored(stamp, Cache!Verdict(Cache!Fan(stamp.rule, stamp.roster), view))
    BY <2>1 DEF Cache!Stored
  <2> HIDE DEF fresh, stamp, view
  <2> QED
    BY <1>3, <2>2 DEF FromOneView
<1>5. then.at # "missed"
  OBVIOUS
<1>6. \A v \in computed' \ computed : FromOneView(v)
  <2> HIDE DEF fresh, counted, read
  <2> QED
    BY <1>1, <1>4
<1> HIDE DEF then, fresh
<1> QED
  BY <1>2, <1>5, <1>6, QuietKeeps

LEMMA CacheStepHolds ==
  ASSUME CacheInv, [Cache!Next]_cacheVars
  PROVE  CacheInv'
<1>1. ASSUME NEW p \in Loads, NEW at, NEW then, Cache!Steps(p, at, then), then.at # "missed",
             UNCHANGED computed
      PROVE  CacheInv'
  <2>1. /\ load' = [q \in Loads |-> load'[q]] /\ load'[p] = then
        /\ \A q \in Loads : load'[q] # load[q] => q = p
        /\ UNCHANGED <<rows, lastId, roster>>
    BY <1>1, LoadSteps DEF CacheInv
  <2> QED
    BY <1>1, <2>1, QuietKeeps
<1>2. ASSUME NEW p \in Loads,
             \/ Cache!ReadInstrument(p) \/ Cache!ReadRoster(p)
             \/ Cache!CommitWarm(p) \/ Cache!AbandonLoad(p)
      PROVE  CacheInv'
  BY <1>1, <1>2
     DEF Cache!ReadInstrument, Cache!ReadRoster, Cache!CommitWarm, Cache!AbandonLoad, Cache!Idle
<1>3. ASSUME UNCHANGED <<roster, rows, lastId, load, computed>> PROVE CacheInv'
  BY <1>3, QuietKeeps DEF CacheInv, CacheTyped
<1>4. ASSUME NEW r, Cache!PinRule(r) PROVE CacheInv'
  BY <1>3, <1>4 DEF Cache!PinRule, Cache!Edit
<1>5. CASE Cache!BeginGenerate
  BY <1>3, <1>5 DEF Cache!BeginGenerate
<1>6. CASE UNCHANGED cacheVars
  BY <1>3, <1>6 DEF cacheVars
<1> QED
  BY <1>2, <1>4, <1>5, <1>6, GenerateKeeps, DeletePersonKeeps, ReadSummaryKeeps,
     DiffKeeps DEF Cache!Next

(* The sum's steps, as steps of the cache or none.                         *)
LEMMA CacheInTheSum ==
  ASSUME which = "cache", [NextRules \/ NextCopies \/ NextCache]_allVars
  PROVE  which' = "cache" /\ [Cache!Next]_cacheVars
<1>1. CASE NextRules
  BY <1>1 DEF NextRules, InRules
<1>2. CASE NextCopies
  BY <1>2 DEF NextCopies, InCopies
<1>3. CASE NextCache
  BY <1>3 DEF NextCache, InCache, Cache!Next
<1> QED
  BY <1>1, <1>2, <1>3 DEF allVars

(* reconcile_stamp and MaterializedRows: for any number of page loads,     *)
(* rules, people and runs of Generate, at any points of one another, a     *)
(* verdict computed from one view of the rows is the present's verdict     *)
(* whenever its stamp is the present's stamp.                              *)
THEOREM VerdictsUnderTheStampAreRight == SpecSetup => []ComputedVerdictsAreRight
<1> DEFINE Inv == which = "cache" => CacheInv
<1>1. InitSetup => Inv
  BY CacheInitHolds DEF InitSetup
<1>2. Inv /\ [NextRules \/ NextCopies \/ NextCache]_allVars => Inv'
  <2> SUFFICES ASSUME Inv, [NextRules \/ NextCopies \/ NextCache]_allVars, which' = "cache"
               PROVE  CacheInv'
    OBVIOUS
  <2>1. which = "cache"
    BY DEF NextRules, InRules, NextCopies, InCopies, NextCache, InCache, allVars
  <2> QED
    BY <2>1, CacheInTheSum, CacheStepHolds
<1>3. Inv => ComputedVerdictsAreRight
  BY InvGivesVerdicts DEF ComputedVerdictsAreRight
<1> QED
  BY <1>1, <1>2, <1>3, PTL DEF SpecSetup
=============================================================================
