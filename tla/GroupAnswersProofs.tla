-------------------------- MODULE GroupAnswersProofs --------------------------
(***************************************************************************)
(* Proofs about GroupAnswers, for any rosters, tags, rules and values and  *)
(* any sequence of edits, runs and saves: the copies of a group's answers  *)
(* agree, an answer is about its group, the self-review flags follow every *)
(* edit, and Prepare loses what the confirmation counted.                  *)
(***************************************************************************)
EXTENDS GroupAnswers, TLAPS

-----------------------------------------------------------------------------
(* Groups are the classes of the pairs one reviewer has under one key.     *)
SameGroup(s, p, q) ==
    IF s.kind.grouped THEN p[1] = q[1] /\ GroupKey(s, p) = GroupKey(s, q) ELSE p = q

LEMMA GroupsAreClasses ==
  ASSUME NEW s
  PROVE  /\ \A p : SameGroup(s, p, p)
         /\ \A p, q : SameGroup(s, p, q) => SameGroup(s, q, p)
         /\ \A p, q, o : SameGroup(s, p, q) /\ SameGroup(s, q, o) => SameGroup(s, p, o)
BY DEF SameGroup

LEMMA GroupMembers ==
  ASSUME NEW s, NEW dom, NEW p \in dom
  PROVE  /\ GroupOf(s, dom, p) \subseteq dom /\ p \in GroupOf(s, dom, p)
         /\ \A q \in dom : q \in GroupOf(s, dom, p) <=> SameGroup(s, p, q)
BY DEF GroupOf, SameGroup

-----------------------------------------------------------------------------
(***************************************************************************)
(* The two properties, of any setup and rows.                              *)
(***************************************************************************)
Agree(s, rs) ==
    \A p, q \in DOMAIN rs : SameGroup(s, p, q) => rs[p].cell = rs[q].cell
Described(s, rs) ==
    \A p, q \in DOMAIN rs :
        SameGroup(s, p, q) /\ rs[p].cell # Empty => q[2] \in rs[p].about

LEMMA AgreeIsCopiesAgree == CopiesAgree <=> Agree(setup, rows)
<1>1. \A p \in DOMAIN rows : \A q \in GroupOf(setup, DOMAIN rows, p) :
        q \in DOMAIN rows /\ SameGroup(setup, p, q)
  BY GroupMembers
<1>2. \A p, q \in DOMAIN rows : SameGroup(setup, p, q) => q \in GroupOf(setup, DOMAIN rows, p)
  BY GroupMembers
<1> QED
  BY <1>1, <1>2 DEF CopiesAgree, Agree

LEMMA DescribedIsAnswersDescribe == AnswersDescribeTheirGroup <=> Described(setup, rows)
<1>1. \A p \in DOMAIN rows : \A q \in GroupOf(setup, DOMAIN rows, p) :
        q \in DOMAIN rows /\ SameGroup(setup, p, q)
  BY GroupMembers
<1>2. \A p, q \in DOMAIN rows : SameGroup(setup, p, q) => q \in GroupOf(setup, DOMAIN rows, p)
  BY GroupMembers
<1> QED
  BY <1>1, <1>2 DEF AnswersDescribeTheirGroup, Described

(* Rows that go, and groups that split, take nothing from the others.      *)
LEMMA SplitKeeps ==
  ASSUME NEW s, NEW rs, Agree(s, rs), Described(s, rs), NEW t, NEW new,
         \A p \in DOMAIN new : /\ p \in DOMAIN rs
                               /\ new[p].cell = rs[p].cell /\ new[p].about = rs[p].about,
         \A p, q \in DOMAIN new : SameGroup(t, p, q) => SameGroup(s, p, q)
  PROVE  Agree(t, new) /\ Described(t, new)
BY DEF Agree, Described

(* What clear_changed_groups does to a row.                                *)
LEMMA EmptiedIsRow ==
  ASSUME NEW row \in Rows
  PROVE  /\ [row EXCEPT !.cell = Empty, !.about = {}] \in Rows
         /\ [row EXCEPT !.cell = Empty, !.about = {}].cell = Empty
         /\ [row EXCEPT !.cell = Empty, !.about = {}].isSelf = row.isSelf
BY DEF Rows, Empty, Cells

LEMMA ClearedRows ==
  ASSUME NEW before, NEW s, NEW rs, rs \in [DOMAIN rs -> Rows],
         NEW new, new = ClearChanged(before, s, rs)
  PROVE  /\ new \in [DOMAIN rs -> Rows]
         /\ \A p \in DOMAIN rs :
              /\ new[p].isSelf = rs[p].isSelf
              /\ Keeps(GroupOf(s, DOMAIN rs, p), before) => new[p] = rs[p]
              /\ ~Keeps(GroupOf(s, DOMAIN rs, p), before) => new[p].cell = Empty
<1>1. new = [p \in DOMAIN rs |->
               IF Keeps(GroupOf(s, DOMAIN rs, p), before) THEN rs[p]
               ELSE [rs[p] EXCEPT !.cell = Empty, !.about = {}]]
  BY DEF ClearChanged
<1> DEFINE emptied(row) == [row EXCEPT !.cell = Empty, !.about = {}]
<1>2. \A row \in Rows : /\ emptied(row) \in Rows /\ emptied(row).cell = Empty
                        /\ emptied(row).isSelf = row.isSelf
  BY EmptiedIsRow
<1>3. new = [p \in DOMAIN rs |->
               IF Keeps(GroupOf(s, DOMAIN rs, p), before) THEN rs[p] ELSE emptied(rs[p])]
  BY <1>1
<1> HIDE DEF emptied
<1> QED
  BY <1>2, <1>3

(* A group keeps its answers only when it is part of one group that was    *)
(* there: all its members had the answers, and were in what they are about.*)
LEMMA ClearKeeps ==
  ASSUME NEW s, NEW rs, Agree(s, rs), Described(s, rs), NEW t,
         NEW mid, mid \in [DOMAIN mid -> Rows],
         \A p \in DOMAIN mid \cap DOMAIN rs :
           mid[p].cell = rs[p].cell /\ mid[p].about = rs[p].about,
         NEW new, new = ClearChanged(Partition(s, rs), t, mid)
  PROVE  Agree(t, new) /\ Described(t, new)
<1> DEFINE kept(p) == Keeps(GroupOf(t, DOMAIN mid, p), Partition(s, rs))
<1>1. /\ DOMAIN new = DOMAIN mid
      /\ \A p \in DOMAIN mid : /\ kept(p) => new[p] = mid[p]
                               /\ ~kept(p) => new[p].cell = Empty
  BY ClearedRows
<1>2. ASSUME NEW p \in DOMAIN mid, NEW q \in DOMAIN mid, SameGroup(t, p, q)
      PROVE  GroupOf(t, DOMAIN mid, p) = GroupOf(t, DOMAIN mid, q)
  <2>1. \A o \in DOMAIN mid : SameGroup(t, p, o) <=> SameGroup(t, q, o)
    BY <1>2, GroupsAreClasses
  <2> QED
    BY <2>1, GroupMembers
<1>3. ASSUME NEW p \in DOMAIN mid, NEW q \in DOMAIN mid, SameGroup(t, p, q), kept(p)
      PROVE  p \in DOMAIN rs /\ q \in DOMAIN rs /\ SameGroup(s, p, q)
  <2>1. PICK x \in DOMAIN rs : GroupOf(t, DOMAIN mid, p) \subseteq GroupOf(s, DOMAIN rs, x)
    BY <1>3 DEF Keeps, Partition
  <2>2. p \in GroupOf(s, DOMAIN rs, x) /\ q \in GroupOf(s, DOMAIN rs, x)
    BY <1>3, <2>1, GroupMembers
  <2>3. /\ p \in DOMAIN rs /\ q \in DOMAIN rs
        /\ SameGroup(s, x, p) /\ SameGroup(s, x, q)
    BY <2>2, GroupMembers
  <2> QED
    BY <2>3, GroupsAreClasses
<1>4. ASSUME NEW p \in DOMAIN new, NEW q \in DOMAIN new, SameGroup(t, p, q)
      PROVE  /\ new[p].cell = new[q].cell
             /\ new[p].cell # Empty => q[2] \in new[p].about
  <2>0. p \in DOMAIN mid /\ q \in DOMAIN mid
    BY <1>1
  <2>1. kept(p) <=> kept(q)
    BY <1>2, <1>4, <2>0
  <2>2. CASE ~kept(p)
    BY <1>1, <2>0, <2>1, <2>2
  <2>3. CASE kept(p)
    <3>1. p \in DOMAIN rs /\ q \in DOMAIN rs /\ SameGroup(s, p, q)
      BY <1>3, <1>4, <2>0, <2>3
    <3>2. new[p] = mid[p] /\ new[q] = mid[q]
      BY <1>1, <2>0, <2>1, <2>3
    <3> QED
      BY <2>0, <3>1, <3>2 DEF Agree, Described
  <2> QED
    BY <2>2, <2>3
<1> HIDE DEF kept
<1> QED
  BY <1>4 DEF Agree, Described

-----------------------------------------------------------------------------
(* recompute_self_review_classification: the flags and what they imply, no *)
(* answer touched.                                                         *)
LEMMA FlaggedIsRow ==
  ASSUME NEW row \in Rows, NEW self \in BOOLEAN, NEW inc \in BOOLEAN
  PROVE  /\ [row EXCEPT !.isSelf = self, !.include = inc] \in Rows
         /\ [row EXCEPT !.isSelf = self, !.include = inc].isSelf = self
         /\ [row EXCEPT !.isSelf = self, !.include = inc].cell = row.cell
         /\ [row EXCEPT !.isSelf = self, !.include = inc].about = row.about
BY DEF Rows

LEMMA ClassifyIsBoolean ==
  ASSUME NEW s, NEW p
  PROVE  Classify(s, p) \in BOOLEAN
<1> DEFINE grouped == \E own \in s.roster \cap Reviewees :
                        /\ <<p[1], own>> \in s.same
                        /\ ~IsCatchAll(s, <<p[1], own>>)
                        /\ GroupKey(s, <<p[1], own>>) = GroupKey(s, p)
           single == p \in s.same
<1>1. grouped = TRUE \/ grouped = FALSE
  BY SMT
<1>2. single = TRUE \/ single = FALSE
  BY SMT
<1>3. Classify(s, p) = IF s.kind.grouped THEN grouped ELSE single
  BY DEF Classify
<1> HIDE DEF grouped, single
<1> QED
  BY <1>1, <1>2, <1>3

LEMMA RecomputedRows ==
  ASSUME NEW s, NEW rs, rs \in [DOMAIN rs -> Rows], NEW new, new = Recompute(s, rs)
  PROVE  /\ new \in [DOMAIN rs -> Rows]
         /\ \A p \in DOMAIN rs : /\ new[p].cell = rs[p].cell /\ new[p].about = rs[p].about
                                 /\ new[p].isSelf = Classify(s, p)
<1> DEFINE self(p) == Classify(s, p)
           inc(p) == IF self(p) THEN rs[p].include /\ s.selfReviewsActive
                     ELSE rs[p].include \/ IsActive(s, p)
           flagged(row, b, c) == [row EXCEPT !.isSelf = b, !.include = c]
<1>1. \A p : self(p) \in BOOLEAN /\ inc(p) \in BOOLEAN
  <2>1. \A p : self(p) \in BOOLEAN
    BY ClassifyIsBoolean
  <2>2. \A p : inc(p) \in BOOLEAN
    BY Zenon
  <2> QED
    BY <2>1, <2>2
<1>2. new = [p \in DOMAIN rs |-> IF rs[p].isSelf = self(p) THEN rs[p]
                                 ELSE flagged(rs[p], self(p), inc(p))]
  BY DEF Recompute
<1>3. \A row \in Rows, b, c \in BOOLEAN :
        /\ flagged(row, b, c) \in Rows /\ flagged(row, b, c).isSelf = b
        /\ flagged(row, b, c).cell = row.cell /\ flagged(row, b, c).about = row.about
  BY FlaggedIsRow
<1> HIDE DEF self, inc, flagged
<1>4. \A p \in DOMAIN rs : /\ new[p] \in Rows /\ new[p].cell = rs[p].cell
                           /\ new[p].about = rs[p].about /\ new[p].isSelf = self(p)
  BY <1>1, <1>2, <1>3
<1> QED
  BY <1>2, <1>4 DEF self

-----------------------------------------------------------------------------
(***************************************************************************)
(* The inductive invariant: the types and the two properties.              *)
(***************************************************************************)
GroupsInv == TypeOK /\ Agree(setup, rows) /\ Described(setup, rows)

(* Flagged(s, rs): the flags are those the setup gives.                    *)
Flagged(s, rs) == \A p \in DOMAIN rs : rs[p].isSelf = Classify(s, p)

LEMMA InitHolds ==
  ASSUME ConstantsAssumption, Init
  PROVE  GroupsInv
<1>1. setup \in Setups /\ 0 \in 0..MaxEdits
  BY DEF Init, ConstantsAssumption
<1>2. DOMAIN rows = {}
  BY DEF Init
<1> QED
  BY <1>1, <1>2 DEF GroupsInv, TypeOK, Init, Agree, Described

LEMMA SpendKeepsCount ==
  ASSUME TypeOK, ConstantsAssumption, Spend
  PROVE  edits' \in 0..MaxEdits
BY DEF TypeOK, ConstantsAssumption, Spend

(* An edit that clears what gained a member, or that redraws no group.     *)
LEMMA RedrawKeeps ==
  ASSUME ConstantsAssumption, GroupsInv, NEW new \in Setups, NEW redraws \in BOOLEAN,
         Redraw(new, redraws), DOMAIN rows \subseteq OnRoster(new),
         ~redraws => \A p, q \in DOMAIN rows : SameGroup(new, p, q) => SameGroup(setup, p, q)
  PROVE  GroupsInv' /\ Flagged(setup', rows')
<1> DEFINE mid == IF redraws THEN ClearChanged(Partition(setup, rows), new, rows) ELSE rows
<1>1. /\ setup' = new /\ stage' = "draft" /\ edits' \in 0..MaxEdits
      /\ rows' = Recompute(new, mid)
  BY SpendKeepsCount DEF Redraw, GroupsInv
<1>2. /\ rows \in [DOMAIN rows -> Rows] /\ Agree(setup, rows) /\ Described(setup, rows)
  BY DEF GroupsInv, TypeOK
<1>3. /\ DOMAIN mid = DOMAIN rows /\ mid \in [DOMAIN mid -> Rows]
      /\ Agree(new, mid) /\ Described(new, mid)
  <2>1. CASE redraws
    <3>1. mid = ClearChanged(Partition(setup, rows), new, rows)
      BY <2>1
    <3> HIDE DEF mid
    <3>2. mid \in [DOMAIN rows -> Rows]
      BY <1>2, <3>1, ClearedRows
    <3>3. Agree(new, mid) /\ Described(new, mid)
      BY <1>2, <3>1, ClearKeeps
    <3> QED
      BY <3>2, <3>3
  <2>2. CASE ~redraws
    <3>1. mid = rows
      BY <2>2
    <3>2. Agree(new, rows) /\ Described(new, rows)
      BY <1>2, <2>2, SplitKeeps
    <3> QED
      BY <1>2, <3>1, <3>2
  <2> QED
    BY <2>1, <2>2
<1> HIDE DEF mid
<1>4. /\ rows' \in [DOMAIN mid -> Rows] /\ Flagged(new, rows')
      /\ \A p \in DOMAIN mid : rows'[p].cell = mid[p].cell /\ rows'[p].about = mid[p].about
  BY <1>1, <1>3, RecomputedRows DEF Flagged
<1>5. Agree(new, rows') /\ Described(new, rows')
  BY <1>3, <1>4, SplitKeeps
<1>6. TypeOK'
  BY <1>1, <1>3, <1>4 DEF TypeOK
<1> QED
  BY <1>1, <1>4, <1>5, <1>6 DEF GroupsInv

-----------------------------------------------------------------------------
(* What an edit writes is a setup.                                         *)
Sources == {"reviewee", "pair_context"}

LEMMA SetupTypes ==
  ASSUME NEW s \in Setups
  PROVE  /\ s.roster \in SUBSET (Reviewers \cup Reviewees)
         /\ s.active \in SUBSET (Reviewers \cup Reviewees)
         /\ s.tag \in [Reviewees -> Tags \cup {Blank}] /\ s.tie \in [Pairs -> Ties]
         /\ s.same \in SUBSET Pairs /\ s.same \in Matchings(s)
         /\ s.kind \in Kinds /\ s.rule \in Rules /\ s.selfReviewsActive \in BOOLEAN
BY DEF Setups

LEMMA KindTypes ==
  ASSUME NEW k \in Kinds
  PROVE  /\ k.grouped \in BOOLEAN /\ k.by \in SUBSET Sources /\ (~k.grouped => k.by = {})
         /\ k = [grouped |-> k.grouped, by |-> k.by]
BY DEF Kinds, Sources

(* A setup is made of its parts.                                           *)
Made(roster, active, tag, tie, same, kind, rule, selfReviewsActive) ==
    [roster |-> roster, active |-> active, tag |-> tag, tie |-> tie, same |-> same,
     kind |-> kind, rule |-> rule, selfReviewsActive |-> selfReviewsActive]

LEMMA MadeIsSetup ==
  ASSUME NEW roster \in SUBSET (Reviewers \cup Reviewees),
         NEW active \in SUBSET (Reviewers \cup Reviewees),
         NEW tag \in [Reviewees -> Tags \cup {Blank}], NEW tie \in [Pairs -> Ties],
         NEW same, NEW kind \in Kinds, NEW rule \in Rules, NEW b \in BOOLEAN,
         NEW s, s = Made(roster, active, tag, tie, same, kind, rule, b),
         same \in Matchings(s)
  PROVE  /\ s \in Setups
         /\ s.roster = roster /\ s.active = active /\ s.tag = tag /\ s.tie = tie
         /\ s.same = same /\ s.kind = kind /\ s.rule = rule /\ s.selfReviewsActive = b
<1>1. same \in SUBSET Pairs
  BY DEF Matchings, OnRoster
<1> QED
  BY <1>1 DEF Made, Setups

LEMMA SetupIsMade ==
  ASSUME NEW s \in Setups
  PROVE  s = Made(s.roster, s.active, s.tag, s.tie, s.same, s.kind, s.rule, s.selfReviewsActive)
BY DEF Setups, Made

(* The matching of a setup depends on its roster alone.                    *)
LEMMA MatchingsOfRoster ==
  ASSUME NEW s, NEW t, t.roster = s.roster
  PROVE  OnRoster(t) = OnRoster(s) /\ Matchings(t) = Matchings(s)
BY DEF OnRoster, Matchings

(* Where the boundary's sources are as they were, so are the groups.       *)
LEMMA UntouchedGroups ==
  ASSUME NEW s \in Setups, NEW t \in Setups, t.kind = s.kind, NEW dom,
         \A p \in dom : /\ "reviewee" \in s.kind.by => t.tag[p[2]] = s.tag[p[2]]
                        /\ "pair_context" \in s.kind.by => t.tie[p] = s.tie[p]
  PROVE  /\ \A p \in dom : GroupKey(t, p) = GroupKey(s, p)
         /\ \A p, q \in dom : SameGroup(t, p, q) => SameGroup(s, p, q)
<1>1. s.kind.by \in SUBSET Sources
  BY SetupTypes, KindTypes
<1>2. \A p \in dom : GroupKey(t, p) = GroupKey(s, p)
  BY <1>1 DEF GroupKey, Sources
<1> QED
  BY <1>2 DEF SameGroup

LEMMA RowsOnRoster ==
  ASSUME GroupsInv
  PROVE  /\ setup \in Setups
         /\ \A p \in DOMAIN rows : /\ p \in Pairs /\ p[1] \in Reviewers /\ p[2] \in Reviewees
                                   /\ p[1] \in setup.roster /\ p[2] \in setup.roster
BY DEF GroupsInv, TypeOK, OnRoster, Pairs

LEMMA GrownRoster ==
  ASSUME GroupsInv, NEW new, setup.roster \subseteq new.roster
  PROVE  DOMAIN rows \subseteq OnRoster(new)
BY RowsOnRoster DEF OnRoster

-----------------------------------------------------------------------------
(* The edits that redraw.                                                  *)
Retagged(tag, es, t) == [e \in Reviewees |-> IF e \in es THEN t ELSE tag[e]]

LEMMA FiledIsMade ==
  ASSUME NEW roster, NEW active, NEW tag, NEW tie, NEW same, NEW kind, NEW rule, NEW b,
         NEW es, NEW t
  PROVE  Filed(Made(roster, active, tag, tie, same, kind, rule, b), es, t)
           = Made(roster \cup es, active \cup (es \ roster), Retagged(tag, es, t),
                  tie, same, kind, rule, b)
<1> DEFINE s == Made(roster, active, tag, tie, same, kind, rule, b)
           retagged == Retagged(s.tag, es, t)
<1>1. Filed(s, es, t) = [s EXCEPT !.roster = @ \cup es, !.active = @ \cup (es \ s.roster),
                                  !.tag = retagged]
  BY DEF Filed, Retagged
<1>2. s.tag = tag
  BY DEF Made
<1> HIDE DEF retagged
<1>3. Filed(s, es, t) = Made(roster \cup es, active \cup (es \ roster), retagged,
                             tie, same, kind, rule, b)
  BY <1>1 DEF Made
<1> QED
  BY <1>2, <1>3 DEF retagged

LEMMA MatchedIsMade ==
  ASSUME NEW roster, NEW active, NEW tag, NEW tie, NEW same, NEW kind, NEW rule, NEW b, NEW m
  PROVE  Matched(Made(roster, active, tag, tie, same, kind, rule, b), m)
           = Made(roster, active, tag, tie, m, kind, rule, b)
BY DEF Matched, Made

Refiled(s, es, t, m) ==
    Made(s.roster \cup es, s.active \cup (es \ s.roster), Retagged(s.tag, es, t), s.tie, m,
         s.kind, s.rule, s.selfReviewsActive)

LEMMA FiledParts ==
  ASSUME NEW s \in Setups, NEW es, NEW t, NEW m
  PROVE  /\ Matched(Filed(s, es, t), m) = Refiled(s, es, t, m)
         /\ Filed(s, es, t).roster = Refiled(s, es, t, m).roster
<1>1. Filed(s, es, t) = Made(s.roster \cup es, s.active \cup (es \ s.roster),
                             Retagged(s.tag, es, t), s.tie, s.same, s.kind, s.rule,
                             s.selfReviewsActive)
  BY SetupIsMade, FiledIsMade
<1>2. Matched(Filed(s, es, t), m) = Refiled(s, es, t, m)
  BY <1>1, MatchedIsMade DEF Refiled
<1> QED
  BY <1>1, <1>2 DEF Refiled, Made

LEMMA RefiledParts ==
  ASSUME NEW s, NEW es, NEW t, NEW m
  PROVE  /\ Refiled(s, es, t, m).same = m
         /\ Refiled(s, es, t, m).roster = s.roster \cup es
BY DEF Refiled, Made

LEMMA FiledIsSetup ==
  ASSUME NEW s \in Setups, NEW es \in SUBSET Reviewees, NEW t \in Tags \cup {Blank},
         NEW m, NEW new, new = Matched(Filed(s, es, t), m), m \in Matchings(new)
  PROVE  new \in Setups
<1> DEFINE roster == s.roster \cup es
           active == s.active \cup (es \ s.roster)
           tag == Retagged(s.tag, es, t)
<1>1. /\ roster \in SUBSET (Reviewers \cup Reviewees)
      /\ active \in SUBSET (Reviewers \cup Reviewees)
      /\ tag \in [Reviewees -> Tags \cup {Blank}]
      /\ s.tie \in [Pairs -> Ties] /\ s.kind \in Kinds /\ s.rule \in Rules
      /\ s.selfReviewsActive \in BOOLEAN
  BY SetupTypes DEF Retagged
<1>2. new = Made(roster, active, tag, s.tie, m, s.kind, s.rule, s.selfReviewsActive)
  BY FiledParts DEF Refiled
<1> HIDE DEF roster, active, tag
<1> QED
  BY <1>1, <1>2, MadeIsSetup

(* Rows filed at rows that had none, or with their groups redrawn.         *)
LEMMA FiledKeeps ==
  ASSUME ConstantsAssumption, GroupsInv, NEW es \in SUBSET Reviewees,
         NEW t \in Tags \cup {Blank}, NEW m, NEW redraws \in BOOLEAN,
         NEW new, new = Matched(Filed(setup, es, t), m),
         m \in Matchings(new), Redraw(new, redraws),
         ~redraws => \/ "reviewee" \notin setup.kind.by
                     \/ \A e \in es \cap setup.roster : setup.tag[e] = t
  PROVE  GroupsInv' /\ Flagged(setup', rows')
<1>1. setup \in Setups
  BY RowsOnRoster
<1>0. new \in Setups
  BY <1>1, FiledIsSetup
<1>2. /\ new \in Setups
      /\ new.roster = setup.roster \cup es
      /\ new.tag = Retagged(setup.tag, es, t)
      /\ new.tie = setup.tie /\ new.kind = setup.kind
  <2>1. new = Refiled(setup, es, t, m)
    BY <1>1, FiledParts
  <2> QED
    BY <1>0, <2>1 DEF Refiled, Made
<1>3. DOMAIN rows \subseteq OnRoster(new)
  BY <1>2, GrownRoster
<1>4. ASSUME ~redraws
      PROVE  \A p, q \in DOMAIN rows : SameGroup(new, p, q) => SameGroup(setup, p, q)
  <2>1. \A p \in DOMAIN rows : "reviewee" \in setup.kind.by => new.tag[p[2]] = setup.tag[p[2]]
    BY <1>2, <1>4, RowsOnRoster DEF Retagged
  <2> QED
    BY <1>1, <1>2, <2>1, UntouchedGroups
<1> QED
  BY <1>2, <1>3, <1>4, RedrawKeeps

LEMMA CreateRevieweeKeeps ==
  ASSUME ConstantsAssumption, GroupsInv, NEW e \in Reviewees, NEW t \in Tags \cup {Blank},
         NEW self \in SUBSET Reviewers, CreateReviewee(e, t, self)
  PROVE  GroupsInv' /\ Flagged(setup', rows')
<1> DEFINE m == setup.same \cup (self \X {e})
           new == Matched(Filed(setup, {e}, t), m)
<1>1. e \notin setup.roster /\ new.same \in Matchings(new) /\ Redraw(new, FALSE)
  BY DEF CreateReviewee
<1> HIDE DEF m
<1>2. new.same = m
  BY RowsOnRoster, FiledParts, RefiledParts
<1>3. \A x \in {e} \cap setup.roster : setup.tag[x] = t
  BY <1>1
<1> HIDE DEF new
<1> QED
  BY <1>1, <1>2, <1>3, FiledKeeps DEF new

LEMMA UpdateRevieweeKeeps ==
  ASSUME ConstantsAssumption, GroupsInv, NEW e \in Reviewees, NEW t \in Tags \cup {Blank},
         NEW m \in Matchings(setup), UpdateReviewee(e, t, m)
  PROVE  GroupsInv' /\ Flagged(setup', rows')
<1> DEFINE new == Matched(Filed(setup, {e}, t), m)
           redraws == "reviewee" \in setup.kind.by /\ t # setup.tag[e]
<1>1. e \in setup.roster /\ Redraw(new, redraws)
  BY DEF UpdateReviewee
<1> HIDE DEF new
<1>2. new.roster = setup.roster
  <2>1. new = Refiled(setup, {e}, t, m)
    BY RowsOnRoster, FiledParts DEF new
  <2> QED
    BY <1>1, <2>1 DEF Refiled, Made
<1>3. m \in Matchings(new)
  BY <1>2, MatchingsOfRoster
<1>4. redraws \in BOOLEAN
  OBVIOUS
<1>5. ~redraws => \/ "reviewee" \notin setup.kind.by
                  \/ \A x \in {e} \cap setup.roster : setup.tag[x] = t
  OBVIOUS
<1> HIDE DEF redraws
<1> QED
  BY <1>1, <1>3, <1>4, <1>5, FiledKeeps DEF new

LEMMA MergeRevieweesKeeps ==
  ASSUME ConstantsAssumption, GroupsInv, NEW es \in SUBSET Reviewees,
         NEW t \in Tags \cup {Blank}, NEW m, MergeReviewees(es, t, m)
  PROVE  GroupsInv' /\ Flagged(setup', rows')
<1> DEFINE new == Matched(Filed(setup, es, t), m)
           redraws == "reviewee" \in setup.kind.by
<1>1. m \in Matchings(Filed(setup, es, t)) /\ Redraw(new, redraws)
  BY DEF MergeReviewees
<1>2. redraws \in BOOLEAN
  OBVIOUS
<1>3. m \in Matchings(new)
  BY <1>1, RowsOnRoster, FiledParts, MatchingsOfRoster
<1> HIDE DEF new, redraws
<1> QED
  BY <1>1, <1>2, <1>3, FiledKeeps DEF new, redraws

(* An account that joins or parts a pair moves flags and no group.         *)
LEMMA RematchKeeps ==
  ASSUME ConstantsAssumption, GroupsInv, NEW m \in Matchings(setup),
         Redraw(Matched(setup, m), FALSE)
  PROVE  GroupsInv' /\ Flagged(setup', rows')
<1> DEFINE new == Matched(setup, m)
<1>1. setup \in Setups
  BY RowsOnRoster
<1>2. new = Made(setup.roster, setup.active, setup.tag, setup.tie, m, setup.kind, setup.rule,
                 setup.selfReviewsActive)
  BY <1>1, SetupIsMade, MatchedIsMade
<1>3. Redraw(new, FALSE)
  OBVIOUS
<1> HIDE DEF new
<1>4. new.roster = setup.roster
  BY <1>2 DEF Made
<1>5. /\ new \in Setups /\ new.roster = setup.roster /\ new.tag = setup.tag
      /\ new.tie = setup.tie /\ new.kind = setup.kind
  <2>1. m \in Matchings(new)
    BY <1>4, MatchingsOfRoster
  <2> QED
    BY <1>1, <1>2, <2>1, SetupTypes, MadeIsSetup
<1>6. DOMAIN rows \subseteq OnRoster(new)
  BY <1>5, GrownRoster
<1>7. \A p, q \in DOMAIN rows : SameGroup(new, p, q) => SameGroup(setup, p, q)
  BY <1>1, <1>5, UntouchedGroups
<1> QED
  BY <1>3, <1>5, <1>6, <1>7, RedrawKeeps

LEMMA RedrawTiesKeeps ==
  ASSUME ConstantsAssumption, GroupsInv, NEW tie \in [Pairs -> Ties], RedrawTies(tie)
  PROVE  GroupsInv' /\ Flagged(setup', rows')
<1> DEFINE new == [setup EXCEPT !.tie = tie]
           redraws == "pair_context" \in setup.kind.by
<1>1. setup \in Setups
  BY RowsOnRoster
<1>2. new = Made(setup.roster, setup.active, setup.tag, tie, setup.same, setup.kind, setup.rule,
                 setup.selfReviewsActive)
  BY <1>1 DEF Setups, Made
<1>3. new.roster = setup.roster
  BY <1>2 DEF Made
<1>4. Redraw(new, redraws)
  BY DEF RedrawTies
<1> HIDE DEF new
<1>5. /\ new \in Setups /\ new.roster = setup.roster /\ new.tag = setup.tag
      /\ new.tie = tie /\ new.kind = setup.kind
  <2>1. setup.same \in Matchings(new)
    BY <1>1, <1>3, MatchingsOfRoster, SetupTypes
  <2> QED
    BY <1>1, <1>2, <2>1, SetupTypes, MadeIsSetup
<1>6. DOMAIN rows \subseteq OnRoster(new)
  BY <1>5, GrownRoster
<1>7. ~redraws => \A p, q \in DOMAIN rows : SameGroup(new, p, q) => SameGroup(setup, p, q)
  BY <1>1, <1>5, UntouchedGroups
<1>8. redraws \in BOOLEAN
  OBVIOUS
<1> HIDE DEF redraws
<1> QED
  BY <1>4, <1>5, <1>6, <1>7, <1>8, RedrawKeeps

LEMMA RekindKeeps ==
  ASSUME ConstantsAssumption, GroupsInv, NEW k \in Kinds, Redraw([setup EXCEPT !.kind = k], TRUE)
  PROVE  GroupsInv' /\ Flagged(setup', rows')
<1> DEFINE new == [setup EXCEPT !.kind = k]
<1>1. setup \in Setups
  BY RowsOnRoster
<1>2. new = Made(setup.roster, setup.active, setup.tag, setup.tie, setup.same, k, setup.rule,
                 setup.selfReviewsActive)
  BY <1>1 DEF Setups, Made
<1>3. new.roster = setup.roster
  BY <1>2 DEF Made
<1>4. Redraw(new, TRUE)
  OBVIOUS
<1> HIDE DEF new
<1>5. new \in Setups
  <2>1. setup.same \in Matchings(new)
    BY <1>1, <1>3, MatchingsOfRoster, SetupTypes
  <2> QED
    BY <1>1, <1>2, <2>1, SetupTypes, MadeIsSetup
<1>6. DOMAIN rows \subseteq OnRoster(new)
  BY <1>3, GrownRoster
<1> QED
  BY <1>4, <1>5, <1>6, RedrawKeeps

LEMMA BoundaryIsKind ==
  ASSUME NEW k \in Kinds, k.grouped, NEW by \in SUBSET Sources
  PROVE  [k EXCEPT !.by = by] \in Kinds
<1>1. k = [grouped |-> TRUE, by |-> k.by]
  BY KindTypes
<1> QED
  BY <1>1 DEF Kinds, Sources

LEMMA TiesRead ==
  ASSUME GroupsInv
  PROVE  setup.tie \in [Pairs -> Ties] /\ NoTie \in Ties
BY RowsOnRoster, SetupTypes DEF Ties

LEMMA TieToggled ==
  ASSUME NEW tie \in Ties, tie # NoTie, NEW b \in BOOLEAN
  PROVE  [tie EXCEPT !.active = b] \in Ties
BY DEF Ties

(* What the relationship pages and files write are relationships.          *)
LEMMA RelationshipEditKeeps ==
  ASSUME ConstantsAssumption, GroupsInv, RelationshipEdit
  PROVE  GroupsInv' /\ Flagged(setup', rows')
<1> SUFFICES ASSUME NEW tie \in [Pairs -> Ties], RedrawTies(tie)
             PROVE  GroupsInv' /\ Flagged(setup', rows')
  <2>1. CASE \E p \in Pairs, t \in Ties \ {NoTie} : CreateRelationship(p, t)
    <3> PICK p \in Pairs, t \in Ties \ {NoTie} : CreateRelationship(p, t)
      BY <2>1
    <3>1. RedrawTies([setup.tie EXCEPT ![p] = t])
      BY DEF CreateRelationship
    <3>2. [setup.tie EXCEPT ![p] = t] \in [Pairs -> Ties]
      BY TiesRead
    <3> QED
      BY <3>1, <3>2
  <2>2. CASE \E p, q \in Pairs, t \in Ties : UpdateRelationship(p, q, t)
    <3> PICK p \in Pairs, q \in Pairs, t \in Ties : UpdateRelationship(p, q, t)
      BY <2>2
    <3>1. RedrawTies([setup.tie EXCEPT ![p] = NoTie, ![q] = t])
      BY DEF UpdateRelationship
    <3>2. [setup.tie EXCEPT ![p] = NoTie, ![q] = t] \in [Pairs -> Ties]
      BY TiesRead
    <3> QED
      BY <3>1, <3>2
  <2>3. CASE \E ps \in SUBSET Pairs, b \in BOOLEAN : BulkSetRelationshipStatus(ps, b)
    <3> PICK ps \in SUBSET Pairs, b \in BOOLEAN : BulkSetRelationshipStatus(ps, b)
      BY <2>3
    <3> DEFINE toggled(p) == [setup.tie[p] EXCEPT !.active = b]
               tie == [p \in Pairs |-> IF p \in ps THEN toggled(p) ELSE setup.tie[p]]
    <3>1. RedrawTies(tie) /\ \A p \in ps : setup.tie[p] # NoTie
      BY DEF BulkSetRelationshipStatus
    <3>2. \A p \in ps : toggled(p) \in Ties
      BY <3>1, TiesRead, TieToggled
    <3> HIDE DEF toggled
    <3>3. tie \in [Pairs -> Ties]
      BY <3>2, TiesRead
    <3> QED
      BY <3>1, <3>3
  <2>4. CASE \E ps \in SUBSET Pairs : DeleteRelationships(ps)
    <3> PICK ps \in SUBSET Pairs : DeleteRelationships(ps)
      BY <2>4
    <3> DEFINE tie == [p \in Pairs |-> IF p \in ps THEN NoTie ELSE setup.tie[p]]
    <3>1. RedrawTies(tie)
      BY DEF DeleteRelationships
    <3>2. tie \in [Pairs -> Ties]
      BY TiesRead
    <3> QED
      BY <3>1, <3>2
  <2>5. CASE DeleteAllRelationships
    <3> DEFINE tie == [p \in Pairs |-> NoTie]
    <3>1. RedrawTies(tie)
      BY <2>5 DEF DeleteAllRelationships
    <3>2. tie \in [Pairs -> Ties]
      BY TiesRead
    <3> QED
      BY <3>1, <3>2
  <2>6. CASE \E ps \in SUBSET Pairs, t \in Ties \ {NoTie} : SaveRelationships(ps, t)
    <3> PICK ps \in SUBSET Pairs, t \in Ties \ {NoTie} : SaveRelationships(ps, t)
      BY <2>6
    <3> PICK replaces \in BOOLEAN :
          RedrawTies([p \in Pairs |-> IF p \in ps THEN t
                                      ELSE IF replaces THEN NoTie ELSE setup.tie[p]])
      BY DEF SaveRelationships
    <3> DEFINE tie == [p \in Pairs |-> IF p \in ps THEN t
                                       ELSE IF replaces THEN NoTie ELSE setup.tie[p]]
    <3>1. RedrawTies(tie)
      OBVIOUS
    <3>2. tie \in [Pairs -> Ties]
      BY TiesRead
    <3> QED
      BY <3>1, <3>2
  <2> QED
    BY <2>1, <2>2, <2>3, <2>4, <2>5, <2>6 DEF RelationshipEdit
<1> QED
  BY RedrawTiesKeeps

-----------------------------------------------------------------------------
(* The edits that redraw no group.                                         *)
LEMMA KeptKeeps ==
  ASSUME ConstantsAssumption, GroupsInv, Spend, NEW t \in Setups, setup' = t,
         stage' \in {"draft", "validated", "ready"},
         rows' \in [DOMAIN rows' -> Rows],
         DOMAIN rows' \subseteq DOMAIN rows, DOMAIN rows' \subseteq OnRoster(t),
         \A p \in DOMAIN rows' : rows'[p].cell = rows[p].cell /\ rows'[p].about = rows[p].about,
         \A p, q \in DOMAIN rows' : SameGroup(t, p, q) => SameGroup(setup, p, q)
  PROVE  GroupsInv'
<1>1. Agree(setup, rows) /\ Described(setup, rows) /\ TypeOK
  BY DEF GroupsInv
<1> DEFINE new == rows'
<1>2. /\ \A p \in DOMAIN new : /\ p \in DOMAIN rows
                               /\ new[p].cell = rows[p].cell /\ new[p].about = rows[p].about
      /\ \A p, q \in DOMAIN new : SameGroup(t, p, q) => SameGroup(setup, p, q)
  OBVIOUS
<1> HIDE DEF new
<1>3. Agree(t, new) /\ Described(t, new)
  BY <1>1, <1>2, SplitKeeps
<1>4. edits' \in 0..MaxEdits
  BY <1>1, SpendKeepsCount
<1> QED
  BY <1>3, <1>4 DEF GroupsInv, TypeOK, new

(* A setup read alike draws the same groups and the same self-reviews.     *)
LEMMA ReadAlike ==
  ASSUME NEW s, NEW t, t.kind = s.kind, t.roster = s.roster, t.tag = s.tag, t.tie = s.tie,
         t.same = s.same
  PROVE  /\ OnRoster(t) = OnRoster(s)
         /\ \A p, q : SameGroup(t, p, q) = SameGroup(s, p, q)
         /\ \A p : Classify(t, p) = Classify(s, p)
<1>1. \A p : GroupKey(t, p) = GroupKey(s, p)
  BY DEF GroupKey
<1>2. \A p : IsCatchAll(t, p) = IsCatchAll(s, p)
  BY <1>1 DEF IsCatchAll
<1> QED
  BY <1>1, <1>2 DEF SameGroup, Classify, OnRoster

LEMMA KeysAlike ==
  ASSUME NEW s \in Setups, NEW t \in Setups, t.kind = s.kind, NEW p,
         t.tag[p[2]] = s.tag[p[2]], t.tie[p] = s.tie[p]
  PROVE  GroupKey(t, p) = GroupKey(s, p) /\ IsCatchAll(t, p) = IsCatchAll(s, p)
<1>1. GroupKey(t, p) = GroupKey(s, p)
  BY DEF GroupKey
<1> QED
  BY <1>1 DEF IsCatchAll

(* One reviewer's flags are read off the rows and matches of that reviewer.*)
LEMMA ClassifyAlike ==
  ASSUME NEW s \in Setups, NEW t \in Setups, t.kind = s.kind,
         t.roster \cap Reviewees = s.roster \cap Reviewees, NEW p \in Pairs, p[2] \in s.roster,
         \A e \in s.roster \cap Reviewees :
            /\ <<p[1], e>> \in t.same <=> <<p[1], e>> \in s.same
            /\ t.tag[e] = s.tag[e] /\ t.tie[<<p[1], e>>] = s.tie[<<p[1], e>>]
  PROVE  Classify(t, p) = Classify(s, p)
<1>1. p = <<p[1], p[2]>> /\ p[2] \in s.roster \cap Reviewees
  BY DEF Pairs
<1>2. \A e \in s.roster \cap Reviewees :
        /\ GroupKey(t, <<p[1], e>>) = GroupKey(s, <<p[1], e>>)
        /\ IsCatchAll(t, <<p[1], e>>) = IsCatchAll(s, <<p[1], e>>)
  <2> TAKE e \in s.roster \cap Reviewees
  <2> DEFINE mine == <<p[1], e>>
  <2>1. t.tag[mine[2]] = s.tag[mine[2]] /\ t.tie[mine] = s.tie[mine]
    OBVIOUS
  <2> HIDE DEF mine
  <2> QED
    BY <2>1, KeysAlike DEF mine
<1>3. GroupKey(t, p) = GroupKey(s, p)
  BY <1>1, <1>2
<1>4. (p \in t.same) = (p \in s.same)
  BY <1>1
<1> QED
  BY <1>2, <1>3, <1>4 DEF Classify

FlagsKept == Flagged(setup, rows) => Flagged(setup', rows')

LEMMA PlainEditKeeps ==
  ASSUME ConstantsAssumption, GroupsInv, Spend, NEW t \in Setups, setup' = t,
         t.kind = setup.kind, t.roster = setup.roster, t.tag = setup.tag, t.tie = setup.tie,
         t.same = setup.same, stage' \in {"draft", "validated", "ready"},
         rows' \in [DOMAIN rows -> Rows],
         \A p \in DOMAIN rows : /\ rows'[p].cell = rows[p].cell /\ rows'[p].about = rows[p].about
                                /\ rows'[p].isSelf = rows[p].isSelf
  PROVE  GroupsInv' /\ FlagsKept
<1>1. /\ OnRoster(t) = OnRoster(setup)
      /\ \A p, q : SameGroup(t, p, q) = SameGroup(setup, p, q)
      /\ \A p : Classify(t, p) = Classify(setup, p)
  BY ReadAlike
<1>2. DOMAIN rows' = DOMAIN rows /\ DOMAIN rows \subseteq OnRoster(setup)
  BY DEF GroupsInv, TypeOK
<1>3. GroupsInv'
  BY <1>1, <1>2, KeptKeeps
<1>4. FlagsKept
  BY <1>1, <1>2 DEF FlagsKept, Flagged
<1> QED
  BY <1>3, <1>4

(* The parts of a setup on which neither groups nor flags depend.          *)
Plain(s, active, rule, b) == Made(s.roster, active, s.tag, s.tie, s.same, s.kind, rule, b)

LEMMA PlainSetup ==
  ASSUME NEW s \in Setups, NEW active \in SUBSET (Reviewers \cup Reviewees),
         NEW rule \in Rules, NEW b \in BOOLEAN, NEW t,
         t = Plain(s, active, rule, b)
  PROVE  /\ t \in Setups /\ t.kind = s.kind /\ t.roster = s.roster /\ t.tag = s.tag
         /\ t.tie = s.tie /\ t.same = s.same
<1>1. t.roster = s.roster
  BY DEF Plain, Made
<1>2. s.same \in Matchings(t)
  BY <1>1, MatchingsOfRoster, SetupTypes
<1> QED
  BY <1>2, SetupTypes, MadeIsSetup DEF Plain

LEMMA RowsAsTheyWere ==
  ASSUME GroupsInv, UNCHANGED rows
  PROVE  /\ rows' \in [DOMAIN rows -> Rows]
         /\ \A p \in DOMAIN rows : /\ rows'[p].cell = rows[p].cell /\ rows'[p].about = rows[p].about
                                   /\ rows'[p].isSelf = rows[p].isSelf
BY DEF GroupsInv, TypeOK

LEMMA SetStatusKeeps ==
  ASSUME ConstantsAssumption, GroupsInv, NEW x \in Reviewers \cup Reviewees, SetStatus(x)
  PROVE  GroupsInv' /\ FlagsKept
<1> DEFINE active == SymDiff(setup.active, {x})
           t == Plain(setup, active, setup.rule, setup.selfReviewsActive)
<1>1. active \in SUBSET (Reviewers \cup Reviewees)
  BY RowsOnRoster, SetupTypes DEF SymDiff
<1>2. Spend /\ setup' = [setup EXCEPT !.active = active] /\ stage' = "draft" /\ UNCHANGED rows
  BY DEF SetStatus
<1> HIDE DEF active
<1>3. [setup EXCEPT !.active = active] = t
  BY RowsOnRoster, SetupIsMade DEF Plain, Made
<1> HIDE DEF t
<1>4. /\ t \in Setups /\ t.kind = setup.kind /\ t.roster = setup.roster /\ t.tag = setup.tag
      /\ t.tie = setup.tie /\ t.same = setup.same
  BY <1>1, RowsOnRoster, SetupTypes, PlainSetup DEF t
<1> QED
  BY <1>2, <1>3, <1>4, RowsAsTheyWere, PlainEditKeeps

LEMMA SetRuleKeeps ==
  ASSUME ConstantsAssumption, GroupsInv, NEW r \in Rules, SetRule(r)
  PROVE  GroupsInv' /\ FlagsKept
<1> DEFINE t == Plain(setup, setup.active, r, setup.selfReviewsActive)
<1>1. Spend /\ setup' = [setup EXCEPT !.rule = r] /\ stage' = "draft" /\ UNCHANGED rows
  BY DEF SetRule
<1>2. [setup EXCEPT !.rule = r] = t
  BY RowsOnRoster, SetupIsMade DEF Plain, Made
<1> HIDE DEF t
<1>3. /\ t \in Setups /\ t.kind = setup.kind /\ t.roster = setup.roster /\ t.tag = setup.tag
      /\ t.tie = setup.tie /\ t.same = setup.same
  BY RowsOnRoster, SetupTypes, PlainSetup DEF t
<1> QED
  BY <1>1, <1>2, <1>3, RowsAsTheyWere, PlainEditKeeps

LEMMA IncludedIsRow ==
  ASSUME NEW row \in Rows, NEW b \in BOOLEAN
  PROVE  /\ [row EXCEPT !.include = b] \in Rows
         /\ [row EXCEPT !.include = b].cell = row.cell
         /\ [row EXCEPT !.include = b].about = row.about
         /\ [row EXCEPT !.include = b].isSelf = row.isSelf
BY DEF Rows

(* Includes written on some of the rows.                                   *)
Reincluded(on, b) ==
    [p \in DOMAIN rows |-> IF p \in on THEN [rows[p] EXCEPT !.include = b] ELSE rows[p]]

LEMMA IncludesKeep ==
  ASSUME GroupsInv, NEW on, NEW b \in BOOLEAN, NEW new, new = Reincluded(on, b)
  PROVE  /\ new \in [DOMAIN rows -> Rows]
         /\ \A p \in DOMAIN rows : /\ new[p].cell = rows[p].cell /\ new[p].about = rows[p].about
                                   /\ new[p].isSelf = rows[p].isSelf
<1> DEFINE written(row) == [row EXCEPT !.include = b]
<1>1. \A row \in Rows : /\ written(row) \in Rows /\ written(row).cell = row.cell
                        /\ written(row).about = row.about /\ written(row).isSelf = row.isSelf
  BY IncludedIsRow
<1>2. new = [p \in DOMAIN rows |-> IF p \in on THEN written(rows[p]) ELSE rows[p]]
  BY DEF Reincluded
<1>3. \A p \in DOMAIN rows : rows[p] \in Rows
  BY DEF GroupsInv, TypeOK
<1> HIDE DEF written
<1> QED
  BY <1>1, <1>2, <1>3

LEMMA SelfReviewsToggleKeeps ==
  ASSUME ConstantsAssumption, GroupsInv, NEW b \in BOOLEAN, SetSelfReviewsActive(b)
  PROVE  GroupsInv' /\ FlagsKept
<1> DEFINE t == Plain(setup, setup.active, setup.rule, b)
           on == {p \in DOMAIN rows : rows[p].isSelf /\ IsActive(setup, p)}
<1>1. /\ Spend /\ setup' = [setup EXCEPT !.selfReviewsActive = b] /\ UNCHANGED stage
      /\ rows' = Reincluded(on, b)
  BY DEF Reincluded, SetSelfReviewsActive
<1>2. [setup EXCEPT !.selfReviewsActive = b] = t
  BY RowsOnRoster, SetupIsMade DEF Plain, Made
<1> HIDE DEF t, on
<1>3. /\ t \in Setups /\ t.kind = setup.kind /\ t.roster = setup.roster /\ t.tag = setup.tag
      /\ t.tie = setup.tie /\ t.same = setup.same
  BY RowsOnRoster, SetupTypes, PlainSetup DEF t
<1>4. /\ rows' \in [DOMAIN rows -> Rows]
      /\ \A p \in DOMAIN rows : /\ rows'[p].cell = rows[p].cell /\ rows'[p].about = rows[p].about
                                /\ rows'[p].isSelf = rows[p].isSelf
  BY <1>1, IncludesKeep
<1>5. stage' \in {"draft", "validated", "ready"}
  BY <1>1 DEF GroupsInv, TypeOK
<1> QED
  BY <1>1, <1>2, <1>3, <1>4, <1>5, PlainEditKeeps

LEMMA BulkIncludeKeeps ==
  ASSUME ConstantsAssumption, GroupsInv, NEW o \in Pairs, NEW b \in BOOLEAN, BulkSetInclude(o, b)
  PROVE  GroupsInv' /\ FlagsKept
<1> DEFINE on == {o}
<1>1. /\ Spend /\ UNCHANGED <<stage, setup>> /\ rows' = [rows EXCEPT ![o].include = b]
  BY DEF BulkSetInclude
<1>2. rows' = Reincluded(on, b)
  BY <1>1, Zenon DEF Reincluded
<1> HIDE DEF on
<1>3. /\ rows' \in [DOMAIN rows -> Rows]
      /\ \A p \in DOMAIN rows : /\ rows'[p].cell = rows[p].cell /\ rows'[p].about = rows[p].about
                                /\ rows'[p].isSelf = rows[p].isSelf
  BY <1>2, IncludesKeep
<1>4. setup \in Setups /\ stage' \in {"draft", "validated", "ready"}
  BY <1>1 DEF GroupsInv, TypeOK
<1> QED
  BY <1>1, <1>3, <1>4, PlainEditKeeps

-----------------------------------------------------------------------------
(* Rows that join and rows that leave.                                     *)
Joined(s, r, own) ==
    Made(s.roster \cup {r}, s.active \cup {r}, s.tag, s.tie, s.same \cup own, s.kind,
         s.rule, s.selfReviewsActive)

WithReviewer(s, r, own) ==
    [s EXCEPT !.roster = @ \cup {r}, !.active = @ \cup {r}, !.same = @ \cup own]

LEMMA WithReviewerIsMade ==
  ASSUME NEW roster, NEW active, NEW tag, NEW tie, NEW same, NEW kind, NEW rule, NEW b,
         NEW r, NEW own
  PROVE  WithReviewer(Made(roster, active, tag, tie, same, kind, rule, b), r, own)
           = Made(roster \cup {r}, active \cup {r}, tag, tie, same \cup own, kind, rule, b)
<1> DEFINE s == Made(roster, active, tag, tie, same, kind, rule, b)
           listed == [s EXCEPT !.roster = @ \cup {r}]
           working == [listed EXCEPT !.active = @ \cup {r}]
           bound == [working EXCEPT !.same = @ \cup own]
<1>1. WithReviewer(s, r, own) = bound
  BY Zenon DEF WithReviewer
<1>2. listed = Made(roster \cup {r}, active, tag, tie, same, kind, rule, b)
  BY DEF Made
<1> HIDE DEF listed
<1>3. working = Made(roster \cup {r}, active \cup {r}, tag, tie, same, kind, rule, b)
  BY <1>2 DEF Made
<1> HIDE DEF working
<1>4. bound = Made(roster \cup {r}, active \cup {r}, tag, tie, same \cup own, kind, rule, b)
  BY <1>3 DEF Made
<1> QED
  BY <1>1, <1>4

LEMMA CreateReviewerKeeps ==
  ASSUME ConstantsAssumption, GroupsInv, NEW r \in Reviewers, NEW self \in SUBSET Reviewees,
         CreateReviewer(r, self)
  PROVE  GroupsInv' /\ FlagsKept
<1> DEFINE own == {r} \X self
           t == Joined(setup, r, own)
<1>1. /\ Spend /\ r \notin setup.roster /\ stage' = "draft" /\ UNCHANGED rows
      /\ setup' = [setup EXCEPT !.roster = @ \cup {r}, !.active = @ \cup {r},
                                !.same = @ \cup ({r} \X self)]
      /\ setup'.same \in Matchings(setup')
  BY DEF CreateReviewer
<1>2. setup' = t
  <2>1. setup' = WithReviewer(setup, r, own)
    BY <1>1, Zenon DEF WithReviewer
  <2> HIDE DEF own, t
  <2> QED
    BY <2>1, RowsOnRoster, SetupIsMade, WithReviewerIsMade DEF t, Joined
<1> HIDE DEF t
<1>3. /\ t.roster = setup.roster \cup {r} /\ t.kind = setup.kind /\ t.tag = setup.tag
      /\ t.tie = setup.tie /\ t.same = setup.same \cup ({r} \X self)
  BY DEF t, Joined, Made
<1>4. t.same \in Matchings(t)
  BY <1>1, <1>2
<1>5. t \in Setups
  <2>1. /\ setup.roster \cup {r} \in SUBSET (Reviewers \cup Reviewees)
        /\ setup.active \cup {r} \in SUBSET (Reviewers \cup Reviewees)
        /\ setup.tag \in [Reviewees -> Tags \cup {Blank}]
        /\ setup.tie \in [Pairs -> Ties] /\ setup.kind \in Kinds /\ setup.rule \in Rules
        /\ setup.selfReviewsActive \in BOOLEAN
    BY RowsOnRoster, SetupTypes
  <2>2. t = Made(setup.roster \cup {r}, setup.active \cup {r}, setup.tag, setup.tie, t.same,
                 setup.kind, setup.rule, setup.selfReviewsActive)
    BY <1>3 DEF t, Joined
  <2> QED
    BY <1>4, <2>1, <2>2, MadeIsSetup
<1>6. DOMAIN rows \subseteq OnRoster(t)
  BY <1>3, GrownRoster
<1>7. \A p, q \in DOMAIN rows : SameGroup(t, p, q) => SameGroup(setup, p, q)
  BY <1>3, <1>5, RowsOnRoster, UntouchedGroups
<1>8. GroupsInv'
  BY <1>1, <1>2, <1>5, <1>6, <1>7, RowsAsTheyWere, KeptKeeps
<1>9. \A p \in DOMAIN rows : Classify(t, p) = Classify(setup, p)
  <2> TAKE p \in DOMAIN rows
  <2>1. p \in Pairs /\ p[1] # r /\ p[2] \in setup.roster
    BY <1>1, RowsOnRoster
  <2>2. t.roster \cap Reviewees = setup.roster \cap Reviewees
    BY <1>3 DEF ConstantsAssumption
  <2>3. \A e \in setup.roster \cap Reviewees :
          <<p[1], e>> \in t.same <=> <<p[1], e>> \in setup.same
    BY <1>3, <2>1
  <2> QED
    BY <1>3, <1>5, <2>1, <2>2, <2>3, RowsOnRoster, ClassifyAlike
<1> QED
  BY <1>1, <1>2, <1>8, <1>9 DEF FlagsKept, Flagged

LEMMA AppendKeeps ==
  ASSUME ConstantsAssumption, GroupsInv, NEW es \in SUBSET Reviewees,
         NEW t \in Tags \cup {Blank}, NEW m, AppendReviewees(es, t, m)
  PROVE  GroupsInv'
<1> DEFINE new == Matched(Filed(setup, es, t), m)
<1>1. /\ Spend /\ es \cap setup.roster = {} /\ setup' = new /\ m \in Matchings(setup')
      /\ stage' = "draft" /\ UNCHANGED rows
  BY DEF AppendReviewees
<1> HIDE DEF new
<1>2. m \in Matchings(new)
  BY <1>1
<1>3. new \in Setups
  BY <1>2, RowsOnRoster, FiledIsSetup DEF new
<1>4. new = Refiled(setup, es, t, m)
  BY RowsOnRoster, FiledParts DEF new
<1>5. /\ new.roster = setup.roster \cup es /\ new.tag = Retagged(setup.tag, es, t)
      /\ new.tie = setup.tie /\ new.kind = setup.kind
  BY <1>4 DEF Refiled, Made
<1>6. DOMAIN rows \subseteq OnRoster(new)
  BY <1>5, GrownRoster
<1>7. \A p \in DOMAIN rows : new.tag[p[2]] = setup.tag[p[2]]
  BY <1>1, <1>5, RowsOnRoster DEF Retagged
<1>8. \A p, q \in DOMAIN rows : SameGroup(new, p, q) => SameGroup(setup, p, q)
  BY <1>3, <1>5, <1>7, RowsOnRoster, UntouchedGroups
<1> QED
  BY <1>1, <1>3, <1>6, <1>8, RowsAsTheyWere, KeptKeeps

(* What a row's going leaves of the setup.                                 *)
TagWithout(tag, xs) == [e \in Reviewees |-> IF e \in xs THEN Blank ELSE tag[e]]
TieWithout(tie, xs) == [p \in Pairs |-> IF {p[1], p[2]} \cap xs # {} THEN NoTie ELSE tie[p]]
SameWithout(same, xs) == {q \in same : {q[1], q[2]} \cap xs = {}}
Left(s, xs) ==
    Made(s.roster \ xs, s.active \ xs, TagWithout(s.tag, xs), TieWithout(s.tie, xs),
         SameWithout(s.same, xs), s.kind, s.rule, s.selfReviewsActive)

LEMMA WithoutIsLeft ==
  ASSUME NEW s \in Setups, NEW xs
  PROVE  Without(s, xs) = Left(s, xs)
<1> DEFINE tag == TagWithout(s.tag, xs)
           tie == TieWithout(s.tie, xs)
           same == SameWithout(s.same, xs)
<1>1. Without(s, xs) = [s EXCEPT !.roster = @ \ xs, !.active = @ \ xs, !.tag = tag,
                                 !.same = same, !.tie = tie]
  BY SetupIsMade DEF Without, TagWithout, TieWithout, SameWithout, Made
<1> HIDE DEF tag, tie, same
<1>2. Without(s, xs) = Made(s.roster \ xs, s.active \ xs, tag, tie, same, s.kind, s.rule,
                            s.selfReviewsActive)
  BY <1>1, SetupIsMade DEF Made
<1> QED
  BY <1>2 DEF tag, tie, same, Left

LEMMA LeftIsSetup ==
  ASSUME NEW s \in Setups, NEW xs \in SUBSET (Reviewers \cup Reviewees), NEW t, t = Left(s, xs)
  PROVE  /\ t \in Setups /\ t.kind = s.kind
         /\ OnRoster(t) = {p \in OnRoster(s) : p[1] \notin xs /\ p[2] \notin xs}
         /\ \A p \in OnRoster(t) :
              /\ t.tag[p[2]] = s.tag[p[2]] /\ t.tie[p] = s.tie[p]
              /\ p \in t.same <=> p \in s.same
<1>1. /\ t.roster = s.roster \ xs /\ t.tag = TagWithout(s.tag, xs) /\ t.kind = s.kind
      /\ t.tie = TieWithout(s.tie, xs) /\ t.same = SameWithout(s.same, xs)
  BY DEF Left, Made
<1>2. OnRoster(t) = {p \in OnRoster(s) : p[1] \notin xs /\ p[2] \notin xs}
  BY <1>1 DEF OnRoster
<1>3. t \in Setups
  <2>1. /\ s.roster \ xs \in SUBSET (Reviewers \cup Reviewees)
        /\ s.active \ xs \in SUBSET (Reviewers \cup Reviewees)
        /\ s.kind \in Kinds /\ s.rule \in Rules /\ s.selfReviewsActive \in BOOLEAN
    BY SetupTypes
  <2>2. TagWithout(s.tag, xs) \in [Reviewees -> Tags \cup {Blank}]
    BY SetupTypes DEF TagWithout
  <2>3. TieWithout(s.tie, xs) \in [Pairs -> Ties]
    <3>1. s.tie \in [Pairs -> Ties] /\ NoTie \in Ties
      BY SetupTypes DEF Ties
    <3> QED
      BY <3>1 DEF TieWithout
  <2>4. SameWithout(s.same, xs) \in Matchings(t)
    <3>1. s.same \in Matchings(s)
      BY SetupTypes
    <3> QED
      BY <1>2, <3>1 DEF Matchings, SameWithout
  <2> QED
    BY <2>1, <2>2, <2>3, <2>4, MadeIsSetup DEF Left
<1>4. \A p \in OnRoster(t) :
        p \in Pairs /\ p[2] \in Reviewees /\ {p[1], p[2]} \cap xs = {}
  BY <1>2 DEF OnRoster, Pairs
<1> QED
  BY <1>1, <1>2, <1>3, <1>4 DEF TagWithout, TieWithout, SameWithout

LEMMA GroupsLeft ==
  ASSUME GroupsInv, NEW xs \in SUBSET (Reviewers \cup Reviewees), NEW t, t = Without(setup, xs),
         NEW left, left = RowsWithout(rows, xs)
  PROVE  /\ t \in Setups /\ t.kind = setup.kind
         /\ \A p : p \in DOMAIN left <=> p \in DOMAIN rows /\ p[1] \notin xs /\ p[2] \notin xs
         /\ DOMAIN left \subseteq OnRoster(t)
         /\ left \in [DOMAIN left -> Rows] /\ \A p \in DOMAIN left : left[p] = rows[p]
         /\ \A p, q \in DOMAIN left : SameGroup(t, p, q) => SameGroup(setup, p, q)
<1>1. t = Left(setup, xs)
  BY RowsOnRoster, WithoutIsLeft
<1>2. /\ t \in Setups /\ t.kind = setup.kind
      /\ OnRoster(t) = {p \in OnRoster(setup) : p[1] \notin xs /\ p[2] \notin xs}
      /\ \A p \in OnRoster(t) : t.tag[p[2]] = setup.tag[p[2]] /\ t.tie[p] = setup.tie[p]
  BY <1>1, RowsOnRoster, LeftIsSetup
<1>3. /\ DOMAIN left = {p \in DOMAIN rows : {p[1], p[2]} \cap xs = {}}
      /\ \A p \in DOMAIN left : left[p] = rows[p]
      /\ left \in [DOMAIN left -> Rows]
  BY DEF RowsWithout, Restrict, GroupsInv, TypeOK
<1>4. \A p : p \in DOMAIN left <=> p \in DOMAIN rows /\ p[1] \notin xs /\ p[2] \notin xs
  BY <1>3
<1>5. DOMAIN left \subseteq OnRoster(t)
  BY <1>2, <1>4 DEF GroupsInv, TypeOK
<1>6. \A p, q \in DOMAIN left : SameGroup(t, p, q) => SameGroup(setup, p, q)
  BY <1>2, <1>5, RowsOnRoster, UntouchedGroups
<1> QED
  BY <1>2, <1>3, <1>4, <1>5, <1>6

LEMMA DeleteRevieweesKeeps ==
  ASSUME ConstantsAssumption, GroupsInv, NEW es \in SUBSET Reviewees, DeleteReviewees(es)
  PROVE  GroupsInv' /\ Flagged(setup', rows')
<1> DEFINE t == Without(setup, es)
           left == RowsWithout(rows, es)
<1>1. Spend /\ setup' = t /\ rows' = Recompute(t, left) /\ stage' = "draft"
  BY DEF DeleteReviewees
<1>2. /\ t \in Setups /\ DOMAIN left \subseteq OnRoster(t) /\ left \in [DOMAIN left -> Rows]
      /\ DOMAIN left \subseteq DOMAIN rows /\ \A p \in DOMAIN left : left[p] = rows[p]
      /\ \A p, q \in DOMAIN left : SameGroup(t, p, q) => SameGroup(setup, p, q)
  <2>1. es \in SUBSET (Reviewers \cup Reviewees)
    OBVIOUS
  <2> HIDE DEF t, left
  <2> QED
    BY <2>1, GroupsLeft DEF t, left
<1> HIDE DEF t, left
<1>3. /\ rows' \in [DOMAIN left -> Rows]
      /\ \A p \in DOMAIN left : /\ rows'[p].cell = left[p].cell /\ rows'[p].about = left[p].about
                                /\ rows'[p].isSelf = Classify(t, p)
  BY <1>1, <1>2, RecomputedRows
<1>4. GroupsInv'
  <2>1. DOMAIN rows' = DOMAIN left /\ rows' \in [DOMAIN rows' -> Rows]
    BY <1>3
  <2>2. \A p \in DOMAIN rows' : rows'[p].cell = rows[p].cell /\ rows'[p].about = rows[p].about
    BY <1>2, <1>3, <2>1
  <2> QED
    BY <1>1, <1>2, <2>1, <2>2, KeptKeeps
<1> QED
  BY <1>1, <1>3, <1>4 DEF Flagged

LEMMA DeleteReviewersKeeps ==
  ASSUME ConstantsAssumption, GroupsInv, NEW rs \in SUBSET Reviewers, DeleteReviewers(rs)
  PROVE  GroupsInv' /\ FlagsKept
<1> DEFINE t == Without(setup, rs)
           left == RowsWithout(rows, rs)
<1>1. Spend /\ setup' = t /\ rows' = left /\ stage' = "draft"
  BY DEF DeleteReviewers
<1>2. /\ t \in Setups /\ DOMAIN left \subseteq OnRoster(t) /\ left \in [DOMAIN left -> Rows]
      /\ \A p : p \in DOMAIN left <=> p \in DOMAIN rows /\ p[1] \notin rs /\ p[2] \notin rs
      /\ \A p \in DOMAIN left : left[p] = rows[p]
      /\ \A p, q \in DOMAIN left : SameGroup(t, p, q) => SameGroup(setup, p, q)
  <2>1. rs \in SUBSET (Reviewers \cup Reviewees)
    OBVIOUS
  <2> HIDE DEF t, left
  <2> QED
    BY <2>1, GroupsLeft DEF t, left
<1>3. t = Left(setup, rs)
  BY RowsOnRoster, WithoutIsLeft
<1> HIDE DEF t, left
<1>4. GroupsInv'
  BY <1>1, <1>2, KeptKeeps
<1>5. ASSUME NEW p \in DOMAIN left
      PROVE  Classify(t, p) = Classify(setup, p)
  <2>1. p \in Pairs /\ p[2] \in setup.roster /\ p[1] \in Reviewers /\ p[1] \notin rs
    BY <1>2, RowsOnRoster
  <2>2. /\ t.roster = setup.roster \ rs /\ t.tag = TagWithout(setup.tag, rs)
        /\ t.tie = TieWithout(setup.tie, rs) /\ t.same = SameWithout(setup.same, rs)
        /\ t.kind = setup.kind
    BY <1>3 DEF Left, Made
  <2>3. t.roster \cap Reviewees = setup.roster \cap Reviewees
    BY <2>2 DEF ConstantsAssumption
  <2>4. \A e \in setup.roster \cap Reviewees :
          /\ <<p[1], e>> \in t.same <=> <<p[1], e>> \in setup.same
          /\ t.tag[e] = setup.tag[e] /\ t.tie[<<p[1], e>>] = setup.tie[<<p[1], e>>]
    <3> TAKE e \in setup.roster \cap Reviewees
    <3>1. e \notin rs /\ <<p[1], e>> \in Pairs /\ {p[1], e} \cap rs = {}
      BY <2>1 DEF ConstantsAssumption, Pairs
    <3> QED
      BY <2>2, <3>1 DEF TagWithout, TieWithout, SameWithout
  <2> QED
    BY <1>2, <2>1, <2>2, <2>3, <2>4, RowsOnRoster, ClassifyAlike
<1> QED
  BY <1>1, <1>2, <1>4, <1>5 DEF FlagsKept, Flagged

LEMMA ReplaceRevieweesKeeps ==
  ASSUME ConstantsAssumption, GroupsInv, NEW es \in SUBSET Reviewees,
         NEW t \in Tags \cup {Blank}, NEW m, ReplaceReviewees(es, t, m)
  PROVE  GroupsInv' /\ Flagged(setup', rows')
<1> DEFINE bare == Without(setup, Reviewees)
           new == Matched(Filed(bare, es, t), m)
<1>1. Spend /\ setup' = new /\ m \in Matchings(setup') /\ rows' = << >> /\ stage' = "draft"
  BY DEF ReplaceReviewees
<1>2. bare = Left(setup, Reviewees)
  BY RowsOnRoster, WithoutIsLeft
<1> HIDE DEF bare
<1>3. bare \in Setups
  BY <1>2, RowsOnRoster, LeftIsSetup
<1> HIDE DEF new
<1>4. m \in Matchings(new)
  BY <1>1
<1>5. new \in Setups
  BY <1>3, <1>4, FiledIsSetup DEF new
<1>6. DOMAIN rows' = {}
  BY <1>1
<1>7. edits' \in 0..MaxEdits
  BY <1>1, SpendKeepsCount DEF GroupsInv
<1> QED
  BY <1>1, <1>5, <1>6, <1>7 DEF GroupsInv, TypeOK, Agree, Described, Flagged

-----------------------------------------------------------------------------
(* Answers that go a group at a time.                                      *)
Emptied(on) ==
    [p \in DOMAIN rows |-> IF p \in on THEN [rows[p] EXCEPT !.cell = Empty, !.about = {}]
                           ELSE rows[p]]

LEMMA EmptiedKeeps ==
  ASSUME GroupsInv, NEW on, NEW new, new = Emptied(on),
         \A p, q \in DOMAIN rows : SameGroup(setup, p, q) /\ p \in on => q \in on
  PROVE  /\ new \in [DOMAIN rows -> Rows] /\ Agree(setup, new) /\ Described(setup, new)
         /\ \A p \in DOMAIN rows : new[p].isSelf = rows[p].isSelf
<1> DEFINE emptied(row) == [row EXCEPT !.cell = Empty, !.about = {}]
<1>1. \A row \in Rows : /\ emptied(row) \in Rows /\ emptied(row).cell = Empty
                        /\ emptied(row).isSelf = row.isSelf
  BY EmptiedIsRow
<1>2. new = [p \in DOMAIN rows |-> IF p \in on THEN emptied(rows[p]) ELSE rows[p]]
  BY DEF Emptied
<1>3. \A p \in DOMAIN rows : rows[p] \in Rows
  BY DEF GroupsInv, TypeOK
<1>4. Agree(setup, rows) /\ Described(setup, rows)
  BY DEF GroupsInv
<1> HIDE DEF emptied
<1>5. /\ new \in [DOMAIN rows -> Rows]
      /\ \A p \in DOMAIN rows : /\ p \in on => new[p].cell = Empty
                                /\ p \notin on => new[p] = rows[p]
                                /\ new[p].isSelf = rows[p].isSelf
  BY <1>1, <1>2, <1>3
<1>6. ASSUME NEW p \in DOMAIN rows, NEW q \in DOMAIN rows, SameGroup(setup, p, q)
      PROVE  /\ new[p].cell = new[q].cell
             /\ new[p].cell # Empty => q[2] \in new[p].about
  <2>1. SameGroup(setup, q, p)
    BY <1>6, GroupsAreClasses
  <2>2. p \in on <=> q \in on
    BY <1>6, <2>1
  <2> QED
    BY <1>4, <1>5, <1>6, <2>2 DEF Agree, Described
<1> QED
  BY <1>5, <1>6 DEF Agree, Described

LEMMA DeleteAllResponsesKeeps ==
  ASSUME ConstantsAssumption, GroupsInv, DeleteAllResponses
  PROVE  GroupsInv' /\ FlagsKept
<1>1. Spend /\ UNCHANGED <<stage, setup>>
  BY DEF DeleteAllResponses
<1>2. rows' = Emptied(DOMAIN rows)
  BY DEF DeleteAllResponses, Emptied
<1>3. /\ rows' \in [DOMAIN rows -> Rows] /\ Agree(setup, rows') /\ Described(setup, rows')
      /\ \A p \in DOMAIN rows : rows'[p].isSelf = rows[p].isSelf
  BY <1>2, EmptiedKeeps
<1>4. edits' \in 0..MaxEdits
  BY <1>1, SpendKeepsCount DEF GroupsInv
<1> QED
  BY <1>1, <1>3, <1>4 DEF GroupsInv, TypeOK, FlagsKept, Flagged

-----------------------------------------------------------------------------
(* Generate.                                                               *)
WrittenRow(s, rs, p) ==
    [include |-> PairInclude(s, p),
     isSelf  |-> p \in DOMAIN rs /\ rs[p].isSelf,
     cell    |-> IF p \in DOMAIN rs THEN rs[p].cell ELSE Empty,
     about   |-> IF p \in DOMAIN rs THEN rs[p].about ELSE {}]

LEMMA WrittenRowIsRow ==
  ASSUME NEW s, NEW rs, rs \in [DOMAIN rs -> Rows], NEW p
  PROVE  /\ WrittenRow(s, rs, p) \in Rows
         /\ p \in DOMAIN rs => /\ WrittenRow(s, rs, p).cell = rs[p].cell
                               /\ WrittenRow(s, rs, p).about = rs[p].about
         /\ p \notin DOMAIN rs => WrittenRow(s, rs, p).cell = Empty
<1> DEFINE include == PairInclude(s, p)
           self == p \in DOMAIN rs /\ rs[p].isSelf
           cell == IF p \in DOMAIN rs THEN rs[p].cell ELSE Empty
           about == IF p \in DOMAIN rs THEN rs[p].about ELSE {}
<1>1. include \in BOOLEAN
  BY Zenon DEF PairInclude, IsActive
<1>2. self \in BOOLEAN
  OBVIOUS
<1>3. \A row \in Rows : row.cell \in [Fields -> Cells] /\ row.about \in SUBSET Reviewees
  BY DEF Rows
<1>4. Empty \in [Fields -> Cells]
  BY DEF Empty, Cells
<1>5. cell \in [Fields -> Cells] /\ about \in SUBSET Reviewees
  BY <1>3, <1>4
<1>6. WrittenRow(s, rs, p) = [include |-> include, isSelf |-> self, cell |-> cell, about |-> about]
  BY Zenon DEF WrittenRow
<1> HIDE DEF include, self, cell, about
<1>7. WrittenRow(s, rs, p) \in Rows
  BY <1>1, <1>2, <1>5, <1>6 DEF Rows
<1>8. WrittenRow(s, rs, p).cell = cell /\ WrittenRow(s, rs, p).about = about
  BY <1>6
<1> QED
  BY <1>7, <1>8 DEF cell, about

Inserts(s, rs) == s.kind.grouped /\ ~(NewPairs(s) \subseteq DOMAIN rs)

LEMMA GeneratedRows ==
  ASSUME NEW s, NEW rs, rs \in [DOMAIN rs -> Rows], Agree(s, rs), Described(s, rs),
         NEW new, new = Generated(s, rs)
  PROVE  /\ DOMAIN new = NewPairs(s) /\ new \in [DOMAIN new -> Rows]
         /\ Agree(s, new) /\ Described(s, new) /\ Flagged(s, new)
         /\ \A p \in NewPairs(s) \cap DOMAIN rs :
              IF Inserts(s, rs) /\ ~Keeps(GroupOf(s, NewPairs(s), p), Partition(s, rs))
              THEN new[p].cell = Empty ELSE new[p].cell = rs[p].cell
<1> DEFINE written == [p \in NewPairs(s) |-> WrittenRow(s, rs, p)]
           mid == Recompute(s, written)
<1>1. new = IF Inserts(s, rs) THEN ClearChanged(Partition(s, rs), s, mid) ELSE mid
  BY Zenon DEF Generated, Inserts, WrittenRow
<1>2. /\ DOMAIN written = NewPairs(s) /\ written \in [DOMAIN written -> Rows]
      /\ \A p \in NewPairs(s) :
           /\ p \in DOMAIN rs => written[p].cell = rs[p].cell /\ written[p].about = rs[p].about
           /\ p \notin DOMAIN rs => written[p].cell = Empty
  BY WrittenRowIsRow
<1> HIDE DEF written
<1>3. /\ DOMAIN mid = NewPairs(s) /\ mid \in [DOMAIN mid -> Rows]
      /\ \A p \in NewPairs(s) :
           /\ p \in DOMAIN rs => mid[p].cell = rs[p].cell /\ mid[p].about = rs[p].about
           /\ p \notin DOMAIN rs => mid[p].cell = Empty
           /\ mid[p].isSelf = Classify(s, p)
  <2> HIDE DEF mid
  <2>1. /\ mid \in [DOMAIN written -> Rows]
        /\ \A p \in DOMAIN written : /\ mid[p].cell = written[p].cell
                                     /\ mid[p].about = written[p].about
                                     /\ mid[p].isSelf = Classify(s, p)
    BY <1>2, RecomputedRows DEF mid
  <2> QED
    BY <1>2, <2>1
<1> HIDE DEF mid
<1>4. CASE Inserts(s, rs)
  <2>1. new = ClearChanged(Partition(s, rs), s, mid)
    BY <1>1, <1>4
  <2>2. /\ new \in [DOMAIN mid -> Rows]
        /\ \A p \in DOMAIN mid :
             /\ new[p].isSelf = mid[p].isSelf
             /\ Keeps(GroupOf(s, DOMAIN mid, p), Partition(s, rs)) => new[p] = mid[p]
             /\ ~Keeps(GroupOf(s, DOMAIN mid, p), Partition(s, rs)) => new[p].cell = Empty
    BY <1>3, <2>1, ClearedRows
  <2>3. Agree(s, new) /\ Described(s, new)
    BY <1>3, <2>1, ClearKeeps
  <2> QED
    BY <1>3, <1>4, <2>2, <2>3 DEF Flagged
<1>5. CASE ~Inserts(s, rs)
  <2>1. new = mid
    BY <1>1, <1>5
  <2>2. CASE NewPairs(s) \subseteq DOMAIN rs
    <3>1. Agree(s, new) /\ Described(s, new)
      BY <1>3, <2>1, <2>2, SplitKeeps
    <3> QED
      BY <1>3, <1>5, <2>1, <3>1 DEF Flagged
  <2>3. CASE ~(NewPairs(s) \subseteq DOMAIN rs)
    <3>1. \A p, q : SameGroup(s, p, q) <=> p = q
      BY <1>5, <2>3 DEF Inserts, SameGroup
    <3>2. Agree(s, new) /\ Described(s, new)
      BY <1>3, <2>1, <3>1 DEF Agree, Described
    <3> QED
      BY <1>3, <1>5, <2>1, <3>2 DEF Flagged
  <2> QED
    BY <2>2, <2>3
<1> QED
  BY <1>4, <1>5

LEMMA PrepareKeeps ==
  ASSUME ConstantsAssumption, GroupsInv, Prepare
  PROVE  GroupsInv' /\ Flagged(setup', rows')
<1>1. /\ rows' = Generated(setup, rows) /\ stage' \in {"draft", "validated"}
      /\ UNCHANGED <<setup, edits>>
  BY DEF Prepare
<1>2. /\ DOMAIN rows' = NewPairs(setup) /\ rows' \in [DOMAIN rows' -> Rows]
      /\ Agree(setup, rows') /\ Described(setup, rows') /\ Flagged(setup, rows')
  BY <1>1, GeneratedRows DEF GroupsInv, TypeOK
<1>3. NewPairs(setup) \subseteq OnRoster(setup)
  BY DEF NewPairs
<1> QED
  BY <1>1, <1>2, <1>3 DEF GroupsInv, TypeOK

LEMMA HalfMoved ==
  ASSUME NEW A, NEW B, NEW a \in A \X B, NEW C
  PROVE  a \in C \X B <=> a[1] \in C
<1> PICK x \in A, y \in B : a = <<x, y>>
  OBVIOUS
<1> QED
  OBVIOUS

LEMMA AnswersInHas ==
  ASSUME NEW rs, NEW a
  PROVE  a \in AnswersIn(rs) <=>
           a \in (DOMAIN rs) \X Fields /\ rs[a[1]].cell[a[2]] # NoAnswer
BY Zenon DEF AnswersIn

(* What the run takes is what the confirmation counted.                    *)
LEMMA PrepareLosesWhatWasShown ==
  ASSUME GroupsInv
  PROVE  LossIsWhatWasShown
<1> SUFFICES ASSUME Prepare
             PROVE  AnswersIn(rows) \ AnswersIn(rows') = ResponsesLost(setup, rows)
  BY DEF LossIsWhatWasShown
<1> DEFINE new == rows'
           clears(p) == Inserts(setup, rows)
                         /\ ~Keeps(GroupOf(setup, NewPairs(setup), p), Partition(setup, rows))
<1>1. /\ DOMAIN new = NewPairs(setup)
      /\ \A p \in NewPairs(setup) \cap DOMAIN rows :
           IF clears(p) THEN new[p].cell = Empty ELSE new[p].cell = rows[p].cell
  <2>1. new = Generated(setup, rows)
    BY DEF Prepare
  <2>2. rows \in [DOMAIN rows -> Rows] /\ Agree(setup, rows) /\ Described(setup, rows)
    BY DEF GroupsInv, TypeOK
  <2> HIDE DEF new
  <2> QED
    BY <2>1, <2>2, GeneratedRows
<1>2. \A f \in Fields : Empty[f] = NoAnswer
  BY DEF Empty
<1>3. \A a : a \in ResponsesLost(setup, rows) <=>
               a \in AnswersIn(rows) /\ (a[1] \notin NewPairs(setup) \/ clears(a[1]))
  BY DEF ResponsesLost, DeletedAnswers, ProjectedGroupClears, Inserts
<1>4. \A a : a \in AnswersIn(rows) =>
               (a \notin AnswersIn(new) <=> a[1] \notin NewPairs(setup) \/ clears(a[1]))
  <2> HIDE DEF new, clears
  <2> SUFFICES ASSUME NEW a \in AnswersIn(rows)
               PROVE  a \notin AnswersIn(new) <=> a[1] \notin NewPairs(setup) \/ clears(a[1])
    OBVIOUS
  <2>1. /\ a \in (DOMAIN rows) \X Fields /\ a[1] \in DOMAIN rows /\ a[2] \in Fields
        /\ rows[a[1]].cell[a[2]] # NoAnswer
    <3>1. a \in (DOMAIN rows) \X Fields /\ rows[a[1]].cell[a[2]] # NoAnswer
      BY AnswersInHas, Zenon
    <3> DEFINE D == DOMAIN rows
    <3>2. a \in D \X Fields
      BY <3>1
    <3> HIDE DEF D
    <3>3. a[1] \in D /\ a[2] \in Fields
      BY <3>2
    <3> QED
      BY <3>1, <3>3 DEF D
  <2>2. a \in AnswersIn(new) <=> a[1] \in DOMAIN new /\ new[a[1]].cell[a[2]] # NoAnswer
    BY <2>1, AnswersInHas, HalfMoved
  <2> QED
    BY <1>1, <1>2, <2>1, <2>2
<1> QED
  BY <1>3, <1>4

-----------------------------------------------------------------------------
(***************************************************************************)
(* The reviewer's operations.                                              *)
(***************************************************************************)
Sheets == [Fields -> Cells]

LEMMA RowParts ==
  ASSUME NEW row \in Rows
  PROVE  row.cell \in Sheets /\ row.about \in SUBSET Reviewees /\ row.isSelf \in BOOLEAN
BY DEF Rows, Sheets

LEMMA RecelledIsRow ==
  ASSUME NEW row \in Rows, NEW sheet \in Sheets
  PROVE  /\ [row EXCEPT !.cell = sheet] \in Rows
         /\ [row EXCEPT !.cell = sheet].cell = sheet
         /\ [row EXCEPT !.cell = sheet].about = row.about
         /\ [row EXCEPT !.cell = sheet].isSelf = row.isSelf
BY DEF Rows, Sheets

Answered(row, sheet, about) == [row EXCEPT !.cell = sheet, !.about = about]

LEMMA AnsweredIsRow ==
  ASSUME NEW row \in Rows, NEW sheet \in Sheets, NEW about \in SUBSET Reviewees
  PROVE  /\ Answered(row, sheet, about) \in Rows
         /\ Answered(row, sheet, about).cell = sheet
         /\ Answered(row, sheet, about).about = about
         /\ Answered(row, sheet, about).isSelf = row.isSelf
BY DEF Rows, Sheets, Answered

(* A set of rows that holds whole groups.                                  *)
Whole(s, dom, on) == \A p, q \in dom : SameGroup(s, p, q) /\ p \in on => q \in on

LEMMA MembersAreWhole ==
  ASSUME NEW s, NEW dom, NEW ps \in SUBSET dom, NEW on, on = UNION {GroupOf(s, dom, p) : p \in ps}
  PROVE  Whole(s, dom, on)
<1> SUFFICES ASSUME NEW p \in dom, NEW q \in dom, SameGroup(s, p, q), p \in on
             PROVE  q \in on
  BY DEF Whole
<1> PICK x \in ps : p \in GroupOf(s, dom, x)
  OBVIOUS
<1>1. SameGroup(s, x, p)
  BY GroupMembers
<1>2. SameGroup(s, x, q)
  BY <1>1, GroupsAreClasses
<1>3. q \in GroupOf(s, dom, x)
  BY <1>2, GroupMembers
<1> QED
  BY <1>3

(* Submit and recall stamp and unstamp the whole of a group alike.         *)
StampedSheet(sheet, b) ==
    [f \in Fields |-> IF sheet[f] = NoAnswer THEN NoAnswer ELSE [sheet[f] EXCEPT !.stamped = b]]

LEMMA StampedSheetIsSheet ==
  ASSUME NEW sheet \in Sheets, NEW b \in BOOLEAN
  PROVE  StampedSheet(sheet, b) \in Sheets
<1>1. ASSUME NEW c \in Cells, c # NoAnswer
      PROVE  [c EXCEPT !.stamped = b] \in Cells
  BY <1>1 DEF Cells
<1> DEFINE stamped(c) == [c EXCEPT !.stamped = b]
<1>2. \A c \in Cells : c # NoAnswer => stamped(c) \in Cells
  BY <1>1
<1>3. NoAnswer \in Cells
  BY DEF Cells
<1>4. StampedSheet(sheet, b) =
        [f \in Fields |-> IF sheet[f] = NoAnswer THEN NoAnswer ELSE stamped(sheet[f])]
  BY DEF StampedSheet
<1> HIDE DEF stamped
<1> QED
  BY <1>2, <1>3, <1>4 DEF Sheets

LEMMA EmptyStaysEmpty ==
  ASSUME NEW b
  PROVE  StampedSheet(Empty, b) = Empty
BY DEF StampedSheet, Empty

LEMMA StampKeeps ==
  ASSUME NEW s, NEW rs, rs \in [DOMAIN rs -> Rows], Agree(s, rs), Described(s, rs),
         NEW on, Whole(s, DOMAIN rs, on), NEW b \in BOOLEAN, NEW new, new = Stamp(rs, on, b)
  PROVE  /\ new \in [DOMAIN rs -> Rows] /\ Agree(s, new) /\ Described(s, new)
         /\ \A p \in DOMAIN rs : new[p].isSelf = rs[p].isSelf
<1> DEFINE recelled(row, sheet) == [row EXCEPT !.cell = sheet]
<1>1. new = [p \in DOMAIN rs |->
               IF p \in on THEN recelled(rs[p], StampedSheet(rs[p].cell, b)) ELSE rs[p]]
  BY Zenon DEF Stamp, StampedSheet
<1>2. \A row \in Rows, sheet \in Sheets :
        /\ recelled(row, sheet) \in Rows /\ recelled(row, sheet).cell = sheet
        /\ recelled(row, sheet).about = row.about /\ recelled(row, sheet).isSelf = row.isSelf
  BY RecelledIsRow
<1> HIDE DEF recelled
<1>3. \A p \in DOMAIN rs : rs[p] \in Rows /\ StampedSheet(rs[p].cell, b) \in Sheets
  BY RowParts, StampedSheetIsSheet
<1>4. /\ new \in [DOMAIN rs -> Rows]
      /\ \A p \in DOMAIN rs : /\ p \in on => new[p].cell = StampedSheet(rs[p].cell, b)
                              /\ p \notin on => new[p].cell = rs[p].cell
                              /\ new[p].about = rs[p].about /\ new[p].isSelf = rs[p].isSelf
  BY <1>1, <1>2, <1>3
<1>5. ASSUME NEW p \in DOMAIN rs, NEW q \in DOMAIN rs, SameGroup(s, p, q)
      PROVE  /\ new[p].cell = new[q].cell
             /\ new[p].cell # Empty => q[2] \in new[p].about
  <2>1. SameGroup(s, q, p)
    BY <1>5, GroupsAreClasses
  <2>2. p \in on <=> q \in on
    BY <1>5, <2>1 DEF Whole
  <2>3. rs[p].cell = rs[q].cell /\ (rs[p].cell # Empty => q[2] \in rs[p].about)
    BY <1>5 DEF Agree, Described
  <2>4. new[p].cell # Empty => rs[p].cell # Empty
    BY <1>4, EmptyStaysEmpty
  <2> QED
    BY <1>4, <2>2, <2>3, <2>4
<1> QED
  BY <1>4, <1>5 DEF Agree, Described

(* What a save writes on a member's row, of the answers the row had.       *)
SavedValue(sheet, post, f) == IF f \in Written(post) THEN post[f] ELSE sheet[f].value
SavedCell(sheet, post, changed, blanked, f) ==
    IF \/ SavedValue(sheet, post, f) = Blank
       \/ f = "governed" /\ SavedValue(sheet, post, "parent") # Opens
    THEN NoAnswer
    ELSE [value |-> SavedValue(sheet, post, f),
          stamped |-> sheet[f].stamped /\ f \notin changed /\ ~blanked]
SavedSheet(sheet, post, changed, blanked) ==
    [f \in Fields |-> SavedCell(sheet, post, changed, blanked, f)]

Changed(p, post) ==
    {f \in Written(post) : post[f] # Blank
        /\ \E m \in Members(p) : rows[m].cell[f].value \notin {Blank, post[f]}}

SavedRows(group, about, p, post) ==
    [m \in DOMAIN rows |->
        IF m \in group
        THEN Answered(rows[m],
                      SavedSheet(rows[m].cell, post, Changed(p, post), BlanksAnAnswer(p, post)),
                      about)
        ELSE rows[m]]

LEMMA AppliedIsSaved ==
  ASSUME NEW p, NEW post
  PROVE  Applied(p, post) = SavedRows(Members(p), {q[2] : q \in Members(p)}, p, post)
BY Zenon DEF Applied, SavedRows, Answered, SavedSheet, SavedCell, SavedValue, Changed

LEMMA SavedSheetIsSheet ==
  ASSUME NEW sheet \in Sheets, NEW post \in Posts, NEW changed, NEW blanked \in BOOLEAN
  PROVE  SavedSheet(sheet, post, changed, blanked) \in Sheets
<1> DEFINE Values == Takes["parent"] \cup Takes["governed"]
<1>1. \A f \in Fields : sheet[f] \in Cells
  BY DEF Sheets
<1>2. \A c \in Cells : c.value \in Values \cup {Blank} /\ c.stamped \in BOOLEAN
  <2> TAKE c \in Cells
  <2>1. CASE c = NoAnswer
    BY <2>1 DEF NoAnswer
  <2>2. CASE c \in [value : Values, stamped : BOOLEAN]
    BY <2>2
  <2> QED
    BY <2>1, <2>2 DEF Cells
<1>3. \A f \in Written(post) : post[f] \in Values \cup {Blank}
  BY DEF Written, Posts
<1>4. \A f \in Fields : SavedValue(sheet, post, f) \in Values \cup {Blank}
  BY <1>1, <1>2, <1>3 DEF SavedValue
<1>5. NoAnswer \in Cells
  BY DEF Cells
<1>6. \A v \in Values, b \in BOOLEAN : [value |-> v, stamped |-> b] \in Cells
  BY DEF Cells
<1> HIDE DEF Values
<1>7. ASSUME NEW f \in Fields
      PROVE  SavedCell(sheet, post, changed, blanked, f) \in Cells
  <2> DEFINE v == SavedValue(sheet, post, f)
             b == sheet[f].stamped /\ f \notin changed /\ ~blanked
             dropped == \/ v = Blank
                        \/ f = "governed" /\ SavedValue(sheet, post, "parent") # Opens
  <2>1. b \in BOOLEAN
    BY <1>1, <1>2
  <2>2. ~dropped => v \in Values
    BY <1>4
  <2>3. SavedCell(sheet, post, changed, blanked, f)
          = IF dropped THEN NoAnswer ELSE [value |-> v, stamped |-> b]
    BY Zenon DEF SavedCell
  <2> HIDE DEF v, b, dropped
  <2> QED
    BY <1>5, <1>6, <2>1, <2>2, <2>3
<1> QED
  BY <1>7 DEF SavedSheet, Sheets

LEMMA BlanksIsBoolean ==
  ASSUME NEW p, NEW post
  PROVE  BlanksAnAnswer(p, post) \in BOOLEAN
<1> DEFINE b == \E f \in Written(post), m \in Members(p) :
                    post[f] = Blank /\ rows[m].cell[f] # NoAnswer
<1>1. b = TRUE \/ b = FALSE
  BY SMT
<1>2. BlanksAnAnswer(p, post) = b
  BY DEF BlanksAnAnswer
<1> HIDE DEF b
<1> QED
  BY <1>1, <1>2

LEMMA AppliedKeeps ==
  ASSUME GroupsInv, NEW o \in DOMAIN rows, NEW post \in Posts,
         NEW new, new = Applied(o, post)
  PROVE  /\ new \in [DOMAIN rows -> Rows] /\ Agree(setup, new) /\ Described(setup, new)
         /\ \A p \in DOMAIN rows : new[p].isSelf = rows[p].isSelf
<1> DEFINE group == Members(o)
           about == {q[2] : q \in group}
           saved(sheet) == SavedSheet(sheet, post, Changed(o, post), BlanksAnAnswer(o, post))
<1>1. new = [m \in DOMAIN rows |->
               IF m \in group THEN Answered(rows[m], saved(rows[m].cell), about) ELSE rows[m]]
  BY AppliedIsSaved, Zenon DEF SavedRows
<1>2. /\ group \subseteq DOMAIN rows /\ o \in group
      /\ \A q \in DOMAIN rows : q \in group <=> SameGroup(setup, o, q)
  BY GroupMembers DEF Members
<1>3. about \in SUBSET Reviewees
  BY <1>2, RowsOnRoster
<1>4. \A q \in group : q[2] \in about
  OBVIOUS
<1> HIDE DEF about
<1>5. \A row \in Rows, sheet \in Sheets :
        /\ Answered(row, sheet, about) \in Rows /\ Answered(row, sheet, about).cell = sheet
        /\ Answered(row, sheet, about).about = about /\ Answered(row, sheet, about).isSelf = row.isSelf
  BY <1>3, AnsweredIsRow
<1>6. \A sheet \in Sheets : saved(sheet) \in Sheets
  BY SavedSheetIsSheet, BlanksIsBoolean
<1> HIDE DEF saved, group
<1>7. \A p \in DOMAIN rows : rows[p] \in Rows /\ saved(rows[p].cell) \in Sheets
  BY <1>6, RowParts DEF GroupsInv, TypeOK
<1>8. /\ new \in [DOMAIN rows -> Rows]
      /\ \A p \in DOMAIN rows :
           /\ p \in group => new[p].cell = saved(rows[p].cell) /\ new[p].about = about
           /\ p \notin group => new[p] = rows[p]
           /\ new[p].isSelf = rows[p].isSelf
  BY <1>1, <1>5, <1>7
<1>9. ASSUME NEW p \in DOMAIN rows, NEW q \in DOMAIN rows, SameGroup(setup, p, q)
      PROVE  /\ new[p].cell = new[q].cell
             /\ new[p].cell # Empty => q[2] \in new[p].about
  <2>1. SameGroup(setup, o, p) <=> SameGroup(setup, o, q)
    BY <1>9, GroupsAreClasses
  <2>2. p \in group <=> q \in group
    BY <1>2, <2>1
  <2>3. rows[p].cell = rows[q].cell /\ (rows[p].cell # Empty => q[2] \in rows[p].about)
    BY <1>9 DEF GroupsInv, Agree, Described
  <2> QED
    BY <1>4, <1>8, <2>2, <2>3
<1> QED
  BY <1>8, <1>9 DEF Agree, Described

ReviewerStep ==
    \/ \E p \in Pairs, post \in Posts : SaveDraft(p, post) \/ Submit(p, post)
    \/ \E r \in Reviewers : Recall(r) \/ ClearAll(r)

LEMMA ExcludedMembersAreWhole ==
  ASSUME NEW r
  PROVE  Whole(setup, DOMAIN rows, WithExcludedMembers(r))
<1>1. Included(r) \in SUBSET DOMAIN rows
  BY DEF Included
<1>2. WithExcludedMembers(r) = UNION {GroupOf(setup, DOMAIN rows, p) : p \in Included(r)}
  BY DEF WithExcludedMembers, Members
<1> QED
  BY <1>1, <1>2, MembersAreWhole

LEMMA ReviewerStepKeeps ==
  ASSUME GroupsInv, ReviewerStep
  PROVE  GroupsInv' /\ FlagsKept
<1> DEFINE kept(new) ==
        /\ new \in [DOMAIN rows -> Rows] /\ Agree(setup, new) /\ Described(setup, new)
        /\ \A p \in DOMAIN rows : new[p].isSelf = rows[p].isSelf
<1>0. /\ rows \in [DOMAIN rows -> Rows] /\ Agree(setup, rows) /\ Described(setup, rows)
  BY DEF GroupsInv, TypeOK
<1>1. UNCHANGED <<stage, setup, edits>> /\ kept(rows')
  <2>1. CASE \E p \in Pairs, post \in Posts : SaveDraft(p, post)
    <3> PICK p \in Pairs, post \in Posts : SaveDraft(p, post)
      BY <2>1
    <3>1. p \in DOMAIN rows /\ rows' = Applied(p, post) /\ UNCHANGED <<stage, setup, edits>>
      BY DEF SaveDraft, Included
    <3> QED
      BY <3>1, AppliedKeeps
  <2>2. CASE \E p \in Pairs, post \in Posts : Submit(p, post)
    <3> PICK p \in Pairs, post \in Posts : Submit(p, post)
      BY <2>2
    <3> DEFINE saved == Applied(p, post)
    <3>1. /\ p \in DOMAIN rows /\ UNCHANGED <<stage, setup, edits>>
          /\ rows' = saved \/ rows' = Stamp(saved, WithExcludedMembers(p[1]), TRUE)
      BY DEF Submit, Included
    <3> HIDE DEF saved
    <3>2. kept(saved)
      BY <3>1, AppliedKeeps DEF saved
    <3>3. DOMAIN saved = DOMAIN rows
      BY <3>2
    <3>4. CASE rows' = Stamp(saved, WithExcludedMembers(p[1]), TRUE)
      <4> DEFINE new == Stamp(saved, WithExcludedMembers(p[1]), TRUE)
      <4>1. Whole(setup, DOMAIN saved, WithExcludedMembers(p[1]))
        BY <3>3, ExcludedMembersAreWhole
      <4> HIDE DEF new
      <4>2. /\ new \in [DOMAIN saved -> Rows] /\ Agree(setup, new) /\ Described(setup, new)
            /\ \A q \in DOMAIN saved : new[q].isSelf = saved[q].isSelf
        <5>1. /\ saved \in [DOMAIN saved -> Rows] /\ Agree(setup, saved) /\ Described(setup, saved)
          BY <3>2, <3>3
        <5> DEFINE b == TRUE
        <5>2. b \in BOOLEAN /\ new = Stamp(saved, WithExcludedMembers(p[1]), b)
          BY DEF new
        <5> HIDE DEF kept, b
        <5> QED
          BY <4>1, <5>1, <5>2, StampKeeps
      <4>3. kept(new)
        BY <3>2, <3>3, <4>2
      <4> QED
        BY <3>1, <3>4, <4>3 DEF new
    <3> QED
      BY <3>1, <3>2, <3>4
  <2>3. CASE \E r \in Reviewers : Recall(r)
    <3> PICK r \in Reviewers : Recall(r)
      BY <2>3
    <3>1. rows' = Stamp(rows, WithExcludedMembers(r), FALSE) /\ UNCHANGED <<stage, setup, edits>>
      BY DEF Recall
    <3> DEFINE new == Stamp(rows, WithExcludedMembers(r), FALSE)
    <3>2. kept(new)
      <4> DEFINE b == FALSE
      <4>1. b \in BOOLEAN /\ new = Stamp(rows, WithExcludedMembers(r), b)
        OBVIOUS
      <4> HIDE DEF new, b
      <4> QED
        BY <1>0, <4>1, ExcludedMembersAreWhole, StampKeeps
    <3> HIDE DEF new
    <3> QED
      BY <3>1, <3>2 DEF new
  <2>4. CASE \E r \in Reviewers : ClearAll(r)
    <3> PICK r \in Reviewers : ClearAll(r)
      BY <2>4
    <3>1. rows' = Emptied(WithExcludedMembers(r)) /\ UNCHANGED <<stage, setup, edits>>
      BY DEF ClearAll, Emptied
    <3>2. \A p, q \in DOMAIN rows :
            SameGroup(setup, p, q) /\ p \in WithExcludedMembers(r) => q \in WithExcludedMembers(r)
      BY ExcludedMembersAreWhole DEF Whole
    <3> QED
      BY <3>1, <3>2, EmptiedKeeps
  <2> QED
    BY <2>1, <2>2, <2>3, <2>4 DEF ReviewerStep
<1>2. DOMAIN rows' = DOMAIN rows
  BY <1>1
<1> QED
  BY <1>1, <1>2 DEF GroupsInv, TypeOK, FlagsKept, Flagged

-----------------------------------------------------------------------------
(***************************************************************************)
(* Every step keeps the invariant, and the flags the steps owe.            *)
(***************************************************************************)
LEMMA RosterEditKeeps ==
  ASSUME ConstantsAssumption, GroupsInv, RosterEdit
  PROVE  GroupsInv' /\ FlagsKept
<1>0. Flagged(setup', rows') => FlagsKept
  BY DEF FlagsKept
<1>1. CASE \E e \in Reviewees, t \in Tags \cup {Blank}, m \in Matchings(setup) : UpdateReviewee(e, t, m)
  BY <1>0, <1>1, UpdateRevieweeKeeps
<1>2. CASE \E e \in Reviewees, t \in Tags \cup {Blank}, self \in SUBSET Reviewers : CreateReviewee(e, t, self)
  BY <1>0, <1>2, CreateRevieweeKeeps
<1>3. CASE \E r \in Reviewers, m \in Matchings(setup) : UpdateReviewer(r, m)
  <2> PICK r \in Reviewers, m \in Matchings(setup) : UpdateReviewer(r, m)
    BY <1>3
  <2>1. Redraw(Matched(setup, m), FALSE)
    BY DEF UpdateReviewer
  <2> QED
    BY <1>0, <2>1, RematchKeeps
<1>4. CASE \E r \in Reviewers, self \in SUBSET Reviewees : CreateReviewer(r, self)
  BY <1>4, CreateReviewerKeeps
<1>5. CASE \E m \in Matchings(setup) : RecheckDirectory(m)
  <2> PICK m \in Matchings(setup) : RecheckDirectory(m)
    BY <1>5
  <2>1. Redraw(Matched(setup, m), FALSE)
    BY DEF RecheckDirectory
  <2> QED
    BY <1>0, <2>1, RematchKeeps
<1>6. CASE \E es \in SUBSET Reviewees : DeleteReviewees(es)
  BY <1>0, <1>6, DeleteRevieweesKeeps
<1>7. CASE \E rs \in SUBSET Reviewers : DeleteReviewers(rs)
  BY <1>7, DeleteReviewersKeeps
<1>8. CASE \E es \in SUBSET Reviewees, t \in Tags \cup {Blank}, m \in SUBSET Pairs :
              ReplaceReviewees(es, t, m)
  BY <1>0, <1>8, ReplaceRevieweesKeeps
<1>9. CASE \E es \in SUBSET Reviewees, t \in Tags \cup {Blank}, m \in SUBSET Pairs :
              MergeReviewees(es, t, m)
  BY <1>0, <1>9, MergeRevieweesKeeps
<1>10. CASE \E x \in Reviewers \cup Reviewees : SetStatus(x)
  BY <1>10, SetStatusKeeps
<1> QED
  BY <1>1, <1>2, <1>3, <1>4, <1>5, <1>6, <1>7, <1>8, <1>9, <1>10 DEF RosterEdit

LEMMA InstrumentEditKeeps ==
  ASSUME ConstantsAssumption, GroupsInv, InstrumentEdit
  PROVE  GroupsInv' /\ FlagsKept
<1>0. Flagged(setup', rows') => FlagsKept
  BY DEF FlagsKept
<1>1. CASE \E k \in Kinds : SetUnitOfReview(k)
  <2> PICK k \in Kinds : SetUnitOfReview(k)
    BY <1>1
  <2>1. Redraw([setup EXCEPT !.kind = k], TRUE)
    BY DEF SetUnitOfReview
  <2> QED
    BY <1>0, <2>1, RekindKeeps
<1>2. CASE \E by \in SUBSET {"reviewee", "pair_context"} : SetGroupBoundary(by)
  <2> PICK by \in SUBSET {"reviewee", "pair_context"} : SetGroupBoundary(by)
    BY <1>2
  <2> DEFINE k == [setup.kind EXCEPT !.by = by]
  <2>1. setup.kind.grouped /\ Redraw([setup EXCEPT !.kind = k], TRUE)
    BY Zenon DEF SetGroupBoundary
  <2>2. setup.kind \in Kinds /\ by \in SUBSET Sources
    BY RowsOnRoster, SetupTypes DEF Sources
  <2>3. k \in Kinds
    BY <2>1, <2>2, BoundaryIsKind
  <2> HIDE DEF k
  <2> QED
    BY <1>0, <2>1, <2>3, RekindKeeps
<1>3. CASE \E r \in Rules : SetRule(r)
  BY <1>3, SetRuleKeeps
<1>4. CASE \E b \in BOOLEAN : SetSelfReviewsActive(b)
  BY <1>4, SelfReviewsToggleKeeps
<1>5. CASE \E p \in Pairs, b \in BOOLEAN : BulkSetInclude(p, b)
  BY <1>5, BulkIncludeKeeps
<1>6. CASE DeleteAllResponses
  BY <1>6, DeleteAllResponsesKeeps
<1> QED
  BY <1>1, <1>2, <1>3, <1>4, <1>5, <1>6 DEF InstrumentEdit

(* No edit validates a session.                                            *)
LEMMA EditsValidateNothing ==
  ASSUME RosterEdit \/ RelationshipEdit \/ InstrumentEdit \/ Append
  PROVE  stage' = "draft" \/ stage' = stage
<1>1. \A new, redraws : Redraw(new, redraws) => stage' = "draft"
  BY Zenon DEF Redraw
<1>2. \A tie : RedrawTies(tie) => stage' = "draft"
  BY <1>1, Zenon DEF RedrawTies
<1>3. RosterEdit => stage' = "draft"
  BY <1>1, Zenon DEF RosterEdit, UpdateReviewee, CreateReviewee, UpdateReviewer, CreateReviewer,
     RecheckDirectory, DeleteReviewees, DeleteReviewers, ReplaceReviewees, MergeReviewees, SetStatus
<1>4. RelationshipEdit => stage' = "draft"
  BY <1>2, Zenon DEF RelationshipEdit, CreateRelationship, UpdateRelationship,
     BulkSetRelationshipStatus, DeleteRelationships, DeleteAllRelationships, SaveRelationships
<1>5. InstrumentEdit => stage' = "draft" \/ stage' = stage
  BY <1>1, Zenon DEF InstrumentEdit, SetUnitOfReview, SetGroupBoundary, SetRule,
     SetSelfReviewsActive, BulkSetInclude, DeleteAllResponses
<1>6. Append => stage' = "draft"
  BY Zenon DEF Append, AppendReviewees
<1> QED
  BY <1>3, <1>4, <1>5, <1>6

LEMMA NextKeeps ==
  ASSUME ConstantsAssumption, GroupsInv, Next
  PROVE  GroupsInv' /\ FlagsFollowEdits
<1>0. /\ FlagsKept /\ (stage' = "draft" \/ stage' = stage) => FlagsFollowEdits
      /\ Flagged(setup', rows') => FlagsFollowEdits
      /\ Append /\ (stage' = "draft" \/ stage' = stage) => FlagsFollowEdits
      /\ Flagged(setup', rows') => FlagsKept
  BY DEF FlagsFollowEdits, FlagsKept, FlagsCurrent, Flagged
<1>1. CASE Prepare
  BY <1>0, <1>1, PrepareKeeps
<1>2. CASE Activate
  BY <1>2 DEF Activate, GroupsInv, TypeOK, FlagsFollowEdits, FlagsCurrent
<1>3. CASE Revert
  BY <1>3 DEF Revert, GroupsInv, TypeOK, FlagsFollowEdits, FlagsCurrent
<1>4. CASE RosterEdit
  BY <1>0, <1>4, RosterEditKeeps, EditsValidateNothing
<1>5. CASE Append
  <2>1. GroupsInv'
    BY <1>5, AppendKeeps DEF Append
  <2> QED
    BY <1>0, <1>5, <2>1, EditsValidateNothing
<1>6. CASE RelationshipEdit
  BY <1>0, <1>6, RelationshipEditKeeps
<1>7. CASE InstrumentEdit
  BY <1>0, <1>7, InstrumentEditKeeps, EditsValidateNothing
<1>8. CASE ReviewerStep
  <2>1. stage' = stage
    BY <1>8 DEF ReviewerStep, SaveDraft, Submit, Recall, ClearAll
  <2> QED
    BY <1>0, <1>8, <2>1, ReviewerStepKeeps
<1> QED
  BY <1>1, <1>2, <1>3, <1>4, <1>5, <1>6, <1>7, <1>8 DEF Next, ReviewerStep

LEMMA StutterKeeps ==
  ASSUME GroupsInv, UNCHANGED vars
  PROVE  GroupsInv'
BY DEF GroupsInv, TypeOK, vars

LEMMA InvariantHolds ==
  ASSUME ConstantsAssumption
  PROVE  Spec => []GroupsInv
<1>1. Init => GroupsInv
  BY InitHolds
<1>2. GroupsInv /\ [Next]_vars => GroupsInv'
  BY NextKeeps, StutterKeeps
<1> QED
  BY <1>1, <1>2, PTL DEF Spec

-----------------------------------------------------------------------------
(***************************************************************************)
(* The results.                                                            *)
(***************************************************************************)

(* Of the rows: every assignment row is of two people on the rosters, its  *)
(* cells hold values its fields take, and nobody is matched twice.         *)
THEOREM TypeCorrect == ASSUME ConstantsAssumption PROVE Spec => []TypeOK
<1>1. GroupsInv => TypeOK
  BY DEF GroupsInv
<1> QED
  BY <1>1, InvariantHolds, PTL

(* _apply_upserts and _excluded_group_members: however the groups are      *)
(* redrawn, generated, saved, submitted and recalled, a group's rows hold  *)
(* one answer, in value and in stamp.                                      *)
THEOREM CopiesAlwaysAgree == ASSUME ConstantsAssumption PROVE Spec => []CopiesAgree
<1>1. GroupsInv => CopiesAgree
  BY AgreeIsCopiesAgree DEF GroupsInv
<1> QED
  BY <1>1, InvariantHolds, PTL

(* clear_changed_groups: no edit and no run leaves an answer on a group    *)
(* with a member it was not given about.                                   *)
THEOREM AnswersStayAboutTheirGroup ==
  ASSUME ConstantsAssumption PROVE Spec => []AnswersDescribeTheirGroup
<1>1. GroupsInv => AnswersDescribeTheirGroup
  BY DescribedIsAnswersDescribe DEF GroupsInv
<1> QED
  BY <1>1, InvariantHolds, PTL

(* recompute_self_review_classification: of every step, flags that are     *)
(* right stay right through all but the append of a file, and a session    *)
(* that leaves draft has them right.                                       *)
THEOREM FlagsFollow == ASSUME ConstantsAssumption PROVE Spec => [][FlagsFollowEdits]_vars
<1>1. GroupsInv /\ [Next]_vars => [FlagsFollowEdits]_vars
  BY NextKeeps
<1> QED
  BY <1>1, InvariantHolds, PTL DEF Spec

(* reconcile_impact: of every run of Generate, the answers it takes are    *)
(* the ones the confirmation counted without running it.                   *)
THEOREM OnlyTheShownIsLost == ASSUME ConstantsAssumption PROVE Spec => [][LossIsWhatWasShown]_vars
<1>1. GroupsInv => LossIsWhatWasShown
  BY PrepareLosesWhatWasShown
<1> QED
  BY <1>1, InvariantHolds, PTL DEF Spec
=============================================================================
