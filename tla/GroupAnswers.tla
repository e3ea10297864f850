---------------------------- MODULE GroupAnswers ----------------------------
(***************************************************************************)
(* One instrument of one session: the assignment rows Generate writes from *)
(* the rosters, the relationships and the pinned rule, the operator's      *)
(* edits that redraw who is in which group, and the answers reviewers      *)
(* save, submit, recall and clear on the rows.                             *)
(*                                                                         *)
(* A group instrument has one answer per reviewer and group, kept as one   *)
(* copy on every member's row.  The copies, the self-review flags and the  *)
(* include flags are all derived data that every edit must bring along,    *)
(* and the answers must go when the group they are about gains a member.   *)
(*                                                                         *)
(* Every operation holds the session lock from its gate to its commit, so  *)
(* each is one step.  Two tabs of one reviewer hold it together: that is   *)
(* AnswerTabs.                                                           *)
(***************************************************************************)
EXTENDS Integers, FiniteSets, FiniteSetsExt, Functions

CONSTANTS
    Reviewers,      \* reviewer rows, on the roster or not
    Reviewees,      \* reviewee rows, on the roster or not
    Tags,           \* non-blank values of the one tag each boundary source reads
    Takes,          \* [Fields -> the values a field takes]
    Opens,          \* the value of the parent field that opens the branch
    Rules,          \* rule sets: [pairs |-> the pairs kept, excludeSelf |-> BOOLEAN]
    Starts,         \* the setups a run starts from
    MaxEdits        \* bound on the operator's edits

Blank == "blank"        \* no tag; no answer
Bad == "bad"            \* a posted value validate_value refuses
Pairs == Reviewers \X Reviewees

(***************************************************************************)
(* Two visible fields, both required: the parent, and the one governed by  *)
(* its branch, required while the branch is open.                          *)
(***************************************************************************)
Fields == {"parent", "governed"}
NoTie == [active |-> FALSE, tag |-> Blank]
Ties == {NoTie} \cup [active : BOOLEAN, tag : Tags]
Kinds == [grouped : {FALSE}, by : {{}}]
         \cup [grouped : {TRUE}, by : SUBSET {"reviewee", "pair_context"}]

OnRoster(s) == {p \in Pairs : p[1] \in s.roster /\ p[2] \in s.roster}

\* Who is whom: at most one row of each roster at an address, or an account.
Matchings(s) ==
    {m \in SUBSET OnRoster(s) : \A p, q \in m : (p[1] = q[1]) <=> (p[2] = q[2])}

Setups == {s \in [roster : SUBSET (Reviewers \cup Reviewees),  \* the rows that exist
                  active : SUBSET (Reviewers \cup Reviewees),
                  tag : [Reviewees -> Tags \cup {Blank}],
                  tie : [Pairs -> Ties],               \* relationships
                  same : SUBSET Pairs,                 \* pairs that are one person
                  kind : Kinds,                        \* group_kind
                  rule : Rules,
                  selfReviewsActive : BOOLEAN] :
              s.same \in Matchings(s)}

NoAnswer == [value |-> Blank, stamped |-> FALSE]
Cells == [value : Takes["parent"] \cup Takes["governed"], stamped : BOOLEAN] \cup {NoAnswer}
Rows == [include : BOOLEAN, isSelf : BOOLEAN, cell : [Fields -> Cells],
         about : SUBSET Reviewees]

ConstantsAssumption ==
    /\ Reviewers \cap Reviewees = {}
    /\ Opens \in Takes["parent"]
    /\ {Blank, Bad} \cap (Takes["parent"] \cup Takes["governed"] \cup Tags) = {}
    /\ Rules \subseteq [pairs : SUBSET Pairs, excludeSelf : BOOLEAN]
    /\ Starts \subseteq Setups
    /\ MaxEdits \in Nat

VARIABLES
    stage,      \* "draft", "validated" or "ready"
    setup,      \* what the operator edits
    rows,       \* the assignment rows by pair; `about` is history: the
                \* members of the group the reviewer last answered about
    edits       \* operator edits so far

vars == <<stage, setup, rows, edits>>

TypeOK ==
    /\ stage \in {"draft", "validated", "ready"}
    /\ setup \in Setups
    /\ DOMAIN rows \subseteq OnRoster(setup)
    /\ rows \in [DOMAIN rows -> Rows]
    /\ edits \in 0..MaxEdits

Init ==
    /\ stage = "draft"
    /\ setup \in Starts
    /\ rows = << >>
    /\ edits = 0

-----------------------------------------------------------------------------
(* Groups and self-reviews, as a setup `s` draws them. *)

IsActive(s, p) == p[1] \in s.active /\ p[2] \in s.active

\* The boundary's tag values for a pair: reviewee tags off the roster row,
\* pair-context tags off the active relationship.
GroupKey(s, p) ==
    [b \in s.kind.by |->
        IF b = "reviewee" THEN s.tag[p[2]]
        ELSE IF s.tie[p].active THEN s.tie[p].tag ELSE Blank]

IsCatchAll(s, p) == s.kind.by # {} /\ \A b \in s.kind.by : GroupKey(s, p)[b] = Blank

\* The pairs of `dom` in p's group; p alone on an Individual instrument.
GroupOf(s, dom, p) ==
    IF s.kind.grouped
    THEN {q \in dom : q[1] = p[1] /\ GroupKey(s, q) = GroupKey(s, p)}
    ELSE {p}

\* classify_self_review_pairs: membership comes from the roster, not the rows.
Classify(s, p) ==
    IF s.kind.grouped
    THEN \E own \in s.roster \cap Reviewees :
            LET mine == <<p[1], own>>
            IN  /\ mine \in s.same
                /\ ~IsCatchAll(s, mine)
                /\ GroupKey(s, mine) = GroupKey(s, p)
    ELSE p \in s.same

\* A row whose classification flips moves its include with it.
Recompute(s, rs) ==
    [p \in DOMAIN rs |->
        LET self == Classify(s, p)
        IN  IF rs[p].isSelf = self THEN rs[p]
            ELSE [rs[p] EXCEPT
                    !.isSelf = self,
                    !.include = IF self THEN @ /\ s.selfReviewsActive
                                ELSE @ \/ IsActive(s, p)]]

Empty == [f \in Fields |-> NoAnswer]
AnswersIn(rs) == {a \in (DOMAIN rs) \X Fields : rs[a[1]].cell[a[2]] # NoAnswer}
Partition(s, rs) == {GroupOf(s, DOMAIN rs, p) : p \in DOMAIN rs}

\* mutant: a group keeps its answers when one member was in it before
SharesAMember(group, before) == \E g \in before : group \cap g # {}

\* keeps_answer: every member came from one group of `before`.
Keeps(group, before) == \E g \in before : group \subseteq g

\* clear_changed_groups: a group that gained a member loses its answers.
ClearChanged(before, s, rs) ==
    [p \in DOMAIN rs |->
        IF Keeps(GroupOf(s, DOMAIN rs, p), before) THEN rs[p]
        ELSE [rs[p] EXCEPT !.cell = Empty, !.about = {}]]

-----------------------------------------------------------------------------
(* Generate. *)

\* What the diff fans out: the rule over the roster, less the self-reviews
\* (a whole group at a time) when the rule set excludes them.
NewPairs(s) ==
    {p \in s.rule.pairs \cap OnRoster(s) : ~(s.rule.excludeSelf /\ Classify(s, p))}

PairInclude(s, p) == (Classify(s, p) => s.selfReviewsActive) /\ IsActive(s, p)

\* _materialise_one_instrument: kept rows keep their answers, include is
\* written afresh, a row inserted starts unflagged, then the flags and the
\* groups that gained a row are brought along.
Generated(s, rs) ==
    LET new == NewPairs(s)
        written == [p \in new |->
            [include |-> PairInclude(s, p),
             isSelf  |-> p \in DOMAIN rs /\ rs[p].isSelf,
             cell    |-> IF p \in DOMAIN rs THEN rs[p].cell ELSE Empty,
             about   |-> IF p \in DOMAIN rs THEN rs[p].about ELSE {}]]
    IN  IF s.kind.grouped /\ ~(new \subseteq DOMAIN rs)
        THEN ClearChanged(Partition(s, rs), s, Recompute(s, written))
        ELSE Recompute(s, written)

\* reconcile_impact: the answers a run would lose, without running it.
DeletedAnswers(s, rs) == {a \in AnswersIn(rs) : a[1] \notin NewPairs(s)}

\* mutant: the projection reads the groups of the rows kept, not of those to come
ClearsAmongKept(s, rs) ==
    {a \in AnswersIn(rs) : /\ a[1] \in NewPairs(s)
                         /\ ~Keeps(GroupOf(s, DOMAIN rs, a[1]), Partition(s, rs))}
ProjectedGroupClears(s, rs) ==
    IF s.kind.grouped /\ ~(NewPairs(s) \subseteq DOMAIN rs)
    THEN {a \in AnswersIn(rs) : /\ a[1] \in NewPairs(s)
                              /\ ~Keeps(GroupOf(s, NewPairs(s), a[1]), Partition(s, rs))}
    ELSE {}
ResponsesLost(s, rs) == DeletedAnswers(s, rs) \cup ProjectedGroupClears(s, rs)

\* Prepare generates, then validates the session unless the setup has errors.
Prepare ==
    /\ stage \in {"draft", "validated"}
    /\ rows' = Generated(setup, rows)
    /\ stage' \in {"draft", "validated"}
    /\ UNCHANGED <<setup, edits>>

Activate ==
    /\ stage = "validated"
    /\ stage' = "ready"
    /\ UNCHANGED <<setup, rows, edits>>

Revert ==
    /\ stage = "ready"
    /\ stage' = "draft"
    /\ UNCHANGED <<setup, rows, edits>>

-----------------------------------------------------------------------------
(* The operator's edits.  All need an editable session; an edit of what    *)
(* Generate reads takes a validated session back to draft.  An edit that   *)
(* clears answers is refused until the operator acknowledges how many, so  *)
(* the steps below are the acknowledged ones.                              *)

Spend == stage \in {"draft", "validated"} /\ edits < MaxEdits /\ edits' = edits + 1

\* The setup becomes `new`; with `redraws`, the groups that gained a member
\* are cleared; every flag follows.
Redraw(new, redraws) ==
    /\ Spend
    /\ setup' = new
    /\ rows' = Recompute(new, IF redraws THEN ClearChanged(Partition(setup, rows), new, rows)
                              ELSE rows)
    /\ stage' = "draft"

\* Rows leave the roster; their relationships, and the pairs they were, go.
Without(s, xs) ==
    [s EXCEPT !.roster = @ \ xs, !.active = @ \ xs,
              !.tag = [e \in Reviewees |-> IF e \in xs THEN Blank ELSE @[e]],
              !.same = {q \in @ : {q[1], q[2]} \cap xs = {}},
              !.tie = [p \in Pairs |-> IF {p[1], p[2]} \cap xs # {} THEN NoTie ELSE @[p]]]

RowsWithout(rs, xs) == Restrict(rs, {p \in DOMAIN rs : {p[1], p[2]} \cap xs = {}})

\* The people who are on both rosters are now m.
Matched(s, m) == [s EXCEPT !.same = m]

\* Reviewee rows at one tag, from the page or a file; the new ones are active.
Filed(s, es, t) ==
    [s EXCEPT !.roster = @ \cup es, !.active = @ \cup (es \ s.roster),
              !.tag = [e \in Reviewees |-> IF e \in es THEN t ELSE s.tag[e]]]

CreateReviewee(e, t, self) ==
    /\ e \notin setup.roster
    /\ LET new == Matched(Filed(setup, {e}, t), setup.same \cup (self \X {e}))
       IN  new.same \in Matchings(new) /\ Redraw(new, FALSE)

\* An address edit rematches the row; a tag edit can move it.
UpdateReviewee(e, t, m) ==
    /\ e \in setup.roster
    /\ m \in Matchings(setup) /\ \A p \in SymDiff(m, setup.same) : p[2] = e
    /\ m # setup.same \/ t # setup.tag[e]
    /\ Redraw(Matched(Filed(setup, {e}, t), m),
              "reviewee" \in setup.kind.by /\ t # setup.tag[e])

UpdateReviewer(r, m) ==
    /\ m \in Matchings(setup) /\ \A p \in SymDiff(m, setup.same) : p[1] = r
    /\ m # setup.same
    /\ Redraw(Matched(setup, m), FALSE)

\* A new reviewer has no rows to flag.
CreateReviewer(r, self) ==
    /\ Spend
    /\ r \notin setup.roster
    /\ setup' = [setup EXCEPT !.roster = @ \cup {r}, !.active = @ \cup {r},
                              !.same = @ \cup ({r} \X self)]
    /\ setup'.same \in Matchings(setup')
    /\ stage' = "draft"
    /\ UNCHANGED rows

\* directory_recheck: a bound account can join a pair, or part one.
RecheckDirectory(m) ==
    /\ m \in Matchings(setup) /\ m # setup.same
    /\ Redraw(Matched(setup, m), FALSE)

\* mutant: a reviewee's going leaves the flags as they were
DeleteUnflagged(es) ==
    /\ Spend
    /\ es # {} /\ es \subseteq setup.roster
    /\ setup' = Without(setup, es)
    /\ rows' = RowsWithout(rows, es)
    /\ stage' = "draft"

\* bulk_delete cascades the assignments, their answers and the
\* relationships; a reviewee's going can move the flags.
DeleteReviewees(es) ==
    /\ Spend
    /\ es # {} /\ es \subseteq setup.roster
    /\ setup' = Without(setup, es)
    /\ rows' = Recompute(setup', RowsWithout(rows, es))
    /\ stage' = "draft"

DeleteReviewers(rs) ==
    /\ Spend
    /\ rs # {} /\ rs \subseteq setup.roster
    /\ setup' = Without(setup, rs)
    /\ rows' = RowsWithout(rows, rs)
    /\ stage' = "draft"

\* A file replaces the roster (every row is a new one), merges into it, or is
\* appended to it.
ReplaceReviewees(es, t, m) ==
    /\ Spend
    /\ setup' = Matched(Filed(Without(setup, Reviewees), es, t), m)
    /\ m \in Matchings(setup')
    /\ rows' = << >>
    /\ stage' = "draft"

MergeReviewees(es, t, m) ==
    /\ es # {} /\ t # Blank
    /\ LET new == Filed(setup, es, t)
       IN  /\ m \in Matchings(new) /\ \A p \in SymDiff(m, setup.same) : p[2] \in es
           /\ Redraw(Matched(new, m), "reviewee" \in setup.kind.by)

AppendReviewees(es, t, m) ==
    /\ Spend
    /\ es # {} /\ es \cap setup.roster = {}
    /\ setup' = Matched(Filed(setup, es, t), m)
    /\ m \in Matchings(setup') /\ \A p \in SymDiff(m, setup.same) : p[2] \in es
    /\ stage' = "draft"
    /\ UNCHANGED rows

\* The relationship editor and the file of relationships: the pair-context
\* groups follow, and the flags.
RedrawTies(tie) ==
    /\ tie # setup.tie
    /\ Redraw([setup EXCEPT !.tie = tie], "pair_context" \in setup.kind.by)

CreateRelationship(p, t) ==
    /\ p \in OnRoster(setup) /\ setup.tie[p] = NoTie
    /\ RedrawTies([setup.tie EXCEPT ![p] = t])

\* A tag or status edit (q = p), or a re-point: the tags leave p for q.
UpdateRelationship(p, q, t) ==
    /\ setup.tie[p] # NoTie /\ t # NoTie
    /\ q = p \/ (q \in OnRoster(setup) /\ setup.tie[q] = NoTie)
    /\ RedrawTies([setup.tie EXCEPT ![p] = NoTie, ![q] = t])

BulkSetRelationshipStatus(ps, b) ==
    /\ \A p \in ps : setup.tie[p] # NoTie
    /\ RedrawTies([p \in Pairs |-> IF p \in ps THEN [setup.tie[p] EXCEPT !.active = b]
                                   ELSE setup.tie[p]])

DeleteRelationships(ps) ==
    RedrawTies([p \in Pairs |-> IF p \in ps THEN NoTie ELSE setup.tie[p]])

DeleteAllRelationships == RedrawTies([p \in Pairs |-> NoTie])

\* A replace, an append and a merge: any of them, for all the file's pairs
\* at once.
SaveRelationships(ps, t) ==
    /\ ps \subseteq OnRoster(setup)
    /\ \E replaces \in BOOLEAN :
        RedrawTies([p \in Pairs |-> IF p \in ps THEN t
                                    ELSE IF replaces THEN NoTie ELSE setup.tie[p]])

SetGroupBoundary(by) ==
    /\ setup.kind.grouped /\ by # setup.kind.by
    /\ Redraw([setup EXCEPT !.kind.by = by], TRUE)

SetUnitOfReview(k) ==
    /\ k # setup.kind
    /\ Redraw([setup EXCEPT !.kind = k], TRUE)

\* Reviewers and reviewees: the rows stay as they are until the next Prepare.
SetStatus(x) ==
    /\ Spend
    /\ x \in setup.roster
    /\ setup' = [setup EXCEPT !.active = SymDiff(@, {x})]
    /\ stage' = "draft"
    /\ UNCHANGED rows

SetRule(r) ==
    /\ Spend
    /\ r # setup.rule
    /\ setup' = [setup EXCEPT !.rule = r]
    /\ stage' = "draft"
    /\ UNCHANGED rows

\* The toggle and the bulk include leave a validated session validated, and
\* never include a pair with an inactive side.
SetSelfReviewsActive(b) ==
    /\ Spend
    /\ setup' = [setup EXCEPT !.selfReviewsActive = b]
    /\ rows' = [p \in DOMAIN rows |->
                    IF rows[p].isSelf /\ IsActive(setup, p)
                    THEN [rows[p] EXCEPT !.include = b] ELSE rows[p]]
    /\ UNCHANGED stage

BulkSetInclude(p, b) ==
    /\ Spend
    /\ p \in DOMAIN rows
    /\ b => IsActive(setup, p)
    /\ rows' = [rows EXCEPT ![p].include = b]
    /\ UNCHANGED <<stage, setup>>

DeleteAllResponses ==
    /\ Spend
    /\ rows' = [p \in DOMAIN rows |-> [rows[p] EXCEPT !.cell = Empty, !.about = {}]]
    /\ UNCHANGED <<stage, setup>>

-----------------------------------------------------------------------------
(* The reviewer's operations, while the session takes responses. *)

Included(r) == {p \in DOMAIN rows : p[1] = r /\ rows[p].include}
Members(p) == GroupOf(setup, DOMAIN rows, p)

\* mutant: excluded members are left out
WithoutExcludedMembers(r) == Included(r)

\* The reviewer's included rows and the excluded members of their groups.
WithExcludedMembers(r) == UNION {Members(p) : p \in Included(r)}

\* A refused value is not written, nor is the governed one behind it.
Written(post) ==
    IF post["parent"] = Bad THEN {} ELSE {f \in Fields : post[f] # Bad}

\* A blank posted over an answer recalls the row's other answers.
BlanksAnAnswer(p, post) ==
    \E f \in Written(post), m \in Members(p) : post[f] = Blank /\ rows[m].cell[f] # NoAnswer

\* _apply_upserts on every member, then drop_closed_branch_answers.
Applied(p, post) ==
    LET group == Members(p)
        old(m, f) == rows[m].cell[f].value
        changed == {f \in Written(post) : post[f] # Blank
                        /\ \E m \in group : old(m, f) \notin {Blank, post[f]}}
        value(m, f) == IF f \in Written(post) THEN post[f] ELSE old(m, f)
        closed(m) == value(m, "parent") # Opens
        cell(m, f) ==
            IF value(m, f) = Blank \/ (f = "governed" /\ closed(m)) THEN NoAnswer
            ELSE [value |-> value(m, f),
                  stamped |-> rows[m].cell[f].stamped /\ f \notin changed /\ ~BlanksAnAnswer(p, post)]
    IN  [m \in DOMAIN rows |->
            IF m \in group
            THEN [rows[m] EXCEPT !.cell = [f \in Fields |-> cell(m, f)],
                                 !.about = {q[2] : q \in group}]
            ELSE rows[m]]

\* Required fields of a row without an answer: the governed one counts only
\* while its branch is open.
Missing(row) ==
    {f \in Fields : /\ row.cell[f] = NoAnswer
                    /\ f = "parent" \/ row.cell["parent"].value = Opens}

Stamp(rs, ps, b) ==
    [p \in DOMAIN rs |->
        IF p \in ps
        THEN [rs[p] EXCEPT !.cell = [f \in Fields |->
                IF @[f] = NoAnswer THEN NoAnswer ELSE [@[f] EXCEPT !.stamped = b]]]
        ELSE rs[p]]

Posts == {post \in [Fields -> Takes["parent"] \cup Takes["governed"] \cup {Blank, Bad}] :
            \A f \in Fields : post[f] \in Takes[f] \cup {Blank, Bad}}

SaveDraft(p, post) ==
    /\ stage = "ready"
    /\ p \in Included(p[1])
    /\ rows' = Applied(p, post)
    /\ UNCHANGED <<stage, setup, edits>>

\* A refused value or a missing required one blocks the submit, and keeps
\* the drafts.
Submit(p, post) ==
    /\ stage = "ready"
    /\ p \in Included(p[1])
    /\ LET saved == Applied(p, post)
           blocked == \/ \E f \in Fields : post[f] = Bad
                      \/ \E m \in Included(p[1]) : Missing(saved[m]) # {}
       IN  rows' = IF blocked THEN saved ELSE Stamp(saved, WithExcludedMembers(p[1]), TRUE)
    /\ UNCHANGED <<stage, setup, edits>>

Recall(r) ==
    /\ stage = "ready"
    /\ rows' = Stamp(rows, WithExcludedMembers(r), FALSE)
    /\ UNCHANGED <<stage, setup, edits>>

ClearAll(r) ==
    /\ stage = "ready"
    /\ rows' = [p \in DOMAIN rows |->
                    IF p \in WithExcludedMembers(r)
                    THEN [rows[p] EXCEPT !.cell = Empty, !.about = {}] ELSE rows[p]]
    /\ UNCHANGED <<stage, setup, edits>>

-----------------------------------------------------------------------------
RosterEdit ==
    \/ \E e \in Reviewees, t \in Tags \cup {Blank}, m \in Matchings(setup) : UpdateReviewee(e, t, m)
    \/ \E e \in Reviewees, t \in Tags \cup {Blank}, self \in SUBSET Reviewers : CreateReviewee(e, t, self)
    \/ \E r \in Reviewers, m \in Matchings(setup) : UpdateReviewer(r, m)
    \/ \E r \in Reviewers, self \in SUBSET Reviewees : CreateReviewer(r, self)
    \/ \E m \in Matchings(setup) : RecheckDirectory(m)
    \/ \E es \in SUBSET Reviewees : DeleteReviewees(es)
    \/ \E rs \in SUBSET Reviewers : DeleteReviewers(rs)
    \/ \E es \in SUBSET Reviewees, t \in Tags \cup {Blank}, m \in SUBSET Pairs :
            ReplaceReviewees(es, t, m) \/ MergeReviewees(es, t, m)
    \/ \E x \in Reviewers \cup Reviewees : SetStatus(x)

Append == \E es \in SUBSET Reviewees, t \in Tags \cup {Blank}, m \in SUBSET Pairs :
            AppendReviewees(es, t, m)

RelationshipEdit ==
    \/ \E p \in Pairs, t \in Ties \ {NoTie} : CreateRelationship(p, t)
    \/ \E p, q \in Pairs, t \in Ties : UpdateRelationship(p, q, t)
    \/ \E ps \in SUBSET Pairs, b \in BOOLEAN : BulkSetRelationshipStatus(ps, b)
    \/ \E ps \in SUBSET Pairs : DeleteRelationships(ps)
    \/ DeleteAllRelationships
    \/ \E ps \in SUBSET Pairs, t \in Ties \ {NoTie} : SaveRelationships(ps, t)

InstrumentEdit ==
    \/ \E k \in Kinds : SetUnitOfReview(k)
    \/ \E by \in SUBSET {"reviewee", "pair_context"} : SetGroupBoundary(by)
    \/ \E r \in Rules : SetRule(r)
    \/ \E b \in BOOLEAN : SetSelfReviewsActive(b)
    \/ \E p \in Pairs, b \in BOOLEAN : BulkSetInclude(p, b)
    \/ DeleteAllResponses

Next ==
    \/ Prepare \/ Activate \/ Revert
    \/ RosterEdit \/ Append \/ RelationshipEdit \/ InstrumentEdit
    \/ \E p \in Pairs, post \in Posts : SaveDraft(p, post) \/ Submit(p, post)
    \/ \E r \in Reviewers : Recall(r) \/ ClearAll(r)

Spec == Init /\ [][Next]_vars

-----------------------------------------------------------------------------
(* Properties. *)

\* The copies of a group's answers agree, in value and in stamp, on every
\* member's row, the excluded ones included, so reactivating a member or
\* reading another representative shows the same answer: through fan-outs,
\* splits, merges, Generate's inserts and a submit (_excluded_group_members,
\* _apply_upserts).
CopiesAgree ==
    \A p \in DOMAIN rows : \A q \in GroupOf(setup, DOMAIN rows, p) :
        rows[p].cell = rows[q].cell

\* An answer never stands for someone it was not given about: whoever is in
\* the group now was in it when the reviewer last answered
\* (clear_changed_groups, the one rule behind every edit that redraws one).
AnswersDescribeTheirGroup ==
    \A p \in DOMAIN rows :
        rows[p].cell # Empty =>
            {q[2] : q \in GroupOf(setup, DOMAIN rows, p)} \subseteq rows[p].about

FlagsCurrent == \A p \in DOMAIN rows : rows[p].isSelf = Classify(setup, p)

\* Of every step: the stored self-review flags follow every edit that moves what they are
\* read from, in the same transaction and not only at the next Generate, the
\* append of a file apart; a session past Prepare has them right
\* (recompute_self_review_classification, verify_self_review_classification).
FlagsFollowEdits ==
    /\ FlagsCurrent /\ ~Append => FlagsCurrent'
    /\ stage = "draft" /\ stage' # "draft" => FlagsCurrent'

\* spec/assignments.md: every edit trigger recomputes "so the column never
\* drifts", a reviewee added among them.
FlagsNeverDrift == FlagsCurrent

\* Of every step: Prepare deletes exactly the answers the confirmation counted
\* (reconcile_impact against replace_assignments).
LossIsWhatWasShown ==
    Prepare => AnswersIn(rows) \ AnswersIn(rows') = ResponsesLost(setup, rows)
=============================================================================
