------------------------------ MODULE AnswersMC ------------------------------
(***************************************************************************)
(* Three small instances checked in one run: the fields of an instrument   *)
(* and one sheet of answers (InstrumentFields), one reviewer's overlapping *)
(* saves (AnswerTabs), and the answers of groups (GroupAnswers).  They     *)
(* share no state: a behaviour is of the component `which` names, and the  *)
(* other two stay where they are parked.                                   *)
(***************************************************************************)
EXTENDS InstrumentFields, TLC

CONSTANTS
    SharedForm, TabIds, PostBound,                                       \* AnswerTabs
    Reviewers, Reviewees, Tags, Takes, Opens, Rules, Starts, GroupEdits, \* GroupAnswers
    r1, e1, e2, red

VARIABLES
    which,
    row, tx, posts, shared,                 \* AnswerTabs
    stage, setup, rows, groupEdits          \* GroupAnswers

tabVars == <<row, tx, posts, shared>>
groupVars == <<stage, setup, rows, groupEdits>>

-----------------------------------------------------------------------------
(* InstrumentFields: the default form (a required Rating and optional      *)
(* Comments, seeded with orders 1 and 2); a branch inside a branch; a      *)
(* require branch inside a show branch; a require branch beside a required *)
(* field.                                                                  *)
Plain(n) == [ord |-> n, choice |-> TRUE, req |-> TRUE, vis |-> TRUE,
             parent |-> NoField, cond |-> {}, mode |-> "show"]
SeededForm == 1 :> Plain(1) @@ 2 :> [Plain(2) EXCEPT !.choice = FALSE, !.req = FALSE]
NestedForm ==
    1 :> [Plain(0) EXCEPT !.cond = {"a"}]
    @@ 2 :> [Plain(1) EXCEPT !.parent = 1, !.cond = {"a"}, !.req = FALSE]
    @@ 3 :> [Plain(2) EXCEPT !.parent = 2, !.req = FALSE]
RequireInShow == [NestedForm EXCEPT ![2].mode = "require"]
RequireForm ==
    1 :> [Plain(0) EXCEPT !.cond = {"a"}, !.mode = "require"]
    @@ 2 :> [Plain(1) EXCEPT !.parent = 1, !.req = FALSE]
    @@ 3 :> Plain(2)
FormsMC == {SeededForm, NestedForm, RequireInShow, RequireForm}

(* AnswerTabs: two tabs, a required rating whose branch holds one required *)
(* field.                                                                  *)
TabForm == 1 :> [Plain(0) EXCEPT !.cond = {"a"}] @@ 2 :> [Plain(1) EXCEPT !.parent = 1]

(* GroupAnswers: one reviewer, who is also the first reviewee, and one     *)
(* more reviewee; one group of both, a group and the catch-all, and an     *)
(* Individual instrument.                                                  *)
Rated == {r1} \X {e1, e2}
Own == <<r1, e1>>
Everyone == [pairs |-> Rated, excludeSelf |-> FALSE]
RuleSets == {Everyone, [Everyone EXCEPT !.pairs = Rated \ {Own}],
             [Everyone EXCEPT !.excludeSelf = TRUE]}
Start(tagged, k) ==
    [roster |-> {r1, e1, e2}, active |-> {r1, e1, e2},
     tag |-> [e \in {e1, e2} |-> IF e \in tagged THEN red ELSE "blank"],
     tie |-> [p \in Rated |-> [active |-> TRUE, tag |-> red]], same |-> {Own},
     kind |-> k, rule |-> Everyone, selfReviewsActive |-> TRUE]
StartSetups ==
    {Start({e1, e2}, [grouped |-> TRUE, by |-> {"reviewee", "pair_context"}]),
     Start({e1}, [grouped |-> TRUE, by |-> {"reviewee"}]),
     Start({e1}, [grouped |-> FALSE, by |-> {}])}
FieldValues == [parent |-> {"yes", "no"}, governed |-> {"yes"}]

Tabs == INSTANCE AnswerTabs WITH Form <- SharedForm, Tabs <- TabIds, MaxPosts <- PostBound
Groups == INSTANCE GroupAnswers WITH MaxEdits <- GroupEdits, edits <- groupEdits

ASSUME TabsAssumption == Tabs!FormIsWhole
ASSUME GroupsAssumption == Groups!ConstantsAssumption

-----------------------------------------------------------------------------
FieldsParked == fields = << >> /\ sheet = << >> /\ stamped = {} /\ open = FALSE /\ edits = 0 /\ edited = TRUE
TabsParked == row = << >> /\ tx = << >> /\ posts = 0 /\ shared = {}
GroupsParked == stage = "draft" /\ setup = << >> /\ rows = << >> /\ groupEdits = 0

InitAnswers ==
    \/ which = "fields" /\ Init /\ TabsParked /\ GroupsParked
    \/ which = "tabs" /\ FieldsParked /\ Tabs!Init /\ GroupsParked
    \/ which = "groups" /\ FieldsParked /\ TabsParked /\ Groups!Init

InFields(A) == which = "fields" /\ A /\ UNCHANGED <<which, tabVars, groupVars>>
InTabs(A) == which = "tabs" /\ A /\ UNCHANGED <<which, vars, groupVars>>
InGroups(A) == which = "groups" /\ A /\ UNCHANGED <<which, vars, tabVars>>

NextAnswers ==
    \/ InFields(SaveCard) \/ InFields(FieldRoutes)
    \/ InFields(\E post \in Posts : SaveDraft(post)) \/ InFields(\E post \in Posts : Submit(post))
    \/ InFields(Recall) \/ InFields(ClearAll) \/ InFields(Activate) \/ InFields(Revert)
    \/ InFields(DeleteAll)
    \/ \E t \in TabIds :
          \/ InTabs(Tabs!Post(t)) \/ InTabs(Tabs!Flush(t)) \/ InTabs(Tabs!FlushFails(t))
          \/ InTabs(Tabs!Unstamp(t)) \/ InTabs(Tabs!Drop(t)) \/ InTabs(Tabs!Check(t))
          \/ InTabs(Tabs!Stamp(t)) \/ InTabs(Tabs!Commit(t)) \/ InTabs(Tabs!DeadlockVictim(t))
    \/ InGroups(Groups!Prepare) \/ InGroups(Groups!Activate) \/ InGroups(Groups!Revert)
    \/ InGroups(Groups!RosterEdit) \/ InGroups(Groups!Append)
    \/ InGroups(Groups!RelationshipEdit) \/ InGroups(Groups!InstrumentEdit)
    \/ \E p \in Groups!Pairs :
          \/ InGroups(\E post \in Groups!Posts : Groups!SaveDraft(p, post))
          \/ InGroups(\E post \in Groups!Posts : Groups!Submit(p, post))
    \/ \E r \in Reviewers : InGroups(Groups!Recall(r)) \/ InGroups(Groups!ClearAll(r))

allVars == <<which, vars, tabVars, groupVars>>
SpecAnswers == InitAnswers /\ [][NextAnswers]_allVars

-----------------------------------------------------------------------------
(***************************************************************************)
(* The properties of the two INSTANCEs, on their own behaviours.           *)
(***************************************************************************)

(* AnswerTabs: a save that meets no other leaves no answer under a closed  *)
(* branch, whatever overlapping saves left before it.                      *)
AloneCommitsRight ==
    [][which = "tabs" => Tabs!AloneCommitsRight]_allVars

(* GroupAnswers: the rows of one group hold one answer.                    *)
CopiesAgree == which = "groups" => Groups!CopiesAgree

(* GroupAnswers: an answer is about the members its group has now.         *)
AnswersDescribeTheirGroup == which = "groups" => Groups!AnswersDescribeTheirGroup

(* GroupAnswers: the self-review flags follow every edit but the append of *)
(* a file, and Prepare leaves them right.                                  *)
FlagsFollowEdits == [][which = "groups" => Groups!FlagsFollowEdits]_allVars

(* GroupAnswers: what a step of the operator's loses is what the page said *)
(* would be lost.                                                          *)
LossIsWhatWasShown == [][which = "groups" => Groups!LossIsWhatWasShown]_allVars
=============================================================================
