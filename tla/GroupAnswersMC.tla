--------------------------- MODULE GroupAnswersMC ---------------------------
(* One reviewer, who is also the first reviewee, and one more reviewee.    *)
EXTENDS GroupAnswers

CONSTANTS r1, e1, e2, red

Own == <<r1, e1>>
Everyone == [pairs |-> Pairs, excludeSelf |-> FALSE]
RuleSets == {Everyone, [Everyone EXCEPT !.pairs = Pairs \ {Own}],
             [Everyone EXCEPT !.excludeSelf = TRUE]}

\* One group of both; a group and the catch-all; an Individual instrument.
Start(tagged, k) ==
    [roster |-> Reviewers \cup Reviewees, active |-> Reviewers \cup Reviewees,
     tag |-> [e \in Reviewees |-> IF e \in tagged THEN red ELSE Blank],
     tie |-> [p \in Pairs |-> [active |-> TRUE, tag |-> red]], same |-> {Own},
     kind |-> k, rule |-> Everyone, selfReviewsActive |-> TRUE]
StartSetups ==
    {Start({e1, e2}, [grouped |-> TRUE, by |-> {"reviewee", "pair_context"}]),
     Start({e1}, [grouped |-> TRUE, by |-> {"reviewee"}]),
     Start({e1}, [grouped |-> FALSE, by |-> {}])}

FieldValues == [parent |-> {"yes", "no"}, governed |-> {"yes"}]
=============================================================================
