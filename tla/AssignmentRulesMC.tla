-------------------------- MODULE AssignmentRulesMC --------------------------
(* Two reviewers, three reviewees; the first of each is one person.        *)
EXTENDS AssignmentRules

CONSTANTS t1, t2, r1, r2, e1, e2, e3

Interchangeable == Permutations({t1, t2})

Order == <<<<r1, e1>>, <<r1, e2>>, <<r1, e3>>, <<r2, e1>>, <<r2, e2>>, <<r2, e3>>>>
OnePerson == {<<r1, e1>>}
Tags ==
    "reviewer.tag1" :> [p \in Range(Order) |-> IF p[1] = r1 THEN "x" ELSE ""]
    @@ "reviewee.tag1" :> [p \in Range(Order) |-> IF p[2] = e1 THEN "X" ELSE IF p[2] = e2 THEN "" ELSE "y"]
    @@ "pair_context.tag1" :> [p \in Range(Order) |->
            IF p = <<r1, e3>> THEN "x" ELSE IF p[2] = e1 THEN "X" ELSE ""]
LowerCase == "" :> "" @@ "x" :> "x" @@ "X" :> "x" @@ "y" :> "y"
Teams == e1 :> "a" @@ e2 :> "a" @@ e3 :> ""

Cell(field, op, val) == [field |-> field, op |-> op, val |-> val]
Typed ==
    [link1 |-> {<<Cell("reviewer.tag1", "IS", "X")>>,
                <<Cell("reviewer.tag1", "IS", "x"), Cell("reviewer.tag1", "IS EMPTY", "y")>>},
     link2 |-> {<<Cell("reviewee.tag1", "IS THE SAME AS", "reviewer.tag1")>>,
                <<Cell("pair_context.tag1", "IS FILLED", "")>>,
                <<Cell("reviewee.tag1", "IS NOT", "x"), Cell("reviewee.tag1", "IS FILLED", ""),
                  Cell("reviewee.tag1", "IS", "")>>}]

Pred(field, op, val) == [field |-> field, op |-> op, val |-> val, exact |-> FALSE]
Kid(pred) == [kind |-> "MATCH", on |-> TRUE, pred |-> pred]
Comp(id, op, kids) == [id |-> id, kind |-> "COMPOSITE", on |-> TRUE, op |-> op, kids |-> kids]
Plain(id, kind, pred) == [id |-> id, kind |-> kind, on |-> TRUE, pred |-> pred]
Quota(axis, max) == [id |-> axis, kind |-> "QUOTA", on |-> TRUE, axis |-> axis, max |-> max]

Mine == Pred("reviewer.tag1", "equals", "x")
Unlike == Pred("reviewee.tag1", "different_from", "reviewer.tag1")
Filled == Pred("pair_context.tag1", "is_not_empty", Null)
Stored(rules, comb, excl, touched, grouped) ==
    [rules |-> rules, comb |-> comb, set |-> TRUE, excl |-> excl, touched |-> touched, grouped |-> grouped]

\* A settings file whose rules are the card's, or the card's with one oddity.
Odd(kid) == <<Comp("link1", "AND", <<kid, Kid(Mine)>>)>>
FileRules ==
    {<<Comp("link1", "OR", <<Kid(Mine), Kid(Pred("reviewer.tag1", "is_empty", Null))>>),
       Comp("link2", "AND", <<Kid(Unlike)>>)>>,
     <<Comp("link2", "AND", <<Kid(Filled)>>)>>,
     <<Comp("link1", "NOT", <<Kid(Mine)>>)>>,
     <<Plain("link1", "FILTER", Mine)>>,
     <<Comp("link1", "AND", <<Kid(Mine)>>), Plain("own", "MATCH", Unlike)>>,
     <<[Comp("link1", "AND", <<Kid(Mine)>>) EXCEPT !.on = FALSE]>>,
     <<Comp("link1", "AND", <<Kid(Unlike)>>)>>,
     <<Comp("link2", "AND", <<Kid(Pred("pair_context.tag1", "same_as", "reviewer.tag1"))>>)>>,
     Odd([Kid(Mine) EXCEPT !.on = FALSE]), Odd([Kid(Mine) EXCEPT !.kind = "FILTER"]),
     Odd(Kid([Mine EXCEPT !.exact = TRUE, !.val = "X"])), Odd(Kid([Mine EXCEPT !.val = ""]))}
InFiles ==
    {Stored(rules, comb, excl, touched, FALSE) :
        rules \in FileRules, comb \in {"ALL_OF", "ANY_OF"}, excl \in BOOLEAN, touched \in {{"link3"}, Links}}
    \cup {Stored(rules, "ALL_OF", TRUE, Links, TRUE) : rules \in FileRules}

Steps == <<Plain("a", "MATCH", Mine), Plain("b", "FILTER", Pred("reviewee.tag1", "is_empty", Null)),
           Comp("c", "OR", <<Kid(Filled), Kid(Unlike)>>)>>
Old ==
    {Stored(Steps, comb, FALSE, Links, FALSE) : comb \in {"ANY_OF", "PIPELINE"}}
    \cup {Stored(Append(Steps, Quota("PER_REVIEWER", 1)), "PIPELINE", FALSE, {}, FALSE),
          Stored(<<Quota("PER_REVIEWEE", 1), Quota("PER_REVIEWER", 2)>>, "ALL_OF", FALSE, {}, FALSE),
          Stored(<<Plain("b", "FILTER", Filled), Steps[1]>>, "PIPELINE", FALSE, {}, FALSE),
          Stored(<<Comp("link1", "AND", <<Kid(Mine)>>)>>, "ALL_OF", TRUE, Links, FALSE),
          Stored(<<Comp("link1", "AND", <<Kid(Mine)>>)>>, "ALL_OF", FALSE, {}, FALSE),
          Stored(<<Comp("link2", "AND", <<Kid(Pred("pair_context.tag1", "same_as", "reviewer.tag1"))>>)>>,
                 "ALL_OF", FALSE, Links, FALSE)}
=============================================================================
