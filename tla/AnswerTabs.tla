------------------------------ MODULE AnswerTabs ------------------------------
(***************************************************************************)
(* One reviewer's two browser tabs saving and submitting the same          *)
(* assignment (app/services/responses/_core.py, _branch_rule.py).          *)
(* Reviewers take the session lock shared, so the two transactions run     *)
(* together under READ COMMITTED: a SELECT sees the other tab's rows once  *)
(* they are committed, a write to a row the other has written waits for it.*)
(* The form cannot change meanwhile (operators take the lock exclusively). *)
(* Each pass over the posted fields reads together; a flush writes its     *)
(* rows together.                                                          *)
(***************************************************************************)
EXTENDS Branching, Functions

CONSTANTS
    Form,           \* the fields, all shown
    Answers,
    Tabs,           \* the reviewer's tabs
    MaxPosts        \* bound: posts in a behaviour

FormIsWhole == Whole(Form)

VARIABLES
    row,            \* committed: field -> [val, stamp]; a Blank val is no row
    tx,             \* tab -> its transaction
    posts,          \* posts so far
    shared          \* history: the tabs whose transaction met another's

vars == <<row, tx, posts, shared>>

Fields == DOMAIN Form
NoRow == [val |-> Blank, stamp |-> FALSE]
Rows == {NoRow} \cup [val : Answers, stamp : BOOLEAN]
Idle == [pc |-> "idle", kind |-> "save", post |-> <<>>, read |-> <<>>, wrote |-> <<>>]

Vals(rows) == [f \in DOMAIN rows |-> rows[f].val]
View(t) == [f \in Fields |-> IF f \in DOMAIN tx[t].wrote THEN tx[t].wrote[f] ELSE row[f]]
Held(t) == UNION {DOMAIN tx[u].wrote : u \in Tabs \ {t}}
Busy == {t \in Tabs : tx[t].pc # "idle"}

TypeOK ==
    /\ row \in [Fields -> Rows]
    /\ \A t \in Tabs :
          /\ tx[t].pc \in {"idle", "flush", "unstamp", "drop", "check", "stamp", "commit"}
          /\ tx[t].kind \in {"save", "submit"}
          /\ DOMAIN tx[t].wrote \subseteq Fields
          /\ \A f \in DOMAIN tx[t].wrote : tx[t].wrote[f] \in Rows
    /\ posts \in 0..MaxPosts
    /\ shared \subseteq Tabs

Init ==
    /\ \E sheet \in [Fields -> Answers \cup {Blank}], s \in BOOLEAN :
          /\ Answered(sheet) \subseteq Applies(Form, sheet)
          /\ s => Missing(Form, sheet) = {}
          /\ row = [f \in Fields |-> IF sheet[f] = Blank THEN NoRow
                                     ELSE [val |-> sheet[f], stamp |-> s]]
    /\ tx = [t \in Tabs |-> Idle]
    /\ posts = 0
    /\ shared = {}

(* A tab posts the fields it shows, a draft save or a submit, and          *)
(* _apply_upserts looks at each field's row.                               *)
Post(t) ==
    /\ tx[t].pc = "idle"
    /\ posts < MaxPosts
    /\ posts' = posts + 1
    /\ \E kind \in {"save", "submit"}, post \in [Fields -> Answers \cup {Blank}] :
          tx' = [tx EXCEPT ![t] = [Idle EXCEPT !.pc = "flush", !.kind = kind,
                                               !.post = post, !.read = row]]
    /\ shared' = IF Busy = {} THEN shared \ {t} ELSE shared \cup Busy \cup {t}
    /\ UNCHANGED row

Inserts(t) == {f \in Fields : tx[t].post[f] # Blank /\ tx[t].read[f] = NoRow}
Deletes(t) == {f \in Fields : tx[t].post[f] = Blank /\ tx[t].read[f] # NoRow}
Updates(t) == {f \in Fields \ (Inserts(t) \cup Deletes(t)) : tx[t].post[f] # tx[t].read[f].val}

\* mutant: the closed rows are judged on the answers the posts were read against.
ReadClosedRows(t) == Answered(Vals(View(t))) \cap ClosedGoverned(Form, Vals(tx[t].read))

(* The rows the tab's next statement writes.                               *)
ClosedRows(t) == Answered(Vals(View(t))) \cap ClosedGoverned(Form, Vals(View(t)))
StampedRows(t) == {f \in Fields : View(t)[f].stamp}
Targets(t) ==
    CASE tx[t].pc = "flush" -> Inserts(t) \cup Deletes(t) \cup Updates(t)
      [] tx[t].pc = "unstamp" -> StampedRows(t)
      [] tx[t].pc = "drop" -> ClosedRows(t)
      [] tx[t].pc = "stamp" -> Answered(Vals(View(t)))
      [] OTHER -> {}
Waits(t) == Targets(t) \cap Held(t) # {}

Write(t, rows, next) ==
    /\ ~Waits(t)
    /\ tx' = [tx EXCEPT ![t].pc = next,
                        ![t].wrote = [f \in DOMAIN @ \cup DOMAIN rows |->
                                        IF f \in DOMAIN rows THEN rows[f] ELSE @[f]]]
    /\ UNCHANGED <<row, posts, shared>>

Abort(t) ==
    /\ tx' = [tx EXCEPT ![t] = Idle]
    /\ UNCHANGED <<row, posts, shared>>

(* An insert of a row that has appeared since, or an update of one that    *)
(* has gone, fails the request.                                            *)
Conflict(t) ==
    \/ \E f \in Inserts(t) : View(t)[f] # NoRow
    \/ \E f \in Updates(t) : View(t)[f] = NoRow

(* A changed row loses the stamp it was read with; a row read unstamped    *)
(* keeps whatever is there, as the column is not written.                  *)
Flush(t) ==
    /\ tx[t].pc = "flush"
    /\ ~Conflict(t)
    /\ Write(t, [f \in Targets(t) |->
                    IF f \in Deletes(t) THEN NoRow
                    ELSE [val |-> tx[t].post[f],
                          stamp |-> f \in Updates(t) /\ ~tx[t].read[f].stamp /\ View(t)[f].stamp]],
             IF Deletes(t) = {} THEN "drop" ELSE "unstamp")

FlushFails(t) ==
    /\ tx[t].pc = "flush"
    /\ ~Waits(t)
    /\ Conflict(t)
    /\ Abort(t)

(* Blanking an answer unstamps the assignment's other rows.                *)
Unstamp(t) ==
    /\ tx[t].pc = "unstamp"
    /\ Write(t, [f \in Targets(t) |-> [View(t)[f] EXCEPT !.stamp = FALSE]], "drop")

(* drop_closed_branch_answers, on the rows as this transaction sees them.  *)
Drop(t) ==
    /\ tx[t].pc = "drop"
    /\ Write(t, [f \in ClosedRows(t) |-> NoRow],
             IF tx[t].kind = "save" THEN "commit" ELSE "check")

(* _compute_missing_required: a blocked submit still commits its drafts.   *)
Check(t) ==
    /\ tx[t].pc = "check"
    /\ Write(t, <<>>, IF Missing(Form, Vals(View(t))) = {} THEN "stamp" ELSE "commit")

Stamp(t) ==
    /\ tx[t].pc = "stamp"
    /\ Write(t, [f \in Targets(t) |-> [View(t)[f] EXCEPT !.stamp = TRUE]], "commit")

Commit(t) ==
    /\ tx[t].pc = "commit"
    /\ row' = View(t)
    /\ tx' = [tx EXCEPT ![t] = Idle]
    /\ UNCHANGED <<posts, shared>>

(* Two transactions waiting on each other: the database ends one.          *)
DeadlockVictim(t) ==
    /\ Waits(t)
    /\ \A u \in Tabs \ {t} : Waits(u)
    /\ Abort(t)

Step(t) ==
    \/ Flush(t) \/ FlushFails(t) \/ Unstamp(t) \/ Drop(t)
    \/ Check(t) \/ Stamp(t) \/ Commit(t) \/ DeadlockVictim(t)

Next == \E t \in Tabs : Post(t) \/ Step(t)

Spec == Init /\ [][Next]_vars

-----------------------------------------------------------------------------
(***************************************************************************)
(* Properties                                                              *)
(***************************************************************************)
(* A closed branch holds no value, once every save is committed            *)
(* (_branch_rule.py: every writer of Response rows ends there).            *)
NoClosedAnswers ==
    Answered(Vals(row)) \subseteq Applies(Form, Vals(row))

(* Of every step: whatever two overlapping saves left behind, a later save that meets no  *)
(* other puts right when it commits: no answer sits under a closed branch. *)
AloneCommitsRight ==
    \A t \in Tabs :
        tx[t].pc = "commit" /\ tx'[t].pc = "idle" /\ t \notin shared =>
            NoClosedAnswers'

=============================================================================
