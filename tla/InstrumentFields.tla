--------------------------- MODULE InstrumentFields ---------------------------
(***************************************************************************)
(* The response fields of one instrument and one assignment's answers to   *)
(* them.  Operators edit the fields while setup is open (the instrument    *)
(* card's Save, app/services/instruments/_band2.py, and the per-field      *)
(* routes, _response_fields.py); reviewers answer while responses are open *)
(* (app/services/responses/_core.py).  Saves here do not overlap:          *)
(* AnswerTabs has two at once.                                             *)
(***************************************************************************)
EXTENDS Branching

CONSTANTS
    MaxFields,      \* bound: field ids ever used
    Answers,        \* the values a field accepts
    MaxEdits,       \* bound: operator edits in a behaviour
    Forms           \* the forms a session may start from

FieldIds == 1..MaxFields
Field == [ord : Nat, choice : BOOLEAN, req : BOOLEAN, vis : BOOLEAN,
          parent : FieldIds \cup {NoField}, cond : SUBSET Answers, mode : {"show", "require"}]

ASSUME FieldsAssumption ==
    /\ MaxFields \in Nat /\ MaxEdits \in Nat
    /\ Blank \notin Answers
    /\ \A F \in Forms : DOMAIN F \subseteq FieldIds /\ F \in [DOMAIN F -> Field] /\ Whole(F)

VARIABLES
    fields,         \* the form: field id -> field
    sheet,          \* the assignment's answers: field id -> answer or Blank
    stamped,        \* the answered fields whose Response row has submitted_at
    open,           \* the session accepts responses (its fields are locked)
    edits,          \* operator edits so far
    edited          \* history: the form was edited since a Submit last went through

vars == <<fields, sheet, stamped, open, edits, edited>>

Bad == "bad"                    \* a posted value the field's type refuses

HasResponses(i) == i \in Answered(sheet)

TypeOK ==
    /\ DOMAIN fields \subseteq FieldIds
    /\ fields \in [DOMAIN fields -> Field]
    /\ sheet \in [DOMAIN fields -> Answers \cup {Blank}]
    /\ stamped \subseteq Answered(sheet)
    /\ open \in BOOLEAN
    /\ edits \in 0..MaxEdits
    /\ edited \in BOOLEAN

(***************************************************************************)
(* load_responses: a rehydrated session starts with the file's answers,    *)
(* those behind a closed branch dropped; a new one starts with none.       *)
(***************************************************************************)
LoadedSheet(F, file) == DropClosed(F, file)

Init ==
    /\ fields \in Forms
    /\ \E file \in [DOMAIN fields -> Answers \cup {Blank}] :
          sheet = LoadedSheet(fields, file)
    /\ stamped = {}
    /\ open = FALSE
    /\ edits = 0
    /\ edited = TRUE

(***************************************************************************)
(* The instrument card's Save (set_band2_state, _sync_response_fields_to_  *)
(* db, _apply_branch_rules).  A payload maps the ids it keeps or adds to   *)
(* fields, ordered 0..n-1; stored fields it leaves out are deleted.        *)
(***************************************************************************)
OldParent(i) == IF i \in DOMAIN fields THEN fields[i].parent ELSE NoField
OldChildren(p) == {i \in DOMAIN fields : fields[i].parent = p}
NewChildren(P, p) == {i \in DOMAIN P : P[i].parent = p}

\* mutant: only a branch's own fields lock it, not those of a branch inside.
AnsweredChildren(p) == \E i \in OldChildren(p) : HasResponses(i)

(* Answers anywhere below lock every branch above them.                    *)
AnsweredBelow(p) == \E i \in Below(fields, p) : HasResponses(i)

LocksKept(P) ==
    \A p \in {fields[i].parent : i \in Governed(fields)} :
        AnsweredBelow(p) =>
            /\ OldChildren(p) = NewChildren(P, p)
            /\ p \in DOMAIN P => /\ P[p].cond = fields[p].cond
                                 /\ P[p].mode = fields[p].mode

NoAnswersJoin(P) ==
    \A i \in Governed(P) :
        P[i].parent # OldParent(i) /\ i \in DOMAIN fields
            => ~HasResponses(i) /\ ~AnsweredBelow(i)

(* A parent whose last governed field goes loses its condition; a mode     *)
(* without a condition goes too.                                           *)
ConditionsCleared(P) ==
    [i \in DOMAIN P |->
        IF NewChildren(P, i) # {} THEN P[i]
        ELSE IF OldChildren(i) # {} THEN [P[i] EXCEPT !.cond = {}, !.mode = "show"]
        ELSE IF P[i].cond = {} THEN [P[i] EXCEPT !.mode = "show"]
        ELSE P[i]]

ShapeKept(P) ==
    \A i \in DOMAIN P \cap DOMAIN fields :
        HasResponses(i) => P[i].choice = fields[i].choice

HidesAnswers(P) ==
    \E i \in DOMAIN P \cap DOMAIN fields :
        fields[i].vis /\ ~P[i].vis /\ HasResponses(i)

CardSave(payload, acknowledged) ==
    LET P == HideBelowHidden(payload)
        saved == ConditionsCleared(P)
    IN /\ ~open
       /\ edits < MaxEdits
       /\ ShapeKept(P)
       /\ HidesAnswers(P) => acknowledged
       /\ LocksKept(P)
       /\ NoAnswersJoin(P)
       /\ Whole(saved)
       /\ \A i \in DOMAIN fields \ DOMAIN P : ~HasResponses(i)
       /\ fields' = saved
       /\ sheet' = [i \in DOMAIN P |-> IF i \in DOMAIN fields THEN sheet[i] ELSE Blank]
       /\ edits' = edits + 1
       /\ edited' = TRUE
       /\ UNCHANGED <<stamped, open>>

(* The payloads a card can send, one change at a time: the stored fields   *)
(* in any order; one moved to another place, into a branch or out of one,  *)
(* with a parent's condition and mode set; one field's type and flags set; *)
(* one field left out; one added.                                          *)
NewId == IF DOMAIN fields = {} THEN 1
         ELSE 1 + CHOOSE i \in DOMAIN fields : \A j \in DOMAIN fields : j <= i
Places == 0..(Cardinality(DOMAIN fields) - 1)
InPlaces == [i \in DOMAIN fields |-> [fields[i] EXCEPT !.ord = Rank(fields, i)]]
Moved(i, place) ==
    [j \in DOMAIN fields |->
        LET r == Rank(fields, j)  from == Rank(fields, i) IN
        [fields[j] EXCEPT !.ord =
            IF j = i THEN place
            ELSE IF from < r /\ r <= place THEN r - 1
            ELSE IF place <= r /\ r < from THEN r + 1
            ELSE r]]
FreshField(n) == [ord |-> n, choice |-> TRUE, req |-> TRUE, vis |-> TRUE,
                  parent |-> NoField, cond |-> {}, mode |-> "show"]
Conditions == {{}} \cup {{a} : a \in Answers}

Hung(i, place, p, q, c, m) ==
    [[Moved(i, place) EXCEPT ![i].parent = p] EXCEPT ![q].cond = c, ![q].mode = m]
Typed(i, t, r, v) == [InPlaces EXCEPT ![i].choice = t, ![i].req = r, ![i].vis = v]
Without(i) ==
    [j \in DOMAIN fields \ {i} |->
        [fields[j] EXCEPT !.ord = IF @ > fields[i].ord THEN @ - 1 ELSE @,
                          !.parent = IF @ = i THEN NoField ELSE @]]
Extended(p, r) ==
    [j \in DOMAIN fields \cup {NewId} |->
        IF j = NewId THEN [FreshField(Cardinality(DOMAIN fields)) EXCEPT !.parent = p, !.req = r]
        ELSE InPlaces[j]]

Reordered == {Moved(i, n) : i \in DOMAIN fields, n \in Places}
Rebranched ==
    UNION {{Hung(i, n, p, q, c, m) :
               n \in Places, p \in (DOMAIN fields \ {i}) \cup {NoField},
               q \in DOMAIN fields \ {i}, c \in Conditions, m \in {"show", "require"}} :
           i \in DOMAIN fields}
Retyped == {Typed(i, t, r, v) : i \in DOMAIN fields, t \in BOOLEAN, r \in BOOLEAN, v \in BOOLEAN}
Shortened == {Without(i) : i \in DOMAIN fields}
Lengthened == {Extended(p, r) : p \in DOMAIN fields \cup {NoField}, r \in BOOLEAN}

SaveCard ==
    \E payload \in Reordered \cup Rebranched \cup Retyped \cup Shortened
                     \cup (IF NewId <= MaxFields THEN Lengthened ELSE {}) :
    \E acknowledged \in BOOLEAN :
        CardSave(payload, acknowledged)

(***************************************************************************)
(* The per-field routes.  All but add_response_field refuse a form with a  *)
(* branch (_refuse_if_branched).                                           *)
(***************************************************************************)
\* mutant: the routes edit a form with branches.
NeverBranched == FALSE

Branched == \E i \in DOMAIN fields : fields[i].parent # NoField \/ fields[i].cond # {}

Repacked(F) == [i \in DOMAIN F |-> [F[i] EXCEPT !.ord = Rank(F, i)]]

RouteEdit(F) ==
    /\ ~open
    /\ edits < MaxEdits
    /\ edits' = edits + 1
    /\ fields' = F
    /\ sheet' = [i \in DOMAIN F |-> IF i \in DOMAIN sheet THEN sheet[i] ELSE Blank]
    /\ stamped' = stamped \cap DOMAIN F
    /\ edited' = TRUE
    /\ UNCHANGED open

WithNew(F, new) == [i \in DOMAIN F \cup {NewId} |-> IF i = NewId THEN new ELSE F[i]]

AddField(required) ==
    /\ NewId <= MaxFields
    /\ RouteEdit(Repacked(WithNew(fields,
          [FreshField(Cardinality(DOMAIN fields)) EXCEPT !.req = required])))

(* add_default_response_field: after an anchor, or appended.               *)
AddDefaultField(anchor, required) ==
    LET place == IF anchor = NoField THEN Cardinality(DOMAIN fields)
                                     ELSE fields[anchor].ord + 1
        bumped == [i \in DOMAIN fields |->
            [fields[i] EXCEPT !.ord = IF anchor # NoField /\ @ >= place THEN @ + 1 ELSE @]]
    IN /\ ~Branched
       /\ NewId <= MaxFields
       /\ RouteEdit(WithNew(bumped, [FreshField(place) EXCEPT !.req = required]))

UpdateField(i, required) ==
    /\ ~Branched
    /\ RouteEdit([fields EXCEPT ![i].req = required])

DeleteField(i, confirm) ==
    /\ ~Branched
    /\ HasResponses(i) => confirm
    /\ RouteEdit(Repacked([j \in DOMAIN fields \ {i} |-> fields[j]]))

MoveField(i, j) ==
    /\ ~Branched
    /\ Rank(fields, j) = Rank(fields, i) + 1
    /\ RouteEdit([Repacked(fields) EXCEPT ![i].ord = Rank(fields, j),
                                          ![j].ord = Rank(fields, i)])

(***************************************************************************)
(* The reviewer.  A post maps the fields shown to a value, Blank or a      *)
(* value the field refuses; posting what is stored changes nothing.        *)
(***************************************************************************)
Posts == [DOMAIN Shown(fields) -> Answers \cup {Blank, Bad}]

Refused(post) == {i \in DOMAIN post : post[i] = Bad}

(* _split_validated, _hold_answers_behind_refused_parents: a refused value *)
(* is left out, and so is an answer anywhere behind it.                    *)
Kept(post) ==
    LET refused == Refused(post)
        form == Shown(fields)
    IN {i \in DOMAIN post \ refused : Above(form, i) \cap refused = {}}

Written(post) ==
    LET kept == Kept(post)
    IN [i \in DOMAIN sheet |-> IF i \in kept THEN post[i] ELSE sheet[i]]

\* mutant: blanking an answer leaves the other rows' stamps.
BlankKeepsStamps(post) == stamped \ {i \in Kept(post) : post[i] # sheet[i]}

(* _apply_upserts: a changed value loses its stamp, a blanked one takes    *)
(* every stamp on the assignment with it.                                  *)
StampsLeft(post) ==
    IF \E i \in Kept(post) : post[i] = Blank /\ sheet[i] # Blank THEN {}
    ELSE stamped \ {i \in Kept(post) : post[i] # sheet[i]}

(* save_draft: write, then empty the branches the answers left closed.     *)
Saved(post) ==
    IF Kept(post) = {} THEN sheet ELSE DropClosed(fields, Written(post))

SaveDraft(post) ==
    /\ open
    /\ sheet' = Saved(post)
    /\ stamped' = StampsLeft(post) \cap Answered(sheet')
    /\ UNCHANGED <<fields, open, edits, edited>>

(* submit: the drafts are kept either way; the rows are stamped only when  *)
(* no value was refused and nothing required is missing.                   *)
Submit(post) ==
    /\ open
    /\ sheet' = Saved(post)
    /\ IF Kept(post) = DOMAIN post /\ Missing(fields, sheet') = {}
       THEN stamped' = Answered(sheet') /\ edited' = FALSE
       ELSE stamped' = StampsLeft(post) \cap Answered(sheet') /\ UNCHANGED edited
    /\ UNCHANGED <<fields, open, edits>>

Recall ==
    /\ open
    /\ stamped' = {}
    /\ UNCHANGED <<fields, sheet, open, edits, edited>>

ClearAll ==
    /\ open
    /\ sheet' = [i \in DOMAIN sheet |-> Blank]
    /\ stamped' = {}
    /\ UNCHANGED <<fields, open, edits, edited>>

(***************************************************************************)
(* The session: activation and a revert to setup, and the operator's       *)
(* delete_all_for_session, refused while responses are open.               *)
(***************************************************************************)
Activate == ~open /\ open' = TRUE /\ UNCHANGED <<fields, sheet, stamped, edits, edited>>
Revert == open /\ open' = FALSE /\ UNCHANGED <<fields, sheet, stamped, edits, edited>>

DeleteAll ==
    /\ ~open
    /\ sheet' = [i \in DOMAIN sheet |-> Blank]
    /\ stamped' = {}
    /\ UNCHANGED <<fields, open, edits, edited>>

FieldRoutes ==
    \/ \E r \in BOOLEAN : AddField(r)
    \/ \E a \in DOMAIN fields \cup {NoField}, r \in BOOLEAN : AddDefaultField(a, r)
    \/ \E i \in DOMAIN fields, r \in BOOLEAN : UpdateField(i, r)
    \/ \E i \in DOMAIN fields, c \in BOOLEAN : DeleteField(i, c)
    \/ \E i, j \in DOMAIN fields : MoveField(i, j)

Next ==
    \/ SaveCard
    \/ FieldRoutes
    \/ \E post \in Posts : SaveDraft(post)
    \/ \E post \in Posts : Submit(post)
    \/ Recall
    \/ ClearAll
    \/ Activate
    \/ Revert
    \/ DeleteAll

Spec == Init /\ [][Next]_vars

-----------------------------------------------------------------------------
(***************************************************************************)
(* Properties                                                              *)
(***************************************************************************)
(* A closed branch holds no value: whatever sequence of card saves, field  *)
(* routes, drafts and submits came before, no stored answer sits under a   *)
(* condition the answers above it do not meet (_branch_rule.py's rule,     *)
(* which the operator's locks must not undermine).                         *)
ClosedBranchesHoldNothing ==
    Answered(sheet) \subseteq Applies(fields, sheet)

(* A sheet whose every row is stamped answers everything its form requires *)
(* of it, unless the operator has edited the form since that Submit: no    *)
(* draft, blanking or branch opening leaves a full set of stamps on an     *)
(* incomplete sheet.                                                       *)
StampedSheetsAreComplete ==
    stamped # {} /\ stamped = Answered(sheet) /\ ~edited
        => Missing(fields, sheet) = {}

(* No edit of the form takes an answer away or makes it stop counting: an  *)
(* answer leaves only with its own field's confirmed deletion (and then    *)
(* from a form without branches), never through the card.                  *)
EditsKeepAnswers ==
    [][fields' # fields =>
         /\ \A i \in DOMAIN sheet \cap DOMAIN sheet' : sheet'[i] = sheet[i]
         /\ Cardinality(Answered(sheet)) - Cardinality(Answered(sheet')) \in {0, 1}
         /\ Governed(fields) # {} => Answered(sheet') = Answered(sheet)]_vars

=============================================================================
