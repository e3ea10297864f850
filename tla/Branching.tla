------------------------------ MODULE Branching ------------------------------
(***************************************************************************)
(* Branches between the response fields of one instrument                  *)
(* (app/services/responses/_branching.py, _branch_rule.py).  Everything    *)
(* here is pure: a form F maps field ids to fields, a sheet maps the same  *)
(* ids to the answers of one assignment.                                   *)
(*                                                                         *)
(* A field is [ord, choice, req, vis, parent, cond, mode]: its order       *)
(* number, whether its type can carry a condition (Integer, Decimal and    *)
(* List can, String cannot), the required and visible flags, the field     *)
(* whose branch it sits in, the answers that meet its own condition (none  *)
(* when it has no condition), and what its condition does to the fields    *)
(* below it.  A null branch_mode reads "show".                             *)
(***************************************************************************)
EXTENDS Naturals, FiniteSets

NoField == 0
Blank == "blank"
MaxBranchDepth == 2

ParentsOf(F, S) == {F[j].parent : j \in S \cap DOMAIN F} \ {NoField}

(* The fields F's parents lead to from i, i itself only round a loop: the  *)
(* least set with i's parent and the parents of its own.                   *)
Above(F, i) ==
    {p \in ParentsOf(F, DOMAIN F) : \A S \in SUBSET ParentsOf(F, DOMAIN F) :
        ParentsOf(F, S \cup {i}) \subseteq S => p \in S}

Below(F, i) == {j \in DOMAIN F \ {i} : i \in Above(F, j)}

Governed(F) == {i \in DOMAIN F : F[i].parent # NoField}

(* branch_is_open: an unanswered parent closes its branch.                 *)
Open(F, p, sheet) == sheet[p] \in F[p].cond

(* applicable_field_ids: a field applies while every branch it sits in     *)
(* lets it; a missing parent or a loop closes.                             *)
Applies(F, sheet) ==
    {i \in DOMAIN F :
        LET above == Above(F, i) IN
        /\ above \subseteq DOMAIN F
        /\ \A p \in above : /\ F[p].mode = "require" \/ Open(F, p, sheet)
                            /\ p \notin Above(F, p)}

(* required_field_ids                                                      *)
RequiredFields(F, sheet) ==
    {i \in Applies(F, sheet) :
        LET p == F[i].parent IN
        IF p # NoField /\ F[p].mode = "require"
        THEN F[i].vis /\ Open(F, p, sheet)
        ELSE F[i].req}

(* may_be_required_field_ids                                               *)
MayBeRequired(F) ==
    {i \in DOMAIN F :
        LET p == F[i].parent IN
        IF p \in DOMAIN F /\ F[p].mode = "require" THEN F[i].vis ELSE F[i].req}

(* Fields read in field order, ties by id.                                 *)
Rank(F, i) ==
    Cardinality({j \in DOMAIN F : \/ F[j].ord < F[i].ord
                                  \/ F[j].ord = F[i].ord /\ j < i})

(* branch_structure_errors, as the form having none.                       *)
Whole(F) ==
    /\ \A i \in Governed(F) :
          /\ F[i].parent \in DOMAIN F
          /\ i \notin Above(F, i)
          /\ Cardinality(Above(F, i)) <= MaxBranchDepth
    /\ \A p \in {F[i].parent : i \in Governed(F)} :
          /\ F[p].choice /\ F[p].cond # {}
          /\ LET below == Below(F, p) IN
             {i \in DOMAIN F : Rank(F, i) \in (Rank(F, p) + 1)..(Rank(F, p) + Cardinality(below))}
                = below
    /\ \A i \in DOMAIN F : F[i].cond # {} \/ F[i].mode = "require"
                               => \E j \in DOMAIN F : F[j].parent = i
    /\ \/ \E i \in DOMAIN F : F[i].req /\ F[i].vis /\ F[i].parent = NoField
       \/ \A i \in Governed(F) \cap MayBeRequired(F) : ~F[i].vis

(* hide_below_hidden_parents: a hidden parent hides its whole branch.      *)
HideBelowHidden(F) ==
    [i \in DOMAIN F |->
        [F[i] EXCEPT !.vis = @ /\ \A p \in Above(F, i) \cap DOMAIN F : F[p].vis]]

(* closed_governed_field_ids: the fields that may hold no value.           *)
ClosedGoverned(F, sheet) == Governed(F) \ Applies(F, sheet)

Answered(sheet) == {i \in DOMAIN sheet : sheet[i] # Blank}

(* drop_closed_branch_answers, on one sheet.                               *)
DropClosed(F, sheet) ==
    LET closed == ClosedGoverned(F, sheet)
    IN [i \in DOMAIN sheet |-> IF i \in closed THEN Blank ELSE sheet[i]]

(* The fields a reviewer is shown.                                         *)
Shown(F) == [i \in {j \in DOMAIN F : F[j].vis} |-> F[i]]

(* _compute_missing_required                                               *)
Missing(F, sheet) == RequiredFields(Shown(F), sheet) \ Answered(sheet)

=============================================================================
