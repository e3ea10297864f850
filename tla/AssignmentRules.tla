--------------------------- MODULE AssignmentRules ---------------------------
(***************************************************************************)
(* One instrument's assignment rule in its three forms: the cells and      *)
(* pills of its card (Band 1) on an operator's page, the rules_json its    *)
(* rule set stores, and the pairs the rule engine keeps of the rosters.    *)
(*                                                                         *)
(* A Save posts the whole card and locks the session; the instrument row   *)
(* it compares with was read before the lock (the lock re-reads the        *)
(* session row alone), its rule set after it.  A settings file writes the  *)
(* stored form directly.  Answers, groups and the lifecycle gate are in    *)
(* GroupAnswers and SessionLifecycle.                                      *)
(***************************************************************************)
EXTENDS Integers, FiniteSets, SequencesExt

CONSTANTS
    Tabs,           \* pages of this card open at once
    PairOrder,      \* the candidate pairs <<reviewer, reviewee>>, by email
    Same,           \* the pairs of one person
    Tag,            \* field -> pair -> value, "" for none
    Lower,          \* value -> its lower case
    Team,           \* reviewee -> value of the boundary tag, "" for none
    CellLists,      \* link -> lists of cells an operator may type
    Files,          \* instruments, with their rule set, a settings file may hold
    Legacy,         \* instruments stored before the card's present limits
    MaxEdits        \* bound on the card edits and imports

ASSUME BoundsAssumption == MaxEdits \in Nat /\ PairOrder \in Seq(Range(PairOrder))

Links == {"link1", "link2", "link3"}
Null == "null"                              \* a predicate without operand
Pairs == Range(PairOrder)

\* FIELD_MAP: the population a field reads.
Side == [f \in {"reviewer.tag1", "reviewee.tag1", "pair_context.tag1"} |->
            CASE f = "reviewer.tag1" -> "reviewer"
              [] f = "reviewee.tag1" -> "reviewee"
              [] f = "pair_context.tag1" -> "pair_context"]
PairFields == {f \in DOMAIN Side : Side[f] = "pair_context"}

VARIABLES
    inst,       \* the stored instrument and its rule set
    pages,      \* tab -> the card as the page shows it
    request,    \* tab -> the Save under way: the posted form, the row it read
    overtaken,  \* history: a Save landed on a row another Save had changed
    edits

vars == <<inst, pages, request, overtaken, edits>>

NoPage == [at |-> "closed"]
NoRequest == [at |-> "none"]

-----------------------------------------------------------------------------
(* The engine. *)

Norm(value, exact) == IF exact THEN value ELSE Lower[value]

\* Every operator reads "" as no value.
Holds(pred, p) ==
    LET v == Norm(Tag[pred.field][p], pred.exact)
        equals == pred.val # "" /\ v = Norm(pred.val, pred.exact)
        same == v = Norm(Tag[pred.val][p], pred.exact)
    IN  CASE pred.op = "equals" -> equals
          [] pred.op = "not_equals" -> ~equals
          [] pred.op = "is_empty" -> v = ""
          [] pred.op = "is_not_empty" -> v # ""
          [] pred.op = "same_as" -> same
          [] pred.op = "different_from" -> ~same

\* The elements of seq at the positions in keep, in their order.
Picked(seq, keep) ==
    [n \in 1..Cardinality(keep) |->
        seq[CHOOSE k \in keep : Cardinality({j \in keep : j < k}) = n - 1]]

\* _enabled_rule: a Composite left with no enabled child reads as disabled.
EnabledKids(rule) == {k \in Range(rule.kids) : k.on}
Enabled(rule) == rule.on /\ (rule.kind = "COMPOSITE" => EnabledKids(rule) # {})

Matches(rule, p) ==
    IF rule.kind # "COMPOSITE" THEN Holds(rule.pred, p)
    ELSE LET held == {Holds(k.pred, p) : k \in EnabledKids(rule)}
         IN  CASE rule.op = "AND" -> FALSE \notin held
               [] rule.op = "OR" -> TRUE \in held
               [] rule.op = "NOT" -> FALSE \in held

\* FILTER drops what it matches, the others keep it.
Includes(rule, p) == (rule.kind = "FILTER") # Matches(rule, p)

\* mutant: a later MATCH keeps no pair an earlier FILTER removed.
PipelineNarrows(working, rule) == {p \in working : Includes(rule, p)}

PipelineStep(working, rule) ==
    LET matched == {p \in Pairs : Matches(rule, p)}
    IN  IF rule.kind = "FILTER" THEN working \ matched ELSE working \cup matched

Content(rules, comb) ==
    CASE rules = << >> -> Pairs
      [] rules # << >> /\ comb = "ALL_OF" -> {p \in Pairs : \A r \in Range(rules) : Includes(r, p)}
      [] rules # << >> /\ comb = "ANY_OF" -> {p \in Pairs : \E r \in Range(rules) : Includes(r, p)}
      [] rules # << >> /\ comb = "PIPELINE" -> FoldLeft(PipelineStep, Pairs, rules)

Axis(quota, p) == IF quota.axis = "PER_REVIEWER" THEN p[1] ELSE p[2]

Place(p) == CHOOSE k \in DOMAIN PairOrder : PairOrder[k] = p

\* ROUND_ROBIN: the first pairs of each axis key, in email order.
Capped(survivors, quota) ==
    {p \in survivors :
        Cardinality({q \in survivors : Axis(quota, q) = Axis(quota, p) /\ Place(q) < Place(p)}) < quota.max}

EnabledAt(rules) == {k \in DOMAIN rules : Enabled(rules[k])}
ContentRules(rules) == Picked(rules, {k \in EnabledAt(rules) : rules[k].kind # "QUOTA"})
Quotas(rules) == Picked(rules, {k \in EnabledAt(rules) : rules[k].kind = "QUOTA"})

\* evaluate: content rules under the combinator, then the quotas in turn.
Evaluate(rules, comb) == FoldLeft(Capped, Content(ContentRules(rules), comb), Quotas(rules))

\* A group is a reviewer's own by the roster, whatever pairs survived; the
\* catch-all group is nobody's.
OwnTeams(reviewer) == {Team[p[2]] : p \in {q \in Same : q[1] = reviewer}} \ {""}
IsSelf(grouped, p) == IF grouped THEN Team[p[2]] \in OwnTeams(p[1]) ELSE p \in Same

\* mutant: the exclusion at the engine's desugar stage, a pair at a time.
KeptDesugared(i) ==
    {p \in Evaluate(i.rules, i.comb) : ~(i.excl /\ p \in Same)}

Kept(i) ==
    {p \in Evaluate(i.rules, i.comb) : ~(i.excl /\ IsSelf(i.grouped, p))}

-----------------------------------------------------------------------------
(* What a rule list may hold. *)

EngineOp == [l \in {"IS", "IS NOT", "IS THE SAME AS", "IS DIFFERENT FROM", "IS FILLED", "IS EMPTY"} |->
    CASE l = "IS" -> "equals"
      [] l = "IS NOT" -> "not_equals"
      [] l = "IS THE SAME AS" -> "same_as"
      [] l = "IS DIFFERENT FROM" -> "different_from"
      [] l = "IS FILLED" -> "is_not_empty"
      [] l = "IS EMPTY" -> "is_empty"]
TagOps == {"same_as", "different_from"}
NoOperandOps == {"is_not_empty", "is_empty"}
CardOps == [link1 |-> {"equals", "not_equals"} \cup NoOperandOps, link2 |-> Range(EngineOp)]

Predicates(rules, link) ==
    {k.pred : k \in UNION {Range(r.kids) : r \in {r \in Range(rules) : r.id = link /\ r.kind = "COMPOSITE"}}}

\* unoffered_pair_rule: a relationship tag is a Link 2 field, beside a value only.
Unoffered(rules) ==
    \/ \E pred \in Predicates(rules, "link1") : pred.field \in PairFields
    \/ \E pred \in Predicates(rules, "link1") \cup Predicates(rules, "link2") :
          pred.op \in TagOps /\ {pred.field, pred.val} \cap PairFields # {}

BadPredicate(pred) ==
    \/ pred.field \notin DOMAIN Side
    \/ pred.op \in NoOperandOps /\ pred.val # Null
    \/ pred.op \in TagOps /\ (pred.val \notin DOMAIN Side \/ Side[pred.val] = Side[pred.field])
    \/ pred.op \in {"equals", "not_equals"} /\ pred.val = Null

\* rules_payload_error: what the engine's schema refuses on read.
PayloadError(rules) ==
    \/ \E r \in Range(rules) : CASE r.kind = "COMPOSITE" -> r.kids = << >> \/ \E k \in Range(r.kids) : BadPredicate(k.pred)
                                 [] r.kind \in {"MATCH", "FILTER"} -> BadPredicate(r.pred)
                                 [] OTHER -> FALSE
    \/ \E i, j \in DOMAIN rules : i # j /\ rules[i].id = rules[j].id

\* unrepresented_rule: what the card would hide, or show as something else.
Represented(rules) ==
    \A r \in Range(rules) :
        /\ r.id \in {"link1", "link2"} /\ r.kind = "COMPOSITE" /\ r.on /\ r.op \in {"AND", "OR"}
        /\ \A k \in Range(r.kids) :
              /\ k.kind = "MATCH" /\ k.on /\ ~k.pred.exact
              /\ k.pred.op \in CardOps[r.id]
              /\ k.pred.op \in NoOperandOps \/ k.pred.val \notin {"", Null}

KeepsPairs(rules) ==
    \E r \in Range(rules) :
        /\ r.id = "link2" /\ r.kind = "COMPOSITE" /\ r.on
        /\ \E k \in Range(r.kids) :
              k.on /\ k.pred.op \in {"equals", "is_not_empty"} /\ k.pred.field \in PairFields

\* The shape the engine's schema reads; a quota without a maximum has one no
\* axis reaches.
AreRules(rules) ==
    /\ rules \in Seq(Range(rules))
    /\ \A r \in Range(rules) : r.kind = "QUOTA" => r.max \in Nat
    /\ \A r \in Range(rules) : r.kind = "COMPOSITE" =>
          /\ r.kids \in Seq(Range(r.kids))
          /\ \A k \in Range(r.kids) :
                /\ k.pred = [field |-> k.pred.field, op |-> k.pred.op,
                             exact |-> k.pred.exact, val |-> k.pred.val]
                /\ k.pred.exact \in BOOLEAN

IsStored(i) ==
    /\ AreRules(i.rules) /\ i.comb \in {"ALL_OF", "ANY_OF", "PIPELINE"}
    /\ i.touched \subseteq Links /\ {i.set, i.excl, i.grouped} \subseteq BOOLEAN

ASSUME StoredAssumption == \A i \in Legacy \cup Files : IsStored(i)

\* What older versions stored still keeps these limits.
ASSUME LegacyAssumption ==
    \A i \in Legacy : /\ i.set /\ ~(i.grouped /\ KeepsPairs(i.rules)) /\ (i.excl => i.touched = Links)
                      /\ ~PayloadError(i.rules)

\* An exclusion is a column of the rule set, so a file without one has none.
ASSUME FilesAssumption == \A f \in Files : ~f.set => f.rules = << >> /\ ~f.excl

-----------------------------------------------------------------------------
(* The card: cells and pills to rule list, and back. *)

\* _build_match_rule: a cell without what its operator needs stores nothing.
Blank(cell) == cell.field = "" \/ (EngineOp[cell.op] \notin NoOperandOps /\ cell.val = "")

MatchRule(cell) ==
    LET op == EngineOp[cell.op]
    IN  [kind |-> "MATCH", on |-> TRUE,
         pred |-> [field |-> cell.field, op |-> op, exact |-> FALSE,
                   val |-> IF op \in NoOperandOps THEN Null ELSE cell.val]]

Kids(link) ==
    LET cells == Picked(link.cells, {k \in DOMAIN link.cells : ~Blank(link.cells[k])})
    IN  IF link.pill = "filter" THEN [k \in DOMAIN cells |-> MatchRule(cells[k])] ELSE << >>

Composite(id, link) ==
    [id |-> id, kind |-> "COMPOSITE", on |-> TRUE, op |-> link.comb, kids |-> Kids(link)]

\* _build_rules_json: a Link that filters by nothing stores nothing.
BuildRules(form) ==
    LET rule(id) == IF Kids(form[id]) # << >> THEN <<Composite(id, form[id])>> ELSE << >>
    IN  rule("link1") \o rule("link2")

Touched(form) == {l \in Links : form[l].pill # "not set"}
Grouped(form) == form.link3.pill = "group"

\* A cell the template draws; a Link 1 cell has no tag box.
ShownCell(id, pred) ==
    LET offered == CardOps[id]
    IN  [field |-> pred.field,
         op |-> IF pred.op \in offered THEN CHOOSE l \in DOMAIN EngineOp : EngineOp[l] = pred.op ELSE "IS",
         val |-> IF pred.val = Null \/ (pred.op \in TagOps /\ pred.op \notin offered) THEN "" ELSE pred.val]

DefaultCell == [field |-> "", op |-> "IS", val |-> ""]

\* _shown_composites: where they stand.
ShownAt(rules, id) ==
    {k \in DOMAIN rules : rules[k].id = id /\ rules[k].kind = "COMPOSITE" /\ Enabled(rules[k])}
ShownLinks(rules) == {l \in {"link1", "link2"} : ShownAt(rules, l) # {}}

\* decode_band1_state, and the pill an untouched Link shows over its rules.
ShownLink(i, id) ==
    LET at == ShownAt(i.rules, id)
        rule == i.rules[Max(at)]
        kids == Picked(rule.kids, {k \in DOMAIN rule.kids : rule.kids[k].on /\ rule.kids[k].kind = "MATCH"})
    IN  [pill |-> CASE id \notin i.touched -> "not set"
                    [] id \in i.touched /\ at = {} -> "all"
                    [] id \in i.touched /\ at # {} -> "filter",
         comb |-> IF at # {} /\ rule.op = "OR" THEN "OR" ELSE "AND",
         cells |-> IF at = {} \/ kids = << >> THEN <<DefaultCell>>
                   ELSE [k \in DOMAIN kids |-> ShownCell(id, kids[k].pred)]]

ShownCard(i) ==
    [at |-> "open", link1 |-> ShownLink(i, "link1"), link2 |-> ShownLink(i, "link2"),
     link3 |-> [pill |-> IF "link3" \notin i.touched THEN "not set"
                         ELSE IF i.grouped THEN "group" ELSE "individual"],
     tick |-> i.excl]

\* A Save that records pills records those of the Links it stores.
ASSUME RecordedAssumption ==
    \A i \in Legacy : i.touched # {} /\ Represented(i.rules) => ShownLinks(i.rules) \subseteq i.touched

Next3 == [p \in {"not set", "all", "filter"} |->
             CASE p = "not set" -> "all" [] p = "all" -> "filter" [] p = "filter" -> "not set"]

FormKeepsPairs(form) ==
    /\ form.link2.pill = "filter"
    /\ \E c \in Range(form.link2.cells) : c.field \in PairFields /\ c.op \in {"IS", "IS FILLED"}

\* Group is skipped while Link 2 keeps pairs one by one.
NextUnit(form) ==
    CASE form.link3.pill = "not set" -> "individual"
      [] form.link3.pill = "individual" -> IF FormKeepsPairs(form) THEN "not set" ELSE "group"
      [] form.link3.pill = "group" -> "not set"

\* newModelSyncSelfReviewBlock: what it hides it clears.
Synced(form) == [form EXCEPT !.tick = @ /\ Touched(form) = Links]

Editing(t) == pages[t].at = "open" /\ request[t] = NoRequest /\ edits < MaxEdits

Edited(t, form) ==
    /\ pages' = [pages EXCEPT ![t] = form]
    /\ edits' = edits + 1
    /\ UNCHANGED <<inst, request, overtaken>>

OpenPage(t) ==
    /\ request[t] = NoRequest
    /\ pages' = [pages EXCEPT ![t] = ShownCard(inst)]
    /\ UNCHANGED <<inst, request, overtaken, edits>>

CyclePill(t, l) ==
    /\ Editing(t)
    /\ Edited(t, Synced([pages[t] EXCEPT ![l].pill = Next3[@]]))

\* newModelToggleUnitMode: a move to Group clears the tick.
CycleUnit(t) ==
    /\ Editing(t)
    /\ LET unit == NextUnit(pages[t])
       IN  Edited(t, Synced([pages[t] EXCEPT !.link3.pill = unit, !.tick = @ /\ unit # "group"]))

TypeCells(t, l) ==
    /\ Editing(t) /\ pages[t][l].pill = "filter"
    /\ \E cells \in CellLists[l] : Edited(t, [pages[t] EXCEPT ![l].cells = cells])

ToggleCombinator(t, l) ==
    /\ Editing(t) /\ pages[t][l].pill = "filter"
    /\ Edited(t, [pages[t] EXCEPT ![l].comb = IF @ = "AND" THEN "OR" ELSE "AND"])

ToggleTick(t) ==
    /\ Editing(t) /\ Touched(pages[t]) = Links
    /\ Edited(t, [pages[t] EXCEPT !.tick = ~@])

-----------------------------------------------------------------------------
(* The Save. *)

\* What of the instrument is read before the lock.
Row(i) == [touched |-> i.touched, grouped |-> i.grouped, set |-> i.set]

Send(t) ==
    /\ pages[t].at = "open" /\ request[t] = NoRequest
    /\ request' = [request EXCEPT ![t] = [at |-> "posted", form |-> pages[t], row |-> Row(inst)]]
    /\ UNCHANGED <<inst, pages, overtaken, edits>>

\* mutant: only the client keeps Group from a rule that keeps pairs.
RefusedUngrouped(form) ==
    Unoffered(BuildRules(form)) \/ PayloadError(BuildRules(form))

\* set_band1_assignment_rules.
RefusedForm(form) ==
    \/ Unoffered(BuildRules(form))
    \/ PayloadError(BuildRules(form))
    \/ Grouped(form) /\ KeepsPairs(BuildRules(form))

\* resolve_exclude_self_reviews.
Exclusion(form, row) ==
    form.tick /\ Touched(form) = Links /\ ~(Grouped(form) /\ ~row.grouped)

\* A column of the row is written only where it differs from what was read;
\* the rule set is materialized by the first rule or the first exclusion.
SaveStores(i, form, row) ==
    LET built == BuildRules(form)
        value == Exclusion(form, row)
        writes == row.set \/ built # << >> \/ value
    IN  [rules |-> IF writes THEN built ELSE i.rules,
         comb |-> IF writes /\ ~row.set THEN "ALL_OF" ELSE i.comb,
         set |-> i.set \/ writes,
         excl |-> IF writes THEN value ELSE i.excl,
         touched |-> IF Touched(form) = row.touched THEN i.touched ELSE Touched(form),
         grouped |-> IF Grouped(form) = row.grouped THEN i.grouped ELSE Grouped(form)]

Save(t) ==
    /\ request[t] # NoRequest
    /\ ~RefusedForm(request[t].form)
    /\ inst' = SaveStores(inst, request[t].form, request[t].row)
    /\ overtaken' = (overtaken \/ request[t].row # Row(inst))
    /\ request' = [request EXCEPT ![t] = NoRequest]
    /\ UNCHANGED <<pages, edits>>

RefuseSave(t) ==
    /\ request[t] # NoRequest
    /\ RefusedForm(request[t].form)
    /\ request' = [request EXCEPT ![t] = NoRequest]
    /\ UNCHANGED <<inst, pages, overtaken, edits>>

-----------------------------------------------------------------------------
(* The settings file. *)

Accepted(f) ==
    /\ ~Unoffered(f.rules) /\ ~PayloadError(f.rules)
    /\ f.comb = "ALL_OF" /\ Represented(f.rules)
    /\ ~(f.grouped /\ KeepsPairs(f.rules))

\* mutant: the exclusion is stored as filed, whatever the card will show.
ImportedAsFiled(f) ==
    LET touched == f.touched \cup ShownLinks(f.rules)
    IN  [rules |-> f.rules, comb |-> f.comb, set |-> f.set, grouped |-> f.grouped,
         touched |-> touched, excl |-> f.excl]

\* mutant: a Link with rules stays Not set unless the file says otherwise.
ImportedUntouched(f) ==
    [rules |-> f.rules, comb |-> f.comb, set |-> f.set, grouped |-> f.grouped,
     touched |-> f.touched, excl |-> f.excl /\ f.touched = Links]

\* _touched_with_rules, then clear_unsettled_exclude_self_reviews.
Imported(f) ==
    LET touched == f.touched \cup ShownLinks(f.rules)
    IN  [rules |-> f.rules, comb |-> f.comb, set |-> f.set, grouped |-> f.grouped,
         touched |-> touched, excl |-> f.excl /\ touched = Links]

\* The instruments are replaced: pages and Saves of the old one answer 404.
ImportFile ==
    /\ edits < MaxEdits
    /\ \E f \in Files : Accepted(f) /\ inst' = Imported(f)
    /\ pages' = [t \in Tabs |-> NoPage]
    /\ request' = [t \in Tabs |-> NoRequest]
    /\ overtaken' = FALSE
    /\ edits' = edits + 1

-----------------------------------------------------------------------------

NewInstrument ==
    [rules |-> << >>, comb |-> "ALL_OF", set |-> FALSE, excl |-> FALSE, touched |-> {}, grouped |-> FALSE]

Init ==
    /\ inst \in {NewInstrument} \cup Legacy
    /\ pages = [t \in Tabs |-> NoPage]
    /\ request = [t \in Tabs |-> NoRequest]
    /\ overtaken = FALSE
    /\ edits = 0

Next ==
    \/ \E t \in Tabs :
          \/ OpenPage(t) \/ CycleUnit(t) \/ ToggleTick(t)
          \/ \E l \in {"link1", "link2"} : CyclePill(t, l) \/ TypeCells(t, l) \/ ToggleCombinator(t, l)
          \/ Send(t) \/ Save(t) \/ RefuseSave(t)
    \/ ImportFile

Spec == Init /\ [][Next]_vars

-----------------------------------------------------------------------------
AreCells(cells) == cells \in Seq(Range(cells)) /\ \A c \in Range(cells) : c.op \in DOMAIN EngineOp

ASSUME CellsAssumption == \A l \in {"link1", "link2"} : \A cells \in CellLists[l] : AreCells(cells)

IsLink(link) ==
    /\ link = [pill |-> link.pill, comb |-> link.comb, cells |-> link.cells]
    /\ link.comb \in {"AND", "OR"} /\ AreCells(link.cells)

IsForm(form) ==
    /\ form = [at |-> "open", link1 |-> form.link1, link2 |-> form.link2,
               link3 |-> [pill |-> form.link3.pill], tick |-> form.tick]
    /\ IsLink(form.link1) /\ IsLink(form.link2)

TypeOK ==
    /\ IsStored(inst) /\ overtaken \in BOOLEAN
    /\ pages = [t \in Tabs |-> pages[t]] /\ request = [t \in Tabs |-> request[t]]
    /\ \A t \in Tabs : /\ pages[t] = NoPage \/ IsForm(pages[t])
                       /\ request[t] = NoRequest \/ IsForm(request[t].form)

-----------------------------------------------------------------------------
(* Properties. *)

\* What the card's words say of a pair.
CellMeans(c, p) ==
    LET v == Lower[Tag[c.field][p]]
    IN  CASE c.op = "IS" -> v = Lower[c.val]
          [] c.op = "IS NOT" -> v # Lower[c.val]
          [] c.op = "IS THE SAME AS" -> v = Lower[Tag[c.val][p]]
          [] c.op = "IS DIFFERENT FROM" -> v # Lower[Tag[c.val][p]]
          [] c.op = "IS FILLED" -> v # ""
          [] c.op = "IS EMPTY" -> v = ""

LinkMeans(link, p) ==
    LET cells == {c \in Range(link.cells) : ~Blank(c)}
    IN  \/ link.pill # "filter" \/ cells = {}
        \/ link.comb = "AND" /\ \A c \in cells : CellMeans(c, p)
        \/ link.comb = "OR" /\ \E c \in cells : CellMeans(c, p)

CardMeans(form) ==
    {p \in Pairs :
        /\ LinkMeans(form.link1, p) /\ LinkMeans(form.link2, p)
        /\ ~(form.tick /\ Touched(form) = Links /\ IsSelf(Grouped(form), p))}

\* A Save answered by none between its read and its lock leaves the engine
\* keeping the pairs the posted card describes.  The one exception is a tick
\* set again after a move to Group: that Save clears it.
AppliesWhatIsShown ==
    [][\A t \in Tabs :
          /\ Save(t) /\ request[t].row = Row(inst) /\ inst.comb = "ALL_OF"
          /\ ~(request[t].form.tick /\ Grouped(request[t].form) /\ ~inst.grouped)
          => Kept(inst') = CardMeans(request[t].form)]_vars

\* Opening the card and saving it as shown is accepted and changes no pair,
\* whoever stored the rules: an earlier Save or a settings file.  Rules from
\* before the pills were recorded show as Not set on purpose.
ResaveKeepsPairs ==
    /\ ~overtaken /\ inst.comb = "ALL_OF" /\ Represented(inst.rules) /\ ~Unoffered(inst.rules)
    /\ inst.touched # {} \/ inst.rules = << >>
    =>
        /\ ~RefusedForm(ShownCard(inst))
        /\ Kept(SaveStores(inst, ShownCard(inst), Row(inst))) = Kept(inst)

\* The exclusion of self reviews is off wherever the card hides it, unless a
\* Save of another page landed on the row in between.
HiddenFlagIsOff == ~overtaken => (inst.excl => inst.touched = Links)

\* The hide rule's promise without the exception.
HiddenIsNeverInForce == inst.excl => inst.touched = Links

\* A group is never combined with a rule that keeps its pairs one by one,
\* with the same exception.
GroupsKeepNoPairs == ~overtaken => ~(inst.grouped /\ KeepsPairs(inst.rules))

\* Rule lists of the retired library: under PIPELINE the last rule that
\* matches a pair decides it; after the quotas no axis is over a cap, and a
\* sole quota drops a pair only where its axis is full.
OldListsMean ==
    LET content == ContentRules(inst.rules)
        quotas == Range(Quotas(inst.rules))
        kept == Evaluate(inst.rules, inst.comb)
        chosen == Content(content, inst.comb)
        Share(S, q, p) == {o \in S : Axis(q, o) = Axis(q, p)}
    IN  /\ inst.comb = "PIPELINE" =>
              \A p \in Pairs :
                  LET says == {k \in DOMAIN content : Matches(content[k], p)}
                  IN  p \in chosen <=> (says = {} \/ content[Max(says)].kind # "FILTER")
        /\ \A q \in quotas, p \in chosen :
              /\ Cardinality(Share(kept, q, p)) <= q.max
              /\ quotas = {q} => p \in kept \/ Cardinality(Share(kept, q, p)) = q.max

=============================================================================
