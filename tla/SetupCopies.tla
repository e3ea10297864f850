---------------------------- MODULE SetupCopies ----------------------------
(***************************************************************************)
(* The instrument cards of one session and every way to copy them: within  *)
(* the session (Replicate), into a settings file and back (export, import),*)
(* and into a session of their own (Duplicate, Create and Rehydrate from a *)
(* file).  A card refers to its rule set, to one of its own fields and is  *)
(* referred to by a saved data shape; a copy must not refer to the source. *)
(*                                                                         *)
(* Edits hold the session lock; the card a Replicate or a rules save names *)
(* was read before it, and the lock re-reads the session row alone.  Export*)
(* and Duplicate take no lock: a statement at a time, READ COMMITTED.      *)
(***************************************************************************)
EXTENDS Integers, FiniteSets, FiniteSetsExt, SequencesExt, Functions, TLC

CONSTANTS
    Starts,         \* the sessions a behaviour begins with
    Labels,         \* short labels an operator types
    MaxEdits,       \* bound on the operators' edits and imports
    MaxCards        \* bound on the cards of the session

BoundsAssumption == MaxEdits \in Nat /\ MaxCards \in Nat \ {0}

FirstId == 10                               \* free in every session of Starts
None == 0                                   \* no rule set, no place, the whole session
NoSort == [of |-> 0, nth |-> 0]
NoName == [card |-> 0, nth |-> 0]           \* an empty rule_set_name cell
Rules == {"all", "some"}                    \* "all": no rule of either Link
Default == [n |-> 0, copies |-> 0]          \* DEFAULT_INSTRUMENT_NAME
NoLabel == [text |-> "", copies |-> 0]
Seeded == 1..2                             \* the locked rows, Name and Email

VARIABLES
    here,       \* the session: inst (id -> card), sets (id -> rule set), shapes (name -> scope)
    next,       \* the sequence the ids come from
    held,       \* a Replicate or a rules save, with the card as it was read
    copier,     \* an export or a Duplicate under way: what it has read
    seen,       \* history: the session's forms since the copier began
    file,       \* a settings file, and the forms its export saw
    offer,      \* the deletions a refused import shows beside its tick
    made,       \* the last session made from a copy, and the forms it was read from
    edits

vars == <<here, next, held, copier, seen, file, offer, made, edits>>

NoRequest == [op |-> "none"]
Idle == [at |-> "idle"]
Nothing == [at |-> "nothing"]

-----------------------------------------------------------------------------
(* The session's rows. *)

Before(s, i, j) == \/ s.inst[i].ord < s.inst[j].ord
                   \/ s.inst[i].ord = s.inst[j].ord /\ i < j

\* _ordered_instruments: by order, then id.
Sorted(s) ==
    [k \in 1..Cardinality(DOMAIN s.inst) |->
        CHOOSE i \in DOMAIN s.inst :
            Cardinality({j \in DOMAIN s.inst : Before(s, j, i)}) = k - 1]

Place(seq, x) == IF x \in Range(seq) THEN CHOOSE k \in DOMAIN seq : seq[k] = x ELSE None

RulesOf(sets, id) == IF id \in DOMAIN sets THEN sets[id].rules ELSE "all"

PortableCard(c, rules) ==
    [name |-> c.name, label |-> c.label, brk |-> c.brk, rules |-> rules,
     fields |-> Len(c.fields), sort |-> Place(c.fields, c.sort)]

\* What a copy must keep of a session: no ids, only positions and contents.
Form(s) ==
    [cards |-> [k \in DOMAIN Sorted(s) |->
                   LET c == s.inst[Sorted(s)[k]] IN PortableCard(c, RulesOf(s.sets, c.set))],
     pool |-> Range(s.sets),
     shapes |-> [n \in DOMAIN s.shapes |-> Place(Sorted(s), s.shapes[n])]]

Tied(s) == \E i, j \in DOMAIN s.inst : i # j /\ s.inst[i].ord = s.inst[j].ord

Sighting(s, rebuilt) == [form |-> Form(s), tied |-> Tied(s), rebuilt |-> rebuilt]

\* _band1_rule_set_name: the card's own name, with the first free suffix.
RuleSetName(sets, card) ==
    LET used == {m.name : m \in Range(sets)}
    IN  [card |-> card,
         nth |-> Min({n \in 1..(Cardinality(used) + 1) : [card |-> card, nth |-> n] \notin used})]

Put(f, x, y) == [z \in DOMAIN f \cup {x} |-> IF z = x THEN y ELSE f[z]]
With(s, i, c) == [s EXCEPT !.inst = Put(@, i, c)]
WithSet(s, i, m) == [s EXCEPT !.sets = Put(@, i, m)]

\* The rows after a change, as a running copier's next statement finds them.
Turns(s, rebuilt) ==
    /\ here' = s
    /\ seen' = IF copier = Idle THEN seen ELSE seen \cup {Sighting(s, rebuilt)}

Becomes(s) == Turns(s, FALSE)

\* Bound: nothing more happens once a session is made from a copy.
Open == made = Nothing

Edit ==
    /\ Open /\ edits < MaxEdits /\ edits' = edits + 1
    /\ UNCHANGED <<copier, file, offer, made>>

Room == Cardinality(DOMAIN here.inst) < MaxCards

-----------------------------------------------------------------------------
(* One request at a time: edits that read the cards under the lock. *)

\* create_instrument: after a card, or at the end.
Create(after) ==
    LET order == Sorted(here)
        ord == IF after # None THEN here.inst[after].ord + 1
               ELSE IF order = << >> THEN 0 ELSE here.inst[Last(order)].ord + 1
        bumped == [i \in DOMAIN here.inst |->
                      IF here.inst[i].ord >= ord THEN [here.inst[i] EXCEPT !.ord = @ + 1]
                      ELSE here.inst[i]]
        card == [ord |-> ord, name |-> [n |-> Len(order) + 1, copies |-> 0], label |-> NoLabel,
                 brk |-> FALSE, set |-> None, fields |-> [k \in Seeded |-> [of |-> next, nth |-> k]],
                 sort |-> NoSort]
    IN  /\ Edit /\ Room
        /\ Becomes([here EXCEPT !.inst = Put(bumped, next, card)])
        /\ next' = next + 1
        /\ UNCHANGED held

\* The card's rows go with it, its shapes included (ON DELETE CASCADE); its
\* rule set stays.  The survivors are numbered again from 0.
Without(s, gone) ==
    LET left == [s EXCEPT !.inst = Restrict(s.inst, DOMAIN s.inst \ {gone})]
    IN  [left EXCEPT
            !.inst = [i \in DOMAIN left.inst |->
                         [left.inst[i] EXCEPT !.ord = Place(Sorted(left), i) - 1]],
            !.shapes = Restrict(s.shapes, {n \in DOMAIN s.shapes : s.shapes[n] # gone})]

\* delete_instrument, never the last card.
Delete(i) ==
    /\ Edit /\ Cardinality(DOMAIN here.inst) > 1
    /\ Becomes(Without(here, i))
    /\ UNCHANGED <<next, held>>

\* reorder_instruments: the page sends every card once, and where it breaks.
Reorder(order, breaks) ==
    /\ Edit
    /\ order # << >> /\ order[1] \notin breaks
    /\ Becomes([here EXCEPT !.inst = [i \in DOMAIN here.inst |->
            [here.inst[i] EXCEPT !.ord = Place(order, i) - 1, !.brk = i \in breaks]]])
    /\ here' # here
    /\ UNCHANGED <<next, held>>

\* create_page_break_after, on the successor; clear_page_break, anywhere.
TurnPage(i) ==
    /\ Edit
    /\ here.inst[i].brk \/ Place(Sorted(here), i) > 1
    /\ Becomes([here EXCEPT !.inst[i].brk = ~@])
    /\ UNCHANGED <<next, held>>

SetLabel(i, text) ==
    /\ Edit /\ here.inst[i].label.text # text
    /\ Becomes([here EXCEPT !.inst[i].label = [text |-> text, copies |-> 0]])
    /\ UNCHANGED <<next, held>>

\* set_sort_display_fields: by a field of the card's own, or by none.
SetSort(i, f) ==
    /\ Edit /\ here.inst[i].sort # f
    /\ Becomes([here EXCEPT !.inst[i].sort = f])
    /\ UNCHANGED <<next, held>>

\* reorder_display_fields
DragFields(i) ==
    /\ Edit /\ here.inst[i].fields # << >>
    /\ Becomes([here EXCEPT !.inst[i].fields = Reverse(@)])
    /\ UNCHANGED <<next, held>>

\* create_shape and update_shape.
SaveShape(n, scope) ==
    /\ Edit /\ (n \in DOMAIN here.shapes => here.shapes[n] # scope)
    /\ Becomes([here EXCEPT !.shapes = Put(@, n, scope)])
    /\ UNCHANGED <<next, held>>

-----------------------------------------------------------------------------
(* Edits of a card the request read before it waited for the lock. *)

Load(op, i) ==
    /\ Open /\ held = NoRequest /\ edits < MaxEdits
    /\ held' = [op |-> op, id |-> i, card |-> here.inst[i]]
    /\ UNCHANGED <<here, next, copier, seen, file, offer, made, edits>>

\* mutant: the copy pins the source's rule set
SharedCopy(s, at, card) ==
    With(s, at, [card EXCEPT !.fields = [k \in 1..Len(card.fields) |-> [of |-> at, nth |-> k]],
                             !.sort = NoSort])

\* The source's fields get copies and its sort is re-pointed at them
\* (repoint_sort); its rule set a copy of the copy's own (_clone_rule_set).
CopyOf(s, at, card) ==
    LET fields == [k \in DOMAIN card.fields |-> [of |-> at, nth |-> k]]
        sort == IF card.sort \in Range(card.fields) THEN fields[Place(card.fields, card.sort)]
                ELSE NoSort
        own == card.set \in DOMAIN s.sets
        copy == [card EXCEPT !.fields = fields, !.sort = sort,
                             !.set = IF own THEN at + 1 ELSE None]
        carded == With(s, at, copy)
    IN  IF own THEN WithSet(carded, at + 1,
                       [name |-> RuleSetName(s.sets, at), rules |-> s.sets[card.set].rules])
        ELSE carded

\* replicate_instrument.  The place is the one read before the lock, and the
\* source is not moved out of it; its fields are read now, and are gone with it.
Replicate ==
    LET i == held.id
        ord == held.card.ord + 1
        shifted == [here EXCEPT !.inst = [j \in DOMAIN here.inst |->
                       IF j # i /\ here.inst[j].ord >= ord
                       THEN [here.inst[j] EXCEPT !.ord = @ + 1] ELSE here.inst[j]]]
        fields == IF i \in DOMAIN here.inst THEN here.inst[i].fields ELSE << >>
        label == held.card.label
        card == [held.card EXCEPT
                    !.ord = ord, !.brk = FALSE, !.fields = fields, !.name.copies = @ + 1,
                    !.label.copies = IF label = NoLabel THEN 0 ELSE @ + 1]
    IN  /\ held.op = "replicate" /\ Room
        /\ Edit
        /\ Becomes(CopyOf(shifted, next, card))
        /\ next' = next + 2
        /\ held' = NoRequest

\* set_band1_assignment_rules: the pinned set in place, or a first one.  The
\* pin is the one read before the lock; a card gone since fails the request.
SaveRules(rules) ==
    LET pinned == held.card.set \in DOMAIN here.sets
        first == [name |-> RuleSetName(here.sets, held.id), rules |-> rules]
    IN  /\ held.op = "rules"
        /\ Edit
        /\ held' = NoRequest
        /\ CASE pinned -> /\ Becomes([here EXCEPT !.sets[held.card.set].rules = rules])
                          /\ UNCHANGED next
             [] ~pinned /\ rules # "all" /\ held.id \in DOMAIN here.inst ->
                   /\ Becomes(WithSet([here EXCEPT !.inst[held.id].set = next], next, first))
                   /\ next' = next + 1
             [] OTHER -> UNCHANGED <<here, seen, next>>

-----------------------------------------------------------------------------
(* A settings file names rule sets by name and data-shape scopes by short  *)
(* label and number; its instruments are in the order of their numbers.    *)

\* _cross_row_errors: every rule set a card names is in the file, once.
Acceptable(f) ==
    /\ \A c \in Range(f.cards) : c.set = NoName \/ \E m \in f.sets : m.name = c.set
    /\ \A m, o \in f.sets : m.name = o.name => m = o

\* _apply_session_rule_sets: kept by name, the others deleted.
Upserted(s, f, at) ==
    LET fresh == SetToSeq({m \in f.sets : \A o \in Range(s.sets) : o.name # m.name})
        kept == {i \in DOMAIN s.sets : \E m \in f.sets : m.name = s.sets[i].name}
    IN  [i \in kept \cup {at + k - 1 : k \in DOMAIN fresh} |->
            IF i \in kept THEN CHOOSE m \in f.sets : m.name = s.sets[i].name
            ELSE fresh[i - at + 1]]

\* An earlier card of the file has the rule set already.
Taken(f, k) == f.cards[k].set # NoName /\ \E j \in 1..(k - 1) : f.cards[j].set = f.cards[k].set

IdOf(sets, name) == IF name = NoName THEN None ELSE CHOOSE i \in DOMAIN sets : sets[i].name = name

\* mutant: a shape without a label loses its card
ScopeByLabel(f, shape, ids) ==
    LET named == {k \in DOMAIN f.cards : f.cards[k].label = shape.label}
    IN  IF shape.label # NoLabel /\ named # {} THEN ids[CHOOSE k \in named : TRUE] ELSE None

\* A label that names one card wins over the number (_apply_data_shapes).
Scope(f, shape, ids) ==
    LET named == {k \in DOMAIN f.cards : f.cards[k].label = shape.label}
    IN  IF shape.label # NoLabel /\ Cardinality(named) = 1
        THEN ids[CHOOSE k \in named : TRUE]
        ELSE IF shape.number \in DOMAIN ids THEN ids[shape.number] ELSE None

\* _apply_plan, on the session s and the ids from `at`: cards first, then
\* the rule sets they are given, a position each.
Applied(s, f, at) ==
    LET n == Len(f.cards)
        ids == [k \in 1..n |-> at + k - 1]
        pool == Upserted(s, f, at + n)
        copied == {k \in 1..n : Taken(f, k)}
        copyAt == [k \in copied |-> at + n + Cardinality(f.sets) + k]
        copies == [i \in Range(copyAt) |->
                      LET k == CHOOSE j \in copied : copyAt[j] = i
                      IN  [name |-> RuleSetName(pool, ids[k]),
                           rules |-> pool[IdOf(pool, f.cards[k].set)].rules]]
        fields(k) == [j \in 1..f.cards[k].fields |-> [of |-> ids[k], nth |-> j]]
        card(k) == LET c == f.cards[k] IN
            [ord |-> k - 1, name |-> c.name, label |-> c.label, brk |-> c.brk,
             set |-> IF k \in copied THEN copyAt[k] ELSE IdOf(pool, c.set),
             fields |-> fields(k),
             sort |-> IF c.sort \in DOMAIN fields(k) THEN fields(k)[c.sort] ELSE NoSort]
    IN  [inst |-> [i \in Range(ids) |-> card(i - at + 1)],
         sets |-> [i \in DOMAIN pool \cup Range(copyAt) |->
                     IF i \in DOMAIN pool THEN pool[i] ELSE copies[i]],
         shapes |-> [m \in DOMAIN f.shapes |-> Scope(f, f.shapes[m], ids)]]

IdsOf(f) == 2 * Len(f.cards) + Cardinality(f.sets) + 1

\* is_untouched_default
Untouched(c) == /\ c.name = Default /\ c.label = NoLabel /\ ~c.brk
                /\ c.set = None /\ c.sort = NoSort

\* mutant: one row of the file brings back every card of its name
BroughtBackByName(s, f, i) == \E c \in Range(f.cards) : c.name = s.inst[i].name

\* A row of the file stands for one card: of those sharing its name, the first.
BroughtBack(s, f, i) ==
    LET earlier == {j \in DOMAIN s.inst : s.inst[j].name = s.inst[i].name /\ Before(s, j, i)}
        rows == {k \in DOMAIN f.cards : f.cards[k].name = s.inst[i].name}
    IN  Cardinality(earlier) < Cardinality(rows)

\* instruments_deleted_by
DeletedBy(s, f) == {i \in DOMAIN s.inst : ~BroughtBack(s, f, i) /\ ~Untouched(s.inst[i])}

\* Quick Setup's settings slot, its file valid, with the count it ticks.
Submitted(tick) ==
    /\ Open /\ file # Nothing /\ Acceptable(file)
    /\ tick \in {0} \cup (IF offer = Nothing THEN {} ELSE {offer.count})
    /\ edits < MaxEdits /\ Len(file.cards) <= MaxCards

\* The refusal names the cards, and holds the file for the next try.
RefuseImport(deleted) ==
    /\ offer' = [count |-> Cardinality(deleted), named |-> deleted]
    /\ offer' # offer
    /\ UNCHANGED <<here, next, seen, edits>>

\* apply_session_config, under the lock.
SaveImport ==
    /\ Turns(Applied(here, file, next), TRUE)
    /\ next' = next + IdsOf(file)
    /\ offer' = Nothing
    /\ edits' = edits + 1

\* Refused with the cards it would delete until the tick says as many.
Import(tick) ==
    LET deleted == DeletedBy(here, file)
    IN  /\ Submitted(tick)
        /\ IF deleted # {} /\ Cardinality(deleted) # tick THEN RefuseImport(deleted)
           ELSE SaveImport
        /\ UNCHANGED <<held, file, made, copier>>

\* The hour passes, or the operator leaves the page (held_uploads).
Lapse ==
    /\ Open /\ offer # Nothing
    /\ offer' = Nothing
    /\ UNCHANGED <<here, next, held, copier, seen, file, made, edits>>

\* The file edited by hand: a row dropped, a rule set named twice or left out.
HandEdits(f) ==
    {[f EXCEPT !.cards = RemoveAt(f.cards, k)] : k \in DOMAIN f.cards}
    \cup {[f EXCEPT !.cards[k].set = f.cards[j].set] : j, k \in DOMAIN f.cards}
    \cup {[f EXCEPT !.sets = @ \ {m}] : m \in f.sets}

HandEdit ==
    /\ Open /\ file # Nothing /\ file.of # {} /\ offer = Nothing
    /\ \E f \in HandEdits(file) : file' = [f EXCEPT !.of = {}]
    /\ UNCHANGED <<here, next, held, copier, seen, offer, made, edits>>

\* Create and Rehydrate apply the file to a new session's Default card,
\* without asking.
NewSession == [inst |-> (1 :> [ord |-> 0, name |-> Default, label |-> NoLabel, brk |-> FALSE,
                               set |-> None, fields |-> [k \in Seeded |-> [of |-> 1, nth |-> k]],
                               sort |-> NoSort]),
               sets |-> << >>, shapes |-> << >>]

Rebuild ==
    /\ Open /\ file # Nothing /\ Acceptable(file)
    /\ made' = [at |-> "made", form |-> Form(Applied(NewSession, file, 2)), of |-> file.of]
    /\ UNCHANGED <<here, next, held, copier, seen, file, offer, edits>>

-----------------------------------------------------------------------------
(* Export and Duplicate, a statement at a time. *)

\* Bound: one copier a behaviour.
Begin(at) ==
    /\ Open /\ copier = Idle /\ file = Nothing
    /\ copier' = [at |-> at]
    /\ seen' = {Sighting(here, FALSE)}
    /\ UNCHANGED <<here, next, held, file, offer, made, edits>>

Reads(at, got) ==
    /\ copier.at = at
    /\ copier' = got
    /\ UNCHANGED <<here, next, held, seen, file, offer, made, edits>>

\* serialize_session_config: the cards; their fields and the names of their
\* rule sets; the rule sets; the shapes with the cards they are scoped to.
ExportCards == Reads("export", [at |-> "named", order |-> Sorted(here), inst |-> here.inst])

ExportNames ==
    LET read == copier
        fields(i) == IF i \in DOMAIN here.inst THEN here.inst[i].fields ELSE << >>
        row(i) == LET c == read.inst[i] IN
            [name |-> c.name, label |-> c.label, brk |-> c.brk,
             set |-> IF c.set \in DOMAIN here.sets THEN here.sets[c.set].name ELSE NoName,
             fields |-> Len(fields(i)), sort |-> Place(fields(i), c.sort)]
    IN  Reads("named", [at |-> "pooled", cards |-> [k \in DOMAIN read.order |-> row(read.order[k])]])

ExportSets == Reads("pooled", [at |-> "shaped", cards |-> copier.cards, sets |-> Range(here.sets)])

\* The shapes, and the number each one's card has now.
ExportShapes ==
    LET label(i) == IF i = None THEN NoLabel ELSE here.inst[i].label
        shape(n) == [label |-> label(here.shapes[n]), number |-> Place(Sorted(here), here.shapes[n])]
    IN  /\ copier.at = "shaped"
        /\ copier' = Idle
        /\ file' = [cards |-> copier.cards, sets |-> copier.sets, of |-> seen,
                    shapes |-> [n \in DOMAIN here.shapes |-> shape(n)]]
        /\ offer' = Nothing
        /\ seen' = {}
        /\ UNCHANGED <<here, next, held, made, edits>>

\* clone_session: the rule sets first, then the cards with their fields,
\* then the shapes; what a map does not hold is dropped.
CloneSets == Reads("clone", [at |-> "carded", sets |-> here.sets])
CloneCards == Reads("carded", [at |-> "scoped", sets |-> copier.sets, order |-> Sorted(here),
                               cards |-> here.inst])

CloneShapes ==
    LET read == copier
        copy == [inst |-> read.cards, sets |-> read.sets, shapes |-> here.shapes]
    IN  /\ copier.at = "scoped"
        /\ copier' = Idle
        /\ made' = [at |-> "made", form |-> Form(copy), of |-> seen]
        /\ seen' = {}
        /\ UNCHANGED <<here, next, held, file, offer, edits>>

-----------------------------------------------------------------------------
(* What the rows are, and the sessions a behaviour begins with. *)

Refs == [of : Nat, nth : Nat]

IsCard(c) ==
    /\ c = [ord |-> c.ord, name |-> c.name, label |-> c.label, brk |-> c.brk, set |-> c.set,
            fields |-> c.fields, sort |-> c.sort]
    /\ c.ord \in Int /\ c.set \in Nat /\ c.fields \in Seq(Refs)

\* A session whose ids the sequence has handed out.
IsSession(s, free) ==
    /\ s = [inst |-> s.inst, sets |-> s.sets, shapes |-> s.shapes]
    /\ DOMAIN s.inst \cup DOMAIN s.sets \subseteq 1..(free - 1)
    /\ \A i \in DOMAIN s.inst : IsCard(s.inst[i])

IsRow(r) ==
    /\ r = [name |-> r.name, label |-> r.label, brk |-> r.brk, set |-> r.set,
            fields |-> r.fields, sort |-> r.sort]
    /\ r.fields \in Nat

AreRows(cards) == cards \in Seq(Range(cards)) /\ \A r \in Range(cards) : IsRow(r)

IsFile(f) ==
    /\ f = [cards |-> f.cards, sets |-> f.sets, of |-> f.of, shapes |-> f.shapes]
    /\ AreRows(f.cards) /\ IsFiniteSet(f.sets)

TypeOK ==
    /\ next \in Nat \ {0} /\ IsSession(here, next)
    /\ held.op \in {"none", "replicate", "rules"}
    /\ held.op # "none" => IsCard(held.card)
    /\ copier.at \in {"idle", "export", "named", "pooled", "shaped", "clone", "carded", "scoped"}
    /\ copier.at = "named" => copier.order \in Seq(Range(copier.order))
    /\ copier.at \in {"pooled", "shaped"} => AreRows(copier.cards)
    /\ copier.at = "shaped" => IsFiniteSet(copier.sets)
    /\ file # Nothing => IsFile(file)
    /\ offer # Nothing => offer.count \in Nat

Owns(s) ==
    /\ \A i, j \in DOMAIN s.inst : i # j /\ s.inst[i].set # None => s.inst[i].set # s.inst[j].set
    /\ \A i \in DOMAIN s.inst : /\ s.inst[i].set \in DOMAIN s.sets \cup {None}
                              /\ s.inst[i].sort \in Range(s.inst[i].fields) \cup {NoSort}
    /\ Range(s.shapes) \subseteq DOMAIN s.inst \cup {None}

\* uq_session_rule_set_session_name; a rule set always has a name.
NamesApart(s) ==
    /\ \A i, j \in DOMAIN s.sets : s.sets[i].name = s.sets[j].name => i = j
    /\ \A i \in DOMAIN s.sets : /\ s.sets[i] = [name |-> s.sets[i].name, rules |-> s.sets[i].rules]
                               /\ s.sets[i].name # NoName

StartsAssumption == \A s \in Starts : IsSession(s, FirstId) /\ Owns(s) /\ NamesApart(s)

Init ==
    /\ here \in Starts /\ next = FirstId
    /\ held = NoRequest /\ copier = Idle /\ seen = {}
    /\ file = Nothing /\ offer = Nothing /\ made = Nothing
    /\ edits = 0

Cards == DOMAIN here.inst

CardEdit ==
    \/ \E i \in Cards \cup {None} : Create(i)
    \/ \E i \in Cards : \/ Delete(i) \/ TurnPage(i) \/ DragFields(i)
                        \/ Load("replicate", i) \/ Load("rules", i)
                        \/ \E t \in Labels : SetLabel(i, t)
                        \/ \E f \in Range(here.inst[i].fields) \cup {NoSort} : SetSort(i, f)
                        \/ \E n \in {"shape"} : SaveShape(n, i)
    \/ \E breaks \in SUBSET Cards, order \in SetToSeqs(Cards) : Reorder(order, breaks)

Next ==
    \/ CardEdit
    \/ Replicate
    \/ \E r \in Rules : SaveRules(r)
    \/ \E tick \in 0..MaxCards : Import(tick)
    \/ Lapse \/ HandEdit \/ Rebuild
    \/ \E at \in {"export", "clone"} : Begin(at)
    \/ ExportCards \/ ExportNames \/ ExportSets \/ ExportShapes
    \/ CloneSets \/ CloneCards \/ CloneShapes

Spec == Init /\ [][Next]_vars

-----------------------------------------------------------------------------
(* Properties. *)

\* No two cards pin one rule set (Band 1 edits the pinned row in place, so a
\* shared one would carry an edit to either into the other), a card's sort is
\* by a field of its own, and a shape's scope is a card of the session:
\* whatever copied the card, from whatever file, after whatever wait.
CardsOwnWhatTheyName == Owns(here)

SeenWith(of, name, rules) ==
    \E v \in of : \E d \in Range(v.form.cards) : d.name = name /\ d.rules = rules

\* A Duplicate, and a session made from an exported file, is the session it
\* was read from, when nobody changed that one meanwhile and its order is
\* strict: names shared by cards, labels shared or missing, rule sets no card
\* pins, gaps in the order and dragged fields included.
QuietCopiesAreExact ==
    made # Nothing =>
        \A v \in made.of : made.of = {v} /\ ~v.tied => made.form = v.form

\* A file exported while cards are edited, replicated and deleted is one the
\* import takes, and a card that pinned a rule all along is not exported
\* without one: the export reads the cards before the rule sets.  An import
\* that rebuilds the session meanwhile is another matter.
FilesKeepTheirRules ==
    file # Nothing /\ file.of # {} /\ (\A v \in file.of : ~v.rebuilt) =>
        /\ Acceptable(file)
        /\ \A c \in Range(file.cards) : c.set = NoName => SeenWith(file.of, c.name, "all")

Named(cards, n) == Cardinality({i \in DOMAIN cards : cards[i].name = n})

\* The cards a rebuild leaves the session without, name by name.
Missing(s, t) ==
    LET holds == Restrict(s.inst, {i \in DOMAIN s.inst : ~Untouched(s.inst[i])})
        lost(n) == Max({0, Named(holds, n) - Named(t.inst, n)})
    IN  MapThenSumSet(lost, {c.name : c \in Range(s.inst)})

\* Of every step: an import leaves the session without no more of the
\* operators' cards than the refusal on the page said, whatever was added,
\* deleted or replicated since, and none when it said nothing
\* (InstrumentsWouldDelete).
LossWasCounted ==
    edits' # edits /\ Cards \cap DOMAIN here'.inst = {}
      => Missing(here, here') <= IF offer = Nothing THEN 0 ELSE offer.count

=============================================================================
