------------------------------ MODULE SetupMC ------------------------------
(***************************************************************************)
(* What operators set up on an instrument, in one run: its assignment      *)
(* rules (AssignmentRules), the copies of its card (SetupCopies) and the   *)
(* verdict on its assignments (ReconcileCache).  The three share no state: *)
(* a behaviour is of the one `which` names, and the rest is parked.        *)
(***************************************************************************)
EXTENDS AssignmentRulesMC

CONSTANTS
    Sessions, LabelTexts, CopyEdits, CardBound,         \* SetupCopies
    Loads, People, PinnedRules, IdBound, PinEdits, LoadBound, h1, h2, h3    \* ReconcileCache

VARIABLES
    which,
    here, next, held, copier, seen, file, offer, made, copyEdits,           \* SetupCopies
    rule, roster, rows, lastId, cache, load, generate, computed, ruleEdits, loads \* ReconcileCache

copyVars == <<here, next, held, copier, seen, file, offer, made, copyEdits>>
cacheVars == <<rule, roster, rows, lastId, cache, load, generate, computed, ruleEdits, loads>>

-----------------------------------------------------------------------------
(* SetupCopies: two cards with a rule set each, a sort, and a shape of the *)
(* second; the first card deleted and another added, so two of one name    *)
(* and a rule set no card pins; the card a session is made with, and a     *)
(* replicate of it.                                                        *)
NthField(i, n) == [of |-> i, nth |-> n]            \* the n-th field of card i
Name(n, copies) == [n |-> n, copies |-> copies]
Card(i, ord, name, label, set, sort) ==
    [ord |-> ord, name |-> name, label |-> [text |-> label, copies |-> 0], brk |-> FALSE,
     set |-> set, fields |-> [k \in 1..2 |-> NthField(i, k)],
     sort |-> IF sort = 0 THEN NthField(0, 0) ELSE NthField(i, sort)]
SetOf(i) == [name |-> [card |-> i, nth |-> 1], rules |-> "some"]
TwoCards ==
    [inst |-> 1 :> Card(1, 0, Name(1, 0), "a", 3, 2) @@ 2 :> Card(2, 2, Name(2, 0), "", 4, 0),
     sets |-> 3 :> SetOf(1) @@ 4 :> SetOf(2), shapes |-> "shape" :> 2]
SameName ==
    [inst |-> 2 :> Card(2, 0, Name(2, 0), "a", 0, 1) @@ 5 :> Card(5, 1, Name(2, 0), "", 0, 0),
     sets |-> 3 :> SetOf(1), shapes |-> << >>]
Untouched2 ==
    [inst |-> 1 :> Card(1, 0, Name(1, 0), "", 0, 0) @@ 2 :> Card(2, 1, Name(0, 1), "", 0, 0),
     sets |-> << >>, shapes |-> "shape" :> 1]

StartSessions == {TwoCards, SameName, Untouched2}

Copies == INSTANCE SetupCopies WITH
    Starts <- Sessions, Labels <- LabelTexts, MaxEdits <- CopyEdits, MaxCards <- CardBound,
    edits <- copyEdits

(* ReconcileCache: three people, of whom either pinned rule keeps two.     *)
TwoRules == {[name |-> "pair", keeps |-> {h1, h2}], [name |-> "other", keeps |-> {h2, h3}]}

Cache == INSTANCE ReconcileCache WITH
    Rules <- PinnedRules, MaxIds <- IdBound, MaxEdits <- PinEdits, MaxLoads <- LoadBound,
    edits <- ruleEdits

ASSUME CopiesAssumption == Copies!BoundsAssumption /\ Copies!StartsAssumption
ASSUME CacheAssumption == Cache!BoundsAssumption

-----------------------------------------------------------------------------
RulesParked ==
    /\ inst = NewInstrument /\ pages = [t \in Tabs |-> NoPage]
    /\ request = [t \in Tabs |-> NoRequest] /\ overtaken = TRUE /\ edits = 0
CopiesParked ==
    /\ here = << >> /\ next = 0 /\ held = << >> /\ copier = << >> /\ seen = {}
    /\ file = << >> /\ offer = << >> /\ made = << >> /\ copyEdits = 0
CacheParked ==
    /\ rule = << >> /\ roster = {} /\ rows = << >> /\ lastId = 0 /\ cache = << >>
    /\ load = << >> /\ generate = << >> /\ computed = {} /\ ruleEdits = 0 /\ loads = 0

InitSetup ==
    \/ which = "rules" /\ Init /\ CopiesParked /\ CacheParked
    \/ which = "copies" /\ RulesParked /\ Copies!Init /\ CacheParked
    \/ which = "cache" /\ RulesParked /\ CopiesParked /\ Cache!Init

InRules(A) == which = "rules" /\ A /\ UNCHANGED <<which, copyVars, cacheVars>>
InCopies(A) == which = "copies" /\ A /\ UNCHANGED <<which, vars, cacheVars>>
InCache(A) == which = "cache" /\ A /\ UNCHANGED <<which, vars, copyVars>>

NextRules ==
    \/ \E t \in Tabs :
          \/ InRules(OpenPage(t)) \/ InRules(CycleUnit(t)) \/ InRules(ToggleTick(t))
          \/ \E l \in {"link1", "link2"} :
                InRules(CyclePill(t, l)) \/ InRules(TypeCells(t, l)) \/ InRules(ToggleCombinator(t, l))
          \/ InRules(Send(t)) \/ InRules(Save(t)) \/ InRules(RefuseSave(t))
    \/ InRules(ImportFile)

NextCopies ==
    \/ InCopies(Copies!CardEdit)
    \/ InCopies(Copies!Replicate)
    \/ \E r \in {"all", "some"} : InCopies(Copies!SaveRules(r))
    \/ \E tick \in 0..CardBound : InCopies(Copies!Import(tick))
    \/ InCopies(Copies!Lapse) \/ InCopies(Copies!HandEdit) \/ InCopies(Copies!Rebuild)
    \/ \E at \in {"export", "clone"} : InCopies(Copies!Begin(at))
    \/ InCopies(Copies!ExportCards) \/ InCopies(Copies!ExportNames)
    \/ InCopies(Copies!ExportSets) \/ InCopies(Copies!ExportShapes)
    \/ InCopies(Copies!CloneSets) \/ InCopies(Copies!CloneCards) \/ InCopies(Copies!CloneShapes)

NextCache ==
    \/ \E r \in Cache!Pinned : InCache(Cache!PinRule(r))
    \/ \E x \in People : InCache(Cache!DeletePerson(x))
    \/ InCache(Cache!BeginGenerate) \/ InCache(Cache!CommitGenerate)
    \/ \E p \in Loads :
          \/ InCache(Cache!ReadInstrument(p)) \/ InCache(Cache!ReadRoster(p))
          \/ InCache(Cache!ReadSummary(p)) \/ InCache(Cache!Diff(p))
          \/ InCache(Cache!CommitWarm(p)) \/ InCache(Cache!AbandonLoad(p))

allVars == <<which, vars, copyVars, cacheVars>>
SpecSetup == InitSetup /\ [][NextRules \/ NextCopies \/ NextCache]_allVars

-----------------------------------------------------------------------------
(* The properties of the two INSTANCEs, on their own behaviours.           *)

(* SetupCopies: cards share no rule set, and a card's references stay its. *)
CardsOwnWhatTheyName == which = "copies" => Copies!CardsOwnWhatTheyName

(* SetupCopies: a copy nobody disturbed is the session it was read from,   *)
(* and a file exported during edits keeps every card's rules.              *)
CopiesAreFaithful == which = "copies" => Copies!QuietCopiesAreExact /\ Copies!FilesKeepTheirRules

(* SetupCopies: an import drops no more cards than its page counted.       *)
LossWasCounted == [][which = "copies" => Copies!LossWasCounted]_allVars

(* ReconcileCache: a verdict under the current stamp is the right one.     *)
ComputedVerdictsAreRight == which = "cache" => Cache!ComputedVerdictsAreRight
=============================================================================
