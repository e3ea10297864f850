SPECIFICATION Spec
CONSTANTS
    r1 = r1
    r2 = r2
    e1 = e1
    e2 = e2
    e3 = e3
    t1 = t1
    t2 = t2
    Tabs = {t1, t2}
    PairOrder <- Order
    Same <- OnePerson
    Tag <- Tags
    Lower <- LowerCase
    Team <- Teams
    CellLists <- Typed
    Files <- InFiles
    Legacy <- Old
    MaxEdits = 3
INVARIANTS HiddenIsNeverInForce
SYMMETRY Interchangeable
