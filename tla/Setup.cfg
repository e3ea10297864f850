SPECIFICATION SpecSetup
CONSTANTS
    r1 = r1
    r2 = r2
    e1 = e1
    e2 = e2
    e3 = e3
    t1 = t1
    t2 = t2
    h1 = h1
    h2 = h2
    h3 = h3
    Sessions <- StartSessions
    LabelTexts = {"a"}
    CopyEdits = 2
    CardBound = 3
    Loads = {p1}
    People = {h1, h2, h3}
    PinnedRules <- TwoRules
    IdBound = 5
    PinEdits = 3
    LoadBound = 2
    Tabs = {t1, t2}
    PairOrder <- Order
    Same <- OnePerson
    Tag <- Tags
    Lower <- LowerCase
    Team <- Teams
    CellLists <- Typed
    Files <- InFiles
    Legacy <- Old
    MaxEdits = 3
CHECK_DEADLOCK FALSE
INVARIANTS
    ResaveKeepsPairs
    HiddenFlagIsOff
    GroupsKeepNoPairs
    OldListsMean
    CardsOwnWhatTheyName
    CopiesAreFaithful
    ComputedVerdictsAreRight
PROPERTIES
    
    LossWasCounted
SYMMETRY Interchangeable
