SPECIFICATION SpecSchedule
CONSTANTS
    Instruments = {i1, i2}
    Reviewers = {w1, w2}
    Requests = {q1, q2}
    MaxTime = 2
    None = None
    Starts = {None, 1}
    Ends = {None, 2}
    Releases = {None, 2}
    Untils = {2}
    Mailed = {"w"}
    ListBound = 1
    TimeBound = 3
    Lead = 1
    Notice = 1
    InviteOffsets <- BeforeStart
    InviteStarts = {2}
    InviteEdits = 2
    ReminderOffsets <- BeforeEnd
    ReminderEnds = {2, 3}
    ReminderEdits = 1
INVARIANTS
    OpenOnlyWhileReady
    OpeningConsumesStart
    NobodyIsRemindedTwice
PROPERTIES
    ActivationWaitsForInvites
SYMMETRY Alike
