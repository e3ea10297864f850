SPECIFICATION SpecAnswers
CONSTANTS
    MaxFields = 3
    Answers = {"a", "b"}
    MaxEdits = 1
    Forms <- FormsMC
    SharedForm <- TabForm
    TabIds = {t1, t2}
    PostBound = 3
    Reviewers = {r1}
    Reviewees = {e1, e2}
    Tags = {red}
    Takes <- FieldValues
    Opens = "yes"
    Rules <- RuleSets
    Starts <- StartSetups
    GroupEdits = 2
    r1 = r1
    e1 = e1
    e2 = e2
    red = red
CHECK_DEADLOCK FALSE
INVARIANTS
    ClosedBranchesHoldNothing
    StampedSheetsAreComplete
    CopiesAgree
    AnswersDescribeTheirGroup
PROPERTIES
    EditsKeepAnswers
    AloneCommitsRight
    FlagsFollowEdits
    LossIsWhatWasShown
