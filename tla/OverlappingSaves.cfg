SPECIFICATION Spec
CONSTANTS
    Form <- FormMC
    Answers = {"a", "b"}
    Tabs = {t1, t2}
    MaxPosts = 3
CHECK_DEADLOCK FALSE
INVARIANT NoClosedAnswers
