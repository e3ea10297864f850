SPECIFICATION SpecPeople
CONSTANTS
    Addresses = {a1, a2}
    Names = {n1, n2}
    Accounts = {x, y}
    Requests = {q1, q2}
    MaxRows = 2
    MaxWrites = 3
    None = None
    Unanswered = Unanswered
    u1 = u1
    u2 = u2
    Users = {u1, u2}
    SuperAdmins = {}
    Bootstrap <- AdminA
    Sessions = {n1, n2}
CHECK_DEADLOCK FALSE
CONSTRAINT OneUpload

    
    
    
PROPERTIES
    LockedActionsLeaveSomeone
SYMMETRY Alike
