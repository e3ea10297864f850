SPECIFICATION Spec
CONSTANTS
  Requests = {q1, q2}
  Followers = {w1}
  MaxMails = 2
  MaxBegun = 3
  MaxToken = 3
INVARIANTS PendingMeansUnsent QueuedLinksAreCurrentOrReplaced
PROPERTIES FreshMailKillsNoInvitation UndoKillsNoLiveLink OpensStick
SYMMETRY AnyTab
