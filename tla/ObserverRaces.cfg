SPECIFICATION ObserversSpec
CONSTANTS
  Instruments = {i1}
  Reviewers = {}
  Requests = {q1}
  Passes = {clock, page}
  Clock = clock
  MaxTime = 2
  None = None
  Starts = {None}
  Ends = {1, 2}
  Releases = {None}
  Untils = {None}
  MaxRetries = 1
  Grace = 1
INVARIANTS NothingOpenDuringSetup
PROPERTIES NoEarlyExpiry
