SPECIFICATION ObserversSpec
CONSTANTS
  Instruments = {i1}
  Reviewers = {}
  Requests = {q1}
  Passes = {clock}
  Clock = clock
  MaxTime = 2
  None = None
  Starts = {1,2}
  Ends = {None}
  Releases = {None}
  Untils = {None}
  MaxRetries = 0
  Grace = 1
PROPERTIES OnlyFailedStartsAreCleared
