SPECIFICATION ObserversSpec
CONSTANTS
  Instruments = {i1}
  Reviewers = {}
  Requests = {q1}
  Passes = {clock, page}
  Clock = clock
  MaxTime = 1
  None = None
  Starts = {None, 1}
  Ends = {None}
  Releases = {1}
  Untils = {None}
  MaxRetries = 1
  Grace = 1
INVARIANTS RetriesBounded EachCrossingRecordedOnce
PROPERTIES OnlyDueStartsFire
