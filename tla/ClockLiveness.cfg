SPECIFICATION FairObserversSpec
CONSTANTS
  Instruments = {i1}
  Reviewers = {w1}
  Requests = {q1}
  Passes = {clock}
  Clock = clock
  MaxTime = 1
  None = None
  Starts = {1}
  Ends = {1}
  Releases = {None}
  Untils = {None}
  MaxRetries = 1
  Grace = 1
PROPERTIES PastEndCloses DueStartIsConsumed
