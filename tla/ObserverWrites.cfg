SPECIFICATION ObserversSpec
CONSTANTS
  Instruments = {i1, i2}
  Reviewers = {w1}
  Requests = {q1}
  Passes = {clock}
  Clock = clock
  MaxTime = 2
  None = None
  Starts = {None}
  Ends = {1, 2}
  Releases = {None}
  Untils = {None}
  MaxRetries = 1
  Grace = 1
INVARIANTS WritesLandOnAcceptingInstruments
PROPERTIES  ReviewStagesHold
SYMMETRY Alike
