SPECIFICATION Spec
CONSTANTS
  Workers = {w1, w2}
  Keys = {k1}
  Tags = {t1}
  Legacy = 1
  Cap = 2
  Attempts = 2
  Sizes = {1, 2}
  MaxValue = 4
  MaxNumber = 3
  MaxRequests = 4
SYMMETRY Symmetry
INVARIANTS TypeOK LeasesAreSound IarHeldOnce AnswersAgree CapOverrunIsBounded
PROPERTIES IssuedStays
CHECK_DEADLOCK FALSE
