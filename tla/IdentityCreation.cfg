CONSTANTS
  Digest = {d1, d2, d3}
  Window = {w1, w2}
  None = None
  Before = {{}, {"identity"}}
  MaxVisited = 1
SPECIFICATION MCSpec
INVARIANTS OneLiveAttempt
PROPERTIES SuccessorNotHidden
SYMMETRY Symmetry
CHECK_DEADLOCK FALSE
