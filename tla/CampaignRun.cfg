CONSTANTS
  a1 = a1
  a2 = a2
  None = None
  Attempt = {a1, a2}
  Cases = 5
  PerJob = 2
  Variants = 2
  MaxStarts = 5
SPECIFICATION FairSpec
INVARIANTS OnceAndChecked CompleteHasAll
PROPERTIES ObservationsKept ExecutionReleased
