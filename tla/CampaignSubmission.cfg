\* Two processes that may die at any point, three jobs in one chain, one of
\* which can be submitted again.
CONSTANTS
  Caller = {c1, c2}
  NoCaller = NoCaller
  JobCount = 3
  Parallelism = 1
  Retries = {FALSE, TRUE}
  MaxIds = 4
SPECIFICATION FairSubmitSpec
INVARIANTS NeverDuplicated NoneForgotten ChainsResumed
PROPERTIES ChainsProgress
