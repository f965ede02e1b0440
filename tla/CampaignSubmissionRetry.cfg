CONSTANTS
  Caller = {c1}
  NoCaller = NoCaller
  JobCount = 3
  Parallelism = 1
  Retries = {FALSE, TRUE}
  MaxIds = 5
SPECIFICATION SubmitSpec
INVARIANTS SequentialChains
