\* Two by two nodes of two ranks, or three ranks with blocks of two, one and
\* no rows; no matrix is larger than an int is wide.  Three terms at a
\* coordinate are too many for a bound.
CONSTANTS
  Side = 2
  NodeSize = 2
  MaxProducts = 1
  NoTile = NoTile
  MaxDimension = 4
  Ranks = 3
  Products <- MCProducts
  Files <- MCFiles
  Inputs <- MCResults
  Slack = 1
  MaxTerms = 2
  Unused = Unused
SPECIFICATION AlgorithmsSpec
INVARIANTS
  BaselineGathersProduct
  TridentGathersProduct
  TridentNeverFails
  ReadsWhatIsWritten
  VerdictIsComponentwise
