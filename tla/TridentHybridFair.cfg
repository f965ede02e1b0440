\* Four nodes of one rank, one product, rendezvous sends, and no more progress
\* than MPI grants.
CONSTANTS
  Side = 2
  NodeSize = 1
  MaxProducts = 1
  NoTile = NoTile
  SendModes = {FALSE}
SPECIFICATION FairSpec
PROPERTIES
  AllClose
