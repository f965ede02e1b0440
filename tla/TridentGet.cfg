\* Four nodes of one rank, two products with their inputs rewritten between.
CONSTANTS
  Side = 2
  NodeSize = 1
  MaxProducts = 2
  NoTile = NoTile
SPECIFICATION FairSpec
PROPERTIES
  NoWriteUnderRead
  AllClose
  ImplementsExchange
