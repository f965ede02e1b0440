\* Tiles: four nodes of one rank and two products, or one node of three ranks
\* and three products.  Rows: three ranks, two rounds, 33 pairs of matrices.
CONSTANTS
  NoTile = NoTile
  Unused = Unused
  SendModes = {TRUE, FALSE}
  Side = 2
  NodeSize = 1
  MaxProducts = 2
  PanelSize = 3
  PanelProducts = 3
  Ranks = 3
  MaxRounds = 2
  NoRows = NoRows
  NoEntry = NoEntry
  Inputs <- MCInputs
SPECIFICATION Spec
INVARIANTS
  FreshPanel
PROPERTIES
  AllClose
  MessagesImplementExchange
  PutImplementsExchange
  ImplementsRows
