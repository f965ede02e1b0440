\* Four nodes of one rank, two products with their inputs rewritten between,
\* rendezvous sends: the mode in which a send reads its tile late.
CONSTANTS
  Side = 2
  NodeSize = 1
  MaxProducts = 2
  NoTile = NoTile
  SendModes = {FALSE}
SPECIFICATION Spec
INVARIANTS
  RequestsAnswered
  NoUnexpectedTile
PROPERTIES
  ImplementsExchange
