---------------------------- MODULE MCExchanges -----------------------------
(***************************************************************************)
(* The instances on which TLC checks the exchanges that have no run of     *)
(* their own: of tiles, the PUT backend on four nodes and the two-sided    *)
(* backend on four nodes and on the ranks of one node; of rows of B, the   *)
(* halos of the three baselines on the same matrices.                      *)
(*                                                                         *)
(* A behaviour picks one of them at the start and leaves what the others   *)
(* would use at Unused; the halos share their beginning.                   *)
(***************************************************************************)
EXTENDS HaloMessages, HaloInputs

CONSTANTS
  Side, NodeSize,  \* the grid of the PUT and of a two-sided backend
  PanelSize,       \* ranks of the other's one node
  NoTile,
  SendModes,
  Unused,
  MaxProducts,     \* bound: products on the grid
  PanelProducts    \* bound: products on the one node

ASSUME GridAssumption ==
  /\ Side \in Nat \ {0}
  /\ NodeSize \in Nat \ {0}
  /\ PanelSize \in Nat \ {0}

ASSUME ProductsAssumption == MaxProducts \in Nat /\ PanelProducts \in Nat

ASSUME SendModesAssumption == SendModes \in (SUBSET BOOLEAN) \ {{}}

VARIABLES
  exchange,
  product,                                           \* of both backends
  nextStage, active, private, public, latest, puts,  \* of TridentPut
  stage, workspace, panel,                           \* of TridentTwoSided
  requests,                                          \* of HaloTwoSided
  rowBounds,                                         \* of HaloGet
  packed, outgoing, view                             \* of HaloPut

putOnly == <<nextStage, active, private, public, latest, puts>>

twoSidedOnly == <<stage, workspace, panel>>

rowsOnly ==
  <<bRowBlocks, localMatrixB, round, plan, rowPtr, halo>>

haloPutOnly == <<packed, outgoing, view>>

vars == <<exchange, pc, input, entered, channel, posted, product, putOnly,
          twoSidedOnly, rowsOnly, requests, rowBounds, haloPutOnly>>

Put == INSTANCE TridentPut

Nodes == INSTANCE TridentTwoSided

Panel == INSTANCE TridentTwoSided WITH
  Side <- 1, NodeSize <- PanelSize, MaxProducts <- PanelProducts

TwoSidedRows == INSTANCE HaloTwoSided

GetRows == INSTANCE HaloGet

PutRows == INSTANCE HaloPut

-----------------------------------------------------------------------------

NoPuts ==
  /\ nextStage = Unused
  /\ active = Unused
  /\ private = Unused
  /\ public = Unused
  /\ latest = Unused
  /\ puts = Unused

NoPanels == stage = Unused /\ workspace = Unused /\ panel = Unused

NoHalo ==
  /\ bRowBlocks = Unused
  /\ localMatrixB = Unused
  /\ round = Unused
  /\ plan = Unused
  /\ rowPtr = Unused
  /\ halo = Unused
  /\ requests = Unused
  /\ rowBounds = Unused
  /\ packed = Unused
  /\ outgoing = Unused
  /\ view = Unused

Init ==
  \/ /\ exchange = "put"
     /\ Put!Init /\ NoPanels /\ NoHalo
     /\ posted = Unused /\ channel = Unused
  \/ /\ \/ exchange = "nodes" /\ Nodes!Init
        \/ exchange = "panel" /\ Panel!Init
     /\ NoPuts /\ NoHalo
     /\ entered = Unused
  \/ /\ exchange \in {"two_sided_rows", "get_rows", "put_rows"}
     /\ TwoSidedRows!Init /\ GetRows!Init /\ PutRows!Init
     /\ NoPuts /\ NoPanels
     /\ product = Unused

rowsUnchanged == UNCHANGED <<rowsOnly, requests, rowBounds, haloPutOnly>>

PutNext ==
  /\ exchange = "put"
  /\ Put!Next
  /\ UNCHANGED <<exchange, posted, channel, twoSidedOnly>>
  /\ rowsUnchanged

NodesNext ==
  /\ exchange = "nodes"
  /\ Nodes!Next
  /\ UNCHANGED <<exchange, entered, putOnly>>
  /\ rowsUnchanged

PanelNext ==
  /\ exchange = "panel"
  /\ Panel!Next
  /\ UNCHANGED <<exchange, entered, putOnly>>
  /\ rowsUnchanged

tilesUnchanged == UNCHANGED <<product, putOnly, twoSidedOnly>>

TwoSidedRowsNext ==
  /\ exchange = "two_sided_rows"
  /\ TwoSidedRows!Next
  /\ UNCHANGED <<exchange, rowBounds, haloPutOnly>>
  /\ tilesUnchanged

GetRowsNext ==
  /\ exchange = "get_rows"
  /\ GetRows!Next
  /\ UNCHANGED <<exchange, channel, posted, requests, haloPutOnly>>
  /\ tilesUnchanged

PutRowsNext ==
  /\ exchange = "put_rows"
  /\ PutRows!Next
  /\ UNCHANGED <<exchange, requests, rowBounds>>
  /\ tilesUnchanged

Next ==
  \/ PutNext \/ NodesNext \/ PanelNext
  \/ TwoSidedRowsNext \/ GetRowsNext \/ PutRowsNext

\* Some rank runs as long as one can, and MPI meets receives and performs puts,
\* but completes no send of the halos before a receive meets it.  No rank is
\* promised more: none can go on for ever without the others.
Progress ==
  \/ PutNext \/ NodesNext \/ PanelNext
  \/ TwoSidedRowsNext /\ TwoSidedRows!Progress
  \/ GetRowsNext /\ GetRows!Progress
  \/ PutRowsNext /\ PutRows!Progress

Spec == Init /\ [][Next]_vars /\ WF_vars(Progress)

-----------------------------------------------------------------------------

\* Every rank gets through all its products and closes; in the halos through its
\* plan and all its rounds, also when it needs nothing, has nothing, or MPI
\* completes no send before it is received.
AllClose == <>(\A r \in DOMAIN pc : pc[r] \in {"closed", "done"})

\* The two-sided backend implements TileExchange: no message meets another
\* stage's or another product's receive.
MessagesImplementExchange ==
  /\ exchange = "nodes" => Nodes!Exchange!Init
  /\ exchange = "panel" => Panel!Exchange!Init
  /\ [][ /\ exchange = "nodes" => [Nodes!Exchange!Next]_(Nodes!Exchange!vars)
         /\ exchange = "panel" => [Panel!Exchange!Next]_(Panel!Exchange!vars)
       ]_vars

\* The PUT backend implements TileExchange: no put arrives in a tile that is in
\* use, and none is read before it is complete.
PutImplementsExchange ==
  /\ exchange = "put" => Put!Exchange!Init
  /\ [][exchange = "put" => [Put!Exchange!Next]_(Put!Exchange!vars)]_vars

\* The panel of a stage is made of the slices all ranks of the node fetched
\* for that stage of that product, each in its owner's place.
FreshPanel ==
  /\ exchange = "nodes" => Nodes!FreshPanel
  /\ exchange = "panel" => Panel!FreshPanel

\* Each halo implements RowExchange: under every column of its block of A a
\* rank finds the row of B that the column names, as its owner holds it, in
\* every round and from the first row it looks up to the last.
ImplementsRows ==
  /\ exchange = "two_sided_rows" => TwoSidedRows!Promised!Init
  /\ exchange = "get_rows" => GetRows!Promised!Init
  /\ exchange = "put_rows" => PutRows!Promised!Init
  /\ [][ /\ exchange = "two_sided_rows" =>
              [TwoSidedRows!Promised!Next]_(TwoSidedRows!Promised!vars)
         /\ exchange = "get_rows" => [GetRows!Promised!Next]_(GetRows!Promised!vars)
         /\ exchange = "put_rows" => [PutRows!Promised!Next]_(PutRows!Promised!vars)
       ]_vars

=============================================================================
