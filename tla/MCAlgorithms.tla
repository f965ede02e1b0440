---------------------------- MODULE MCAlgorithms ----------------------------
(***************************************************************************)
(* The four programs that run from matrix to matrix, on small matrices: a  *)
(* Trident and a baseline product, the reader, and the validation.  A      *)
(* behaviour picks one of them at the start and leaves what the others     *)
(* would use at Unused.                                                    *)
(***************************************************************************)
EXTENDS BaselineProduct, FullValidation, CsrInputs, FileInputs, ValidationInputs

CONSTANTS
  Side, NodeSize, MaxProducts, NoTile,   \* see ExecutionPlan
  MaxDimension,                          \* see TridentProduct
  Files,                                 \* what the reader is run on
  Unused

VARIABLES
  program,
  stages, stage, accumulator, collected, result,         \* of TridentProduct
  file, next, entry, entriesList, cursor, matrix         \* of the reader

ASSUME UnusedAssumption == Unused # "done"

ASSUME OperandsAssumption == \A p \in Products : Multipliable(p.a, p.b)

ASSUME SidesAssumption == Side \in Nat \ {0} /\ NodeSize \in Nat \ {0}

ASSUME DimensionAssumption ==
  /\ MaxDimension \in Nat
  /\ \A p \in Products : p.b.rows <= MaxDimension

operands == <<a, b, localA, localB, localC>>

tridentOnly == <<stages, stage, accumulator, collected, result>>

baselineOnly == <<wire, nextPeer, globalC>>

readerOnly == <<file, next, entry, entriesList, cursor, matrix>>

algorithmsVars ==
  <<program, pc, operands, tridentOnly, baselineOnly, readerOnly, validationVars>>

Trident == INSTANCE TridentProduct

Reader == INSTANCE MatrixMarketReader

NoOperands ==
  /\ a = Unused
  /\ b = Unused
  /\ localA = Unused
  /\ localB = Unused
  /\ localC = Unused

NoTrident ==
  /\ stages = Unused
  /\ stage = Unused
  /\ accumulator = Unused
  /\ collected = Unused
  /\ result = Unused

NoBaseline ==
  /\ wire = Unused
  /\ nextPeer = Unused
  /\ globalC = Unused

NoReader ==
  /\ file = Unused
  /\ next = Unused
  /\ entry = Unused
  /\ entriesList = Unused
  /\ cursor = Unused
  /\ matrix = Unused

NoValidation ==
  /\ input = Unused
  /\ judging = Unused
  /\ currentRow = Unused
  /\ cells = Unused
  /\ actual = Unused
  /\ expected = Unused
  /\ rejected = Unused
  /\ rowNnzMismatches = Unused
  /\ passed = Unused

AlgorithmsInit ==
  \/ /\ program = "trident"
     /\ Trident!Init /\ NoBaseline /\ NoReader /\ NoValidation
  \/ /\ program = "baseline"
     /\ Init /\ NoTrident /\ NoReader /\ NoValidation
  \/ /\ program = "reader"
     /\ Reader!Init /\ NoOperands /\ NoTrident /\ NoBaseline /\ NoValidation
  \/ /\ program = "validation"
     /\ ValidationInit /\ NoOperands /\ NoTrident /\ NoBaseline /\ NoReader
     /\ pc = Unused

TridentNext ==
  /\ program = "trident"
  /\ Trident!Next
  /\ UNCHANGED <<program, baselineOnly, readerOnly, validationVars>>

BaselineNext ==
  /\ program = "baseline"
  /\ Next
  /\ UNCHANGED <<program, tridentOnly, readerOnly, validationVars>>

ReaderNext ==
  /\ program = "reader"
  /\ Reader!Next
  /\ UNCHANGED <<program, operands, tridentOnly, baselineOnly, validationVars>>

ResultNext ==
  /\ program = "validation"
  /\ ValidationNext
  /\ UNCHANGED <<program, pc, operands, tridentOnly, baselineOnly, readerOnly>>

AlgorithmsNext == TridentNext \/ BaselineNext \/ ReaderNext \/ ResultNext

AlgorithmsSpec == AlgorithmsInit /\ [][AlgorithmsNext]_algorithmsVars

-----------------------------------------------------------------------------

\* However rows divide among the ranks of a baseline, what rank 0 puts
\* together is the product, and entry by entry the one a serial program
\* computes; and the checks of shapes and counts never stop the program.
BaselineGathersProduct == program = "baseline" => GatheredIsProduct /\ NeverFails

\* However rows and columns divide among the ranks of a Trident program, what
\* rank 0 puts together is the product, and entry by entry the one a serial
\* program computes.
TridentGathersProduct == program = "trident" => Trident!GatheredIsProduct

\* The checks of shapes and counts never stop a Trident program.
TridentNeverFails == program = "trident" => Trident!NeverFails

\* The reader accepts the files that keep their own promises and no others,
\* and returns the matrix the file stands for.
ReadsWhatIsWritten == program = "reader" => Reader!ReadsWhatIsWritten

=============================================================================
