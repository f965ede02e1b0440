\* Two jobs of three ranks, of the same or of two Trident programs or of a
\* baseline, that share a table; one product before and one under measurement.
CONSTANTS
  Size = 3
  Implementations = {"get", "put"}
  Jobs = 2
  Warmups = 1
  Samples = 1
SPECIFICATION Spec
INVARIANTS
  ReturnedIsRecorded
  TableReadable
PROPERTIES
  AllEnd
