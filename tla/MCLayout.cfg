\* Jobs of up to eight ranks on at most four hosts, in any order; up to 13 rows
\* over up to 6 ranks; payloads of up to nine elements, an int that counts to
\* four.
CONSTANTS
  RankCounts = {1, 3, 4, 6, 8}
  MaxHosts = 4
  MaxRows = 13
  MaxRanks = 6
  MaxCount = 9
  IntMax = 4
  Unset = Unset
SPECIFICATION Spec
INVARIANTS
  EveryRankInItsPlace
  NobodyRefusesAlone
  OneOwner
  LoopIsPartition
  PayloadWhole
