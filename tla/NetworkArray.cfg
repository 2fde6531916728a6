SPECIFICATION Spec
CONSTANTS
  MaxLen = 11
  MaxShuffle = 5
INVARIANTS KeepsElements StableCompaction DistributionFollowsMarks Inverses RotatesLeft Sorts CopiesRange
CHECK_DEADLOCK FALSE
