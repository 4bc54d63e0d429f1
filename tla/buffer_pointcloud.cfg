SPECIFICATION Spec
CONSTANTS
  Writers = {w1}
  Readers = {r1}
  Nobody = Nobody
  Capacity = 2
  RawSize = 3
  Sizes = {1, 2, 3}
  FrameSizes = {1, 2}
  RejectsOversize = TRUE
  EncodesCopy = FALSE
  MaxWrites = 4
INVARIANT ReadIsExclusive
