SPECIFICATION Spec
CONSTANTS
  Writers = {w1, w2}
  Readers = {r1}
  Nobody = Nobody
  Capacity = 2
  RawSize = 2
  Sizes = {1, 2, 3}
  FrameSizes = {1, 2}
  RejectsOversize = TRUE
  EncodesCopy = TRUE
  MaxWrites = 3

SYMMETRY Symmetry
INVARIANT SwapPublishesOwnWrite
