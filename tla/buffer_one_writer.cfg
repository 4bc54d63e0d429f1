SPECIFICATION FairSpec
CONSTANTS
  Writers = {w1}
  Readers = {r1}
  Nobody = Nobody
  Capacity = 2
  RawSize = 3
  Sizes = {1, 2, 3}
  FrameSizes = {1, 2}
  RejectsOversize = TRUE
  EncodesCopy = TRUE
  MaxWrites = 4
INVARIANTS
  TypeOK FrameWhole InnerLocksUncontended SwapPublishesOwnWrite LatestWriteVisible ReadIsFresh
  ReadIsExclusive ReadSizeIsPopulated
PROPERTIES
  ReadsNeverGoBack CallsEnd ImplementsLatestValue WriteReturns WriteIsSeen
