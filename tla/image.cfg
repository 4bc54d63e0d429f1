SPECIFICATION Spec
CONSTANTS
  Images = {c1, c2}
  NoChannel = NoChannel
  CompressedSizes = {0, 2, 20}
  FieldDigits = {3, 33}
  EncodeSize = 118
  TxSize = 120
  MaxInfos = 2
INVARIANTS TypeOK DimensionsAreOwn DimensionsNotOlder EncodeStaysInBuffer
