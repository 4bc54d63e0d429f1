SPECIFICATION Spec
CONSTANTS
  Conns = {w1}
  NoConn = NoConn
  MaxOpen = 1
  MaxChannels = 2
  SubIds = {0}
  SubscribeLists <- MCSubscribe
  UnsubscribeLists <- MCUnsubscribe
  Malformed = Malformed
  Announceable <- MCAllFit
  Modulus = 1000000
  Type <- MCType
  TargetHz <- MCTargetHz
  MaxElements = 1
  Sizes <- MCSizes
  MaxWrites = 1
  PerMs = 2
  MaxBack = 1
  MaxAge = 4
INVARIANT FramesKeepThePeriod
