SPECIFICATION FairSpec
CONSTANTS
  Conns = {w1}
  NoConn = NoConn
  MaxOpen = 1
  MaxChannels = 2
  SubIds = {0}
  SubscribeLists <- MCSubscribe
  UnsubscribeLists <- MCUnsubscribe
  Malformed = Malformed
  Announceable <- MCAllFit
  Modulus = 1000000
  Type <- MCType
  TargetHz <- MCFast
  MaxElements = 1
  Sizes <- MCSizes
  MaxWrites = 1
  PerMs = 1
  MaxBack = 1
  MaxAge = 3
INVARIANTS TypeOK FrameIsOwn
PROPERTIES ImplementsSession SubscribedIsServed
