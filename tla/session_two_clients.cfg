SPECIFICATION Spec
CONSTANTS
  w1 = w1
  w2 = w2
  bad = bad
  Conns = {w1, w2}
  NoConn = NoConn
  MaxOpen = 2
  MaxChannels = 3
  SubIds = {0}
  SubscribeLists <- MCOneEach
  UnsubscribeLists <- MCDropFirst
  Malformed = bad
  Announceable <- MCAllButOneFit
SYMMETRY Symmetry
INVARIANTS WritesOnlyToOpen LatestConnectionWins AdvertisedAtConnect TransmitLoopAlive
