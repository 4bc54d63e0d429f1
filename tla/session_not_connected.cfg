SPECIFICATION Spec
CONSTANTS
  w1 = w1
  w2 = w2
  bad = bad
  Conns = {w1, w2}
  NoConn = NoConn
  MaxOpen = 2
  MaxChannels = 1
  SubIds = {0, 1}
  SubscribeLists <- MCSubscribeLists
  UnsubscribeLists <- MCUnsubscribeLists
  Malformed = bad
  Announceable <- MCAllFit
INVARIANT NotConnectedMeansNone
