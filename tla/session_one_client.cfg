SPECIFICATION Spec
CONSTANTS
  w1 = w1
  w2 = w2
  bad = bad
  Conns = {w1, w2}
  NoConn = NoConn
  MaxOpen = 1
  MaxChannels = 3
  SubIds = {0, 1}
  SubscribeLists <- MCSubscribeLists
  UnsubscribeLists <- MCUnsubscribeLists
  Malformed = bad
  Announceable <- MCAllButOneFit
SYMMETRY Symmetry
INVARIANT TypeOK
PROPERTIES ImplementsClientSession HandlersEnd
