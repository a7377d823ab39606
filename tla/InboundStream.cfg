CONSTANTS
  Streams <- MCStreams
  StreamLen = 3
  Segments <- FixedSegments
  ConnWindow = 4
  StreamWindow <- MCStreamWindow
  RcvBuf = 8
  EventLen = 2
  ReadLens = {1, 3}
SPECIFICATION Spec
INVARIANT TypeOK
INVARIANT InOrderDelivery
INVARIANT CreditAccounting
INVARIANT EventsInOrder
INVARIANT RecvStateConsistent
PROPERTY AllDataRead
PROPERTY DeliverySpec
