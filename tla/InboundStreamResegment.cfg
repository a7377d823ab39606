CONSTANTS
  Streams <- MCStreams
  StreamLen = 3
  Segments <- ResegmentedSegments
  ConnWindow = 4
  StreamWindow <- MCStreamWindow
  RcvBuf = 8
  EventLen = 2
  ReadLens = {1, 3}
SPECIFICATION Spec
INVARIANT InOrderDelivery
