SPECIFICATION Spec
CONSTANTS
  Capacity = 3
  SpanCapacity = 2
  MaxAge = 1
  Backpressured = FALSE
  Blocks = {1, 2}
  Gaps = {0, 1}
  Limits = {1}
  MaxIndex = 5
  MaxTime = 3
INVARIANTS TypeOK EverySampleAccounted SpanAlwaysBacked ReceivedAtItsIndex RoomIsHonest
PROPERTIES IsolatedStallKeepsFresh ImplementsLossyFifo Drained
CHECK_DEADLOCK FALSE
