SPECIFICATION FairSpec
CONSTANTS
  BufferSize = 2
  Letters = {"a", "b"}
  MaxStream = 6
INVARIANTS HandledIsReference RoomForARead BufferIsUnfinishedLine
PROPERTY EverythingIsRead
CHECK_DEADLOCK FALSE
