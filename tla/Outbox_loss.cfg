SPECIFICATION Spec
CONSTANTS
  AudioStreams = {}
  VisualStreams = {scope}
  SpectrumStreams = {}
  ControlLimit = 2
  DecodedLimit = 2
  AudioLimit = 2
  MediaLimit = 1
  ByteLimit = 4
  FrameLimit = 2
  FrameSizes = {1, 3}
  MaxFrames = 2
  MaxRecords = 4
  MaxEvents = 0
CHECK_DEADLOCK FALSE
INVARIANTS EveryPacketAccounted
PROPERTIES GapsExplained
