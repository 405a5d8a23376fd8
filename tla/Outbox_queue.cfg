SPECIFICATION Spec
CONSTANTS
  AudioStreams = {talk}
  VisualStreams = {scope}
  SpectrumStreams = {scope}
  ControlLimit = 3
  DecodedLimit = 2
  AudioLimit = 2
  MediaLimit = 1
  ByteLimit = 4
  FrameLimit = 2
  FrameSizes = {2}
  MaxFrames = 2
  MaxRecords = 0
  MaxEvents = 0
CHECK_DEADLOCK FALSE
INVARIANTS TypeOK BytesExact StartComesFirst StopsBehindItsFrames
