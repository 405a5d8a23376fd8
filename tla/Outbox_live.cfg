SPECIFICATION Spec
CONSTANTS
  AudioStreams = {}
  VisualStreams = {scope}
  SpectrumStreams = {scope}
  ControlLimit = 3
  DecodedLimit = 2
  AudioLimit = 2
  MediaLimit = 1
  ByteLimit = 4
  FrameLimit = 2
  FrameSizes = {1}
  MaxFrames = 1
  MaxRecords = 0
  MaxEvents = 1
CHECK_DEADLOCK FALSE
PROPERTIES ControlDelivered WriterEnds
