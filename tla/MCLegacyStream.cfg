SPECIFICATION FairSpecLegacy
CONSTANTS
  Frames <- FramesSet
  LegacyFrames <- Planar
  InterleaveModes = {"none", "sample"}
  Nears = {0}
  LegacyNears = {0}
  PresetSettings <- CustomPresets
  ColorTransformations = {"none", "hp1"}
  MaxEncodes = 1
  MaxChanges = 0
  MaxEntries = 0
  MaxCalls = 1
  Streams <- WrittenStreams
  Source = "stream"
  MaxComponents = 4
  Retry = FALSE
PROPERTY StreamDecodeReturns
