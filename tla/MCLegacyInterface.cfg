SPECIFICATION SpecLegacy
CONSTANTS
  Frames <- FramesSet
  LegacyFrames <- FramesAsked
  InterleaveModes = {"none", "sample"}
  Nears = {0}
  LegacyNears = {0, 7, 263}
  PresetSettings <- CustomPresets
  ColorTransformations = {"none", "hp1"}
  MaxEncodes = 1
  MaxChanges = 0
  MaxEntries = 0
  MaxCalls = 2
  Streams <- WrittenStreams
  Source = "memory"
  MaxComponents = 4
  Retry = FALSE
INVARIANTS HeaderDescribesImage ReencodesAlike LegacyCallsAgree EncodedIsReadable
