SPECIFICATION SpecBoth
CONSTANTS
  Frames <- ManyFrames
  InterleaveModes = {"none", "sample"}
  Nears = {0, 9}
  PresetSettings <- CustomPresets
  ColorTransformations = {"none", "hp1"}
  MaxEncodes = 2
  MaxChanges = 1
  MaxEntries = 1
  Streams <- WrittenStreams
  Source = "memory"
  MaxComponents = 4
  Retry = FALSE
INVARIANTS EncoderTypeOK SpiffIsFound EncodedIsDecodable CodecsAgree DecodedIsEncoded
