SPECIFICATION Spec
CONSTANTS
  Streams <- AnyStreams
  Source = "memory"
  MaxComponents = 4
  Retry = TRUE
INVARIANTS TypeOK HeaderIsComplete ScanParametersFit PlanesMatchScans
PROPERTIES FrameIsFixed CallsReturn
