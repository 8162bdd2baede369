SPECIFICATION Spec
CONSTANTS
  ByteBits = 4
  Images <- ManyImages
INVARIANTS PixelsArrive BuffersRespected CodedSamplesFit EnoughIsEnough
