SPECIFICATION Spec
CONSTANTS
  ByteBits = 4
  Images <- ShiftedImages
INVARIANT PixelsArrive
