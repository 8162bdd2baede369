SPECIFICATION Spec
CONSTANTS
  ByteBits = 4
  Images <- StridedPlanes
INVARIANT PixelsArrive
