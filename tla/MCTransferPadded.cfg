SPECIFICATION Spec
CONSTANTS
  ByteBits = 4
  Images <- PaddedImages
INVARIANT TooSmallIsRefused
