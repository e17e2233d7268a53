\* I/O literal: the loops return the bytes they moved.
CONSTANTS
  Size = 3
  MaxReq = 4
  MaxPos = 4
  EINVAL = 22
  ULONG = 16
SPECIFICATION Spec
PROPERTIES ReturnsBytesMoved
