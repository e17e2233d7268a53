\* I/O literal: every copy stays inside the literal.
CONSTANTS
  Size = 3
  MaxReq = 4
  MaxPos = 4
  EINVAL = 22
  ULONG = 16
SPECIFICATION Spec
INVARIANTS TypeOK CopyInBounds
