\* Line discipline: input refinement and output normalization.
CONSTANTS
  CR = CR
  LF = LF
  X = X
  Chars <- MC_Chars
  MaxBuf = 2
  MaxTyped = 3
  MaxWrites = 2
SPECIFICATION Spec
\* The reader may wait for input that never comes; the writer may stop.
CHECK_DEADLOCK FALSE
PROPERTIES OutputRefines
