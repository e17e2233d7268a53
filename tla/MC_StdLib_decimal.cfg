CONSTANTS
  W <- MC_W
  Bases <- MC_Bases
INIT Init
NEXT Next
INVARIANTS ItoaDecimal
