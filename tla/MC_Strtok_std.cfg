CONSTANTS
  a = a
  d = d
  e = e
  Nul = Nul
  Letters <- MC_Letters
  Delims <- MC_Delims
  NUL = Nul
  MaxLen = 4
  MaxCalls = 4
INIT Init
NEXT Next
INVARIANTS StandardStrtok
