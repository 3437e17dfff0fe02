CONSTANTS
  MaxSteps <- MCMaxSteps
  InitVMs <- MCInitVMs
  Test = "mulh"
INIT Init
NEXT Next
INVARIANT
  MulhSpec
CHECK_DEADLOCK FALSE
