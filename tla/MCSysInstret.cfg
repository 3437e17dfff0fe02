CONSTANTS
  MaxSteps <- MCMaxSteps
  InitVMs <- MCInitVMs
INIT Init
NEXT Next
INVARIANT
  InstretSpec
CHECK_DEADLOCK FALSE
