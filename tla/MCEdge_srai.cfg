CONSTANTS
  MaxSteps <- MCMaxSteps
  InitVMs <- MCInitVMs
  Test = "srai"
INIT Init
NEXT Next
INVARIANT
  SraiSpec
CHECK_DEADLOCK FALSE
