CONSTANTS
  MaxSteps <- MCMaxSteps
  InitVMs <- MCInitVMs
  Test = "remw"
INIT Init
NEXT Next
INVARIANT
  RemwSpec
CHECK_DEADLOCK FALSE
