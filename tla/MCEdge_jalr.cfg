CONSTANTS
  MaxSteps <- MCMaxSteps
  InitVMs <- MCInitVMs
  Test = "jalr"
INIT Init
NEXT Next
PROPERTY
  JalrSpec
CHECK_DEADLOCK FALSE
