CONSTANTS
  MaxSteps <- MCMaxSteps
  InitVMs = {}
  Programs <- MCPrograms
  ProgName <- MCProgName
  SimSP <- MCSimSP
  SimStack <- MCSimStack
  MaxStepsFlag <- MCMaxStepsFlag
SPECIFICATION DiffSpec
INVARIANTS
  DiffTypeOK
  
  ExitAgreement
CHECK_DEADLOCK FALSE
