CONSTANTS
  MaxSteps <- MCMaxSteps
  InitVMs <- MCInitVMs
  Cases <- SraiwCases
  AndiImm = 5
INIT SuiteInit
NEXT SuiteNext
INVARIANTS
  DecodeTable
CHECK_DEADLOCK FALSE
