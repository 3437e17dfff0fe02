CONSTANTS
  MaxSteps <- MCMaxSteps
  InitVMs <- MCInitVMs
  Cases <- PassCases
  AndiImm = 5
INIT SuiteInit
NEXT SuiteNext
INVARIANTS
  DecodeTable
  RvcExpansion
  ReadUntilLnFirstMatch
  Responsive
PROPERTIES
  ImplementsRpc
CHECK_DEADLOCK FALSE
