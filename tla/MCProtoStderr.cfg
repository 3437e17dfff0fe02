CONSTANTS
  Cmds <- MCCmds
  Outputs <- ProgOutputs
  MaxCmds <- MCMaxCmds
INIT Init
NEXT Next
INVARIANT
  Responsive
CHECK_DEADLOCK FALSE
