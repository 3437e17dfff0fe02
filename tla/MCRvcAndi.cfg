CONSTANT AndiImm <- AndiNeg
INIT Init
NEXT Next
INVARIANTS
  RvcExpansion
CHECK_DEADLOCK FALSE
