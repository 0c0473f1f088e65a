SPECIFICATION Spec
CONSTANTS
  MaxDatagrams = 2
  MaxAttempts = 4
  MaxInterrupts = 1
CHECK_DEADLOCK FALSE
INVARIANTS BlackoutAlwaysEntered
