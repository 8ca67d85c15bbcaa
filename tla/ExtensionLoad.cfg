SPECIFICATION Spec
CONSTANT MaxFaults = 3
INVARIANTS NothingTooEarly MissingMacrosReported
CHECK_DEADLOCK FALSE
