CONSTANTS
  Base = 2
  MaxInt = 2
  WholeDigits = 2
  FracDigits = 2
  MaxCommands = 1
  QMacroVariable = 2
  Documented = {0}
  LogCarries = {1}
  NaN = NaN
  None = None
SPECIFICATION Spec
INVARIANTS FixedPoint
CHECK_DEADLOCK FALSE
