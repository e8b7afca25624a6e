CONSTANTS
  Calls = {c1, c2, c3}
  SN = SN
  Nil = Nil
  Prompt = Prompt
  Broadcast = FALSE
SPECIFICATION Spec
SYMMETRY Symmetry
INVARIANTS NoWedge
CHECK_DEADLOCK FALSE
