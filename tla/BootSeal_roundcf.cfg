CONSTANTS
  Shapes = {"single"}
  Slots = { {"F0", "G0"} }
  WithSlots = {"single", "jtag"}
  Inputs <- MCInputs
  Gaps = {"round_cf"}
  MaxSeals = 2
  MaxSmc = 1
SPECIFICATION Spec
INVARIANT OpensAgain
CHECK_DEADLOCK FALSE
