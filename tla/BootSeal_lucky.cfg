CONSTANTS
  Shapes = {"single"}
  Slots = { {"F0", "G0"} }
  WithSlots = {"single", "jtag"}
  Inputs <- MCInputs
  Gaps = {"lucky_cg"}
  MaxSeals = 2
  MaxSmc = 1
SPECIFICATION Spec
INVARIANT OpensAgain
CHECK_DEADLOCK FALSE
