CONSTANTS
  Shapes = {"withSc"}
  Slots = { {} }
  WithSlots = {"single", "jtag"}
  Inputs <- MCInputs
  Gaps = {"open_sc"}
  MaxSeals = 2
  MaxSmc = 1
SPECIFICATION Spec
INVARIANT OpensAgain
CHECK_DEADLOCK FALSE
