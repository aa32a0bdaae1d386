CONSTANTS
  Shapes = {"split"}
  Slots = { {} }
  WithSlots = {"single", "jtag"}
  Inputs <- MCInputs
  Gaps = {"patched_sealed"}
  MaxSeals = 2
  MaxSmc = 1
SPECIFICATION Spec
INVARIANT OpensAgain
CHECK_DEADLOCK FALSE
