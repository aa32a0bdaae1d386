CONSTANTS
  Shapes = {"jtag"}
  Slots = { {} }
  WithSlots = {"single", "jtag"}
  Inputs <- MCInputs
  Gaps = {"sealed_extra_cd"}
  MaxSeals = 1
  MaxSmc = 1
SPECIFICATION Spec
INVARIANT ChainLinked
CHECK_DEADLOCK FALSE
