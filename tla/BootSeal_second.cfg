CONSTANTS
  Shapes = {"jtag"}
  Slots = { {} }
  WithSlots = {"single", "jtag"}
  Inputs <- MCInputs
  Gaps = {"second_chain"}
  MaxSeals = 1
  MaxSmc = 1
SPECIFICATION Spec
INVARIANT OpensEverySealedStage
CHECK_DEADLOCK FALSE
