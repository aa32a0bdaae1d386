CONSTANTS
  Shapes = {"single", "withSc", "split", "glitch3", "jtag", "dev"}
  Slots = { {}, {"F0", "G0"}, {"F0", "G0", "F1", "G1"} }
  WithSlots = {"single", "jtag"}
  Inputs <- MCInputs
  Gaps = {}
  MaxSeals = 3
  MaxSmc = 2
SPECIFICATION Spec
INVARIANTS
  ChainLinked
  OpensAgain
  DigestCurrent
  MacCurrent
PROPERTY ResealRestores
CHECK_DEADLOCK FALSE
