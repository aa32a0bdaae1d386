\* JTAG patch sets longer than the block they start in.
SPECIFICATION Spec
CONSTANTS
    Images <- MCImages
    JtagPatchSizes = {14000}
    JtagXell = {TRUE}
INVARIANT
    ZeroFillStopsAtNextItem
CHECK_DEADLOCK FALSE
