\* JTAG images handed to the library without a XeLL.
SPECIFICATION Spec
CONSTANTS
    Images <- MCImages
    JtagPatchSizes = {1024}
    JtagXell = {FALSE}
INVARIANT
    FilesAreaClear
CHECK_DEADLOCK FALSE
