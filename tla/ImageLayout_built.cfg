\* Every image the build assembles, written, read back and written again.
SPECIFICATION Spec
CONSTANTS
    Images <- MCImages
    JtagPatchSizes = {1024, 12288}
    JtagXell = {TRUE}
INVARIANTS
    LaidBytesSurvive
    FilesAreaClear
    SealPlanAgrees
    LayoutReadBack
CHECK_DEADLOCK FALSE
