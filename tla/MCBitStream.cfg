SPECIFICATION Spec
CONSTANTS
    ByteBits = 4
    StackBytes = 1
    GrowthLimit = 6
    PadSizes = {2, 3}
    MaxWrites = 3
    Fields <- MCFields
INVARIANTS
    BufferSound
    ReadsBack
CHECK_DEADLOCK FALSE
