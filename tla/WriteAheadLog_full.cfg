SPECIFICATION Spec
CONSTANTS
    NumFrames = 3
    add = add
    execute = execute
    imbalance = imbalance
    Messages <- MCMessages
    LongMessages <- MCLongMessages
    LongestMessages <- MCLongMessages
    Fatal <- MCFatal
    Zero = Zero
    Overrun = Overrun
INVARIANT
    RecoveryStaysInFile
