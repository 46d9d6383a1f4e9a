CONSTANT Files <- MCFiles
SPECIFICATION Spec
INVARIANTS NothingUndefined NothingLost PrintedInOrder CleanPrefix
PROPERTY Ends
CHECK_DEADLOCK FALSE
