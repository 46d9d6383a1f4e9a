CONSTANTS
  Limit <- MCLimit
  MaxPrealloc = 4
  SizeMax = 40
  Slots = 2
  LlMax = 127
  LlStrSize = 5
  Texts <- MCTexts
  Lines <- MCLines
  Reprs <- MCReprs
  Seps <- MCSeps
  Csets <- MCCsets
  Fmts <- MCFmts
  Values <- MCValues
  Indexes <- MCIndexes
  MaxLen = 4
SPECIFICATION LSpec
INVARIANTS HeaderFits Terminated JoinRestores ArgsRead NumberRead
PROPERTY IsString
CHECK_DEADLOCK FALSE
