CONSTANT MaxDoubts = 1
SPECIFICATION ExtractSpec
INVARIANT LocalTodayIsAccepted
CHECK_DEADLOCK FALSE
