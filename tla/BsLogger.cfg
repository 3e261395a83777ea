SPECIFICATION FairLogSpec
CONSTANTS
  stdout = stdout
  stderr = stderr
  Readers <- OutputReaders
  MaxSent = 4
INVARIANTS NothingReordered FileIsComplete
PROPERTY JoinReturns
CHECK_DEADLOCK FALSE
