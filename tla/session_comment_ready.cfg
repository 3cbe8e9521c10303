CONSTANTS
  Symbol <- Symbols
  Name <- alice
  Drafts <- OneCr
  OldMails <- OneCr
  Stale <- Bytes
  MaxLen = 4
  MaxRequests = 3
  MayDie = FALSE
CHECK_DEADLOCK FALSE
SPECIFICATION Spec
PROPERTIES ReadyForNewRun
