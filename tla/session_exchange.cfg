CONSTANTS
  Symbol <- Symbols
  Name <- alice
  Drafts <- AllDrafts
  OldMails <- Old
  Stale <- Bytes
  MaxLen = 4
  MaxRequests = 4
  MayDie = TRUE
CHECK_DEADLOCK FALSE
SPECIFICATION FairSpec
INVARIANTS TypeOK InStep ReadAsStored PlainMailsAreSafe LoginAgrees
PROPERTIES ServedAsSent DeliveredWhenAsked ServiceSpec Answered
