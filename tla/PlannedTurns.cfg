SPECIFICATION Spec
CONSTANTS
  Messages <- UserMessages
  CustomerOf <- Customers
  MerchantOf <- Merchants
  Personal <- LikePhone
  MaxSteps = 6
  MaxEntries = 3
  MaxPosts = 2
  None = None
INVARIANTS
  TypeOK
  ToolsRunOnceInOrder
  ReplyTellsWhatWasDone
  StepLimitOnlyCutsLongBatches
  AppealIsOfLastMessage
  LedgerExact
