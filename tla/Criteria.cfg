SPECIFICATION Spec
CONSTANTS
  None = None
  Items <- Rows
  Resolve <- Columns
  ValidNames <- Names
  Lower <- LowerCase
  UUIDs <- Ids
  TrueText <- True
  FalseText <- False
  MaxInt = 7
  DefaultPageSize = 2
  MaxPageSize = 3
  FilterCalls <- FilterChoices
  HelperCalls <- HelperChoices
  OrderCalls <- OrderChoices
  PageCalls <- PageChoices
  Queries <- URLs
  Whitelists <- WhiteLists
  MaxFilters = 2
  MaxOrders = 1
INVARIANTS
  ParamsLineUp
  SanitizedConverts
  PagesPartition
  MemoryAgreesWithSQL
