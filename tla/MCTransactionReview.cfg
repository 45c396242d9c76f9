CONSTANTS
  LastPage = 255
  Reviews <- MCReviews
  OtherReviews <- MCOther
  Width <- MCWidth
  Nesting = 12
  MAX_NUMBER_OF_TOKENS = 40
  MaxText = 90
  content <- MCContent
  NoPacket = NoPacket
  chainOf <- MCChainOf
  Wrong = Wrong
  Number <- MCNumber
  MAX_JSON_ARRAY_TOKEN_COUNT = 4
  INT8_MAX = 15
  PageWidth = 32
  Verdict <- MCVerdict
SPECIFICATION TransactionFairSpec
INVARIANTS TypeOK ApprovedOnlyWhenRead ErrorOnlyIfEmpty
INVARIANTS AcceptedAsTyped ShowsTheTransaction ValidatedIsShown
PROPERTIES OnePageAtATime ForwardDecides
