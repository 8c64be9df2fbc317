CONSTANTS
  buy = buy
  price = price
  teach = teach
  login = login
  site = site
  to = to
  x = x
  online = online
  may = may
  go = go
  goes = goes
  None = None
  Rows <- MCRows
  Analysed <- Rejoined
  Lines <- MCLines
  Stopwords = {to}
  Markers <- Catalog
  Insufficient = {online}
  MaxRows = 3
SPECIFICATION DemoSpec
INVARIANTS
  TypeOK
  MarkersTile
  CoreIsWhatMarkersLeave
  HeadIsTheReason
  OrderIsIrrelevant
  PageAccountsForAll
CHECK_DEADLOCK FALSE
