SPECIFICATION FairSpec
CONSTANTS
  s1 = s1
  s2 = s2
  a1 = a1
  a2 = a2
  r1 = r1
  r2 = r2
  d1 = d1
  d2 = d2
  NoSeller = NoSeller
  NoAccount = NoAccount
  Sellers <- OneSeller
  Accounts <- TwoAccounts
  Requests <- TwoRequests
  Deliveries <- OneDelivery
  ReleaseAfterOrders = 2
  HeldLimit = 2
  MaxEvents = 2
INVARIANTS
  MoneyWaits
  LinksLeadHome
  
PROPERTIES
  EarnedHoldIsLifted
