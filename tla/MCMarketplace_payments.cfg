SPECIFICATION FairSpec
CONSTANTS
  s = s
  b1 = b1
  b2 = b2
  o1 = o1
  o2 = o2
  l1 = l1
  l2 = l2
  NoUser = NoUser
  NoListing = NoListing
  Orders <- OneOrder
  Listings <- OneListing
  Users <- OneBuyer
  SellerOf <- AllBySeller
  StripeFeatures <- AllFeatures
INVARIANTS
  BooksFollowTheMoney
  PaymentsAccountedFor
PROPERTIES
  CapturedIsAnswered
  RecordedRefundArrives
  DeliveredIsSettled
CHECK_DEADLOCK FALSE
