SPECIFICATION Spec
CONSTANTS
  s = s
  b1 = b1
  b2 = b2
  o1 = o1
  o2 = o2
  l1 = l1
  l2 = l2
  NoUser = NoUser
  NoListing = NoListing
  Orders <- TwoOrders
  Listings <- TwoListings
  Users <- TwoBuyers
  SellerOf <- AllBySeller
  StripeFeatures <- NoFeatures
SYMMETRY Symmetry
INVARIANTS
  NoDoubleSale
  
PROPERTIES
  KeepsTheLedger
CHECK_DEADLOCK FALSE
