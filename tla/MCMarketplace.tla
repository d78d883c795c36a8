---------------------------- MODULE MCMarketplace ----------------------------
(* Marketplace on small instances: one seller s, who owns every listing,   *)
(* and the buyers; two orders race for the listings.                       *)
EXTENDS Marketplace, TLC

CONSTANTS s, b1, b2, o1, o2, l1, l2

OneBuyer == {s, b1}
TwoBuyers == {s, b1, b2}
OneOrder == {o1}
TwoOrders == {o1, o2}
OneListing == {l1}
TwoListings == {l1, l2}
AllBySeller == [l \in Listings |-> s]

NoFeatures == {}
Delayed == {"delayed"}
AllFeatures == {"delayed", "partial", "dispute"}

Symmetry == Permutations(Orders) \cup Permutations(Users \ {s})
==============================================================================
