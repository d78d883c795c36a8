-------------------------- MODULE MCSellerAccounts --------------------------
(* SellerAccounts on small instances: two sellers or one, two accounts     *)
(* each seller's attempts may end up with, two requests at once.           *)
EXTENDS SellerAccounts

CONSTANTS s1, s2, a1, a2, r1, r2, d1, d2

OneSeller == {s1}
TwoSellers == {s1, s2}
TwoAccounts == {a1, a2}
OneRequest == {r1}
TwoRequests == {r1, r2}
OneDelivery == {d1}
TwoDeliveries == {d1, d2}
=============================================================================
