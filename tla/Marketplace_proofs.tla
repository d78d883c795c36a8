------------------------- MODULE Marketplace_proofs -------------------------
(***************************************************************************)
(* Theorems about Marketplace for every set of orders, listings, users and *)
(* Stripe features. First the types, then the inductive invariant that     *)
(* relates each order to its request and to its charge, then the           *)
(* properties that follow from it and the refinement of SaleLedger, and at *)
(* the end what the ledger promises by itself.                             *)
(***************************************************************************)
EXTENDS Marketplace, SaleLedger, TLAPS

-----------------------------------------------------------------------------
(* Facts about the transition table.                                       *)

(* The table only names the statuses and the actors there are.             *)
LEMMA MovesAreTyped ==
  ASSUME NEW from, NEW to, NEW actor, CanTransition(from, to, actor)
  PROVE  from \in OrderStatus /\ to \in OrderStatus /\ actor \in OrderActor
BY DEF CanTransition, Moves, Escalators, OrderStatus, OrderActor

(* What a move within the types leaves behind is within the types.         *)
LEMMA MoveIsTyped ==
  ASSUME TypeOK, NEW o \in Orders, NEW row \in OrderRow, NEW to, NEW actor,
         Move(o, row, to, actor)
  PROVE  /\ order' \in [Orders -> OrderRow]
         /\ newest' \in [Orders -> OrderEvent \cup {NoEvent}]
<1>1. /\ order[o].status \in OrderStatus
      /\ to \in OrderStatus
      /\ actor \in OrderActor
  BY MovesAreTyped DEF Move
<1>2. [row EXCEPT !.status = to] \in OrderRow
  BY <1>1 DEF OrderRow
<1>3. [from |-> order[o].status, to |-> to, actor |-> actor] \in OrderEvent
  BY <1>1 DEF OrderEvent
<1>. QED  BY <1>2, <1>3 DEF TypeOK, Move

-----------------------------------------------------------------------------
(* Type correctness.                                                       *)

LEMMA TypeInit == Init => TypeOK
BY DEF Init, TypeOK, ListingStatus, OrderRow, OrderStatus, NoOrder, NoEvent,
       Request, NoRequest, StripeState, NoCharge

LEMMA ListingTypeStep == TypeOK /\ ListingNext => TypeOK'
<1>. SUFFICES ASSUME TypeOK, NEW l \in Listings,
                     \/ CreateListing(l)
                     \/ \E status \in ListingStatus : SetListingStatus(l, status)
                     \/ DeleteDraftListing(l)
              PROVE  TypeOK'
  BY DEF ListingNext
<1>1. CASE CreateListing(l)
  BY <1>1 DEF CreateListing, listingAlone, TypeOK, ListingStatus
<1>2. CASE \E status \in ListingStatus : SetListingStatus(l, status)
  BY <1>2 DEF SetListingStatus, listingAlone, TypeOK
<1>3. CASE DeleteDraftListing(l)
  <2>1. listing' \in [Listings -> ListingStatus]
    BY <1>3 DEF DeleteDraftListing, TypeOK, ListingStatus
  <2>2. \A o \in Orders : order[o] \in OrderRow
    BY DEF TypeOK
  <2>3. \A o \in Orders : [order[o] EXCEPT !.listingId = NoListing] \in OrderRow
    BY <2>2 DEF OrderRow
  <2>4. order' \in [Orders -> OrderRow]
    BY <1>3, <2>2, <2>3 DEF DeleteDraftListing
  <2>. QED  BY <1>3, <2>1, <2>4 DEF DeleteDraftListing, TypeOK
<1>. QED  BY <1>1, <1>2, <1>3

LEMMA BuyTypeStep ==
  ASSUME TypeOK, NEW o \in Orders, BuyNext(o)
  PROVE  TypeOK'
<1>. USE DEF TypeOK
<1>0. request[o] \in Request /\ order[o] \in OrderRow /\ stripe[o] \in StripeState
  OBVIOUS
<1>1. ASSUME NEW buyer \in Users, NEW l \in Listings, BuyReads(o, buyer, l)
      PROVE  TypeOK'
  BY <1>1 DEF BuyReads, Request
<1>2. CASE BuyInserts(o)
  <2>1. request[o].listing \in Listings /\ request[o].buyer \in Users
    BY <1>0, <1>2 DEF BuyInserts, Request, NoRequest
  <2>2. SellerOf[request[o].listing] \in Users
    BY <2>1, ListingsAssumption
  <2>3. order' \in [Orders -> OrderRow]
    BY <1>2, <2>1, <2>2 DEF BuyInserts, OrderRow, NoOrder, OrderStatus
  <2>4. request' \in [Orders -> Request]
    BY <1>0, <1>2 DEF BuyInserts, Request, NoRequest
  <2>. QED  BY <1>2, <2>3, <2>4 DEF BuyInserts
<1>3. CASE BuyOpensSession(o)
  <2>1. stripe' \in [Orders -> StripeState]
    BY <1>0, <1>3 DEF BuyOpensSession, StripeState
  <2>2. request' \in [Orders -> Request]
    BY <1>0, <1>3 DEF BuyOpensSession, Request, NoRequest
  <2>. QED  BY <1>3, <2>1, <2>2 DEF BuyOpensSession
<1>4. CASE BuyAnswers(o)
  <2>1. order' \in [Orders -> OrderRow]
    BY <1>0, <1>4 DEF BuyAnswers, OrderRow
  <2>2. request' \in [Orders -> Request]
    BY <1>0, <1>4 DEF BuyAnswers, Request, NoRequest
  <2>. QED  BY <1>4, <2>1, <2>2 DEF BuyAnswers
<1>5. CASE BuyStops(o)
  <2>1. NoRequest \in Request
    BY DEF Request
  <2>2. request[o].step # "idle" => [request[o] EXCEPT !.step = "lost"] \in Request
    BY <1>0 DEF Request, NoRequest
  <2>3. request' \in [Orders -> Request]
    BY <1>5, <2>1, <2>2 DEF BuyStops
  <2>. QED  BY <1>5, <2>3 DEF BuyStops
<1>. QED  BY <1>1, <1>2, <1>3, <1>4, <1>5 DEF BuyNext

LEMMA StripeTypeStep ==
  ASSUME TypeOK, NEW o \in Orders, StripeNext(o)
  PROVE  TypeOK'
<1>. SUFFICES stripe' \in [Orders -> StripeState] /\ UNCHANGED stripeAlone
  BY DEF stripeAlone, TypeOK
<1>0. stripe \in [Orders -> StripeState] /\ stripe[o] \in StripeState
  BY DEF TypeOK
<1>1. ASSUME NEW charge \in {"captured", "pending"}, BuyerPays(o, charge)
      PROVE  stripe' \in [Orders -> StripeState] /\ UNCHANGED stripeAlone
  BY <1>0, <1>1 DEF BuyerPays, StripeState
<1>2. ASSUME NEW charge \in {"cleared", "failed"}, DelayedPaymentSettles(o, charge)
      PROVE  stripe' \in [Orders -> StripeState] /\ UNCHANGED stripeAlone
  BY <1>0, <1>2 DEF DelayedPaymentSettles, StripeState
<1>3. CASE SessionExpires(o)
  BY <1>0, <1>3 DEF SessionExpires, StripeState
<1>4. CASE RefundInPart(o)
  BY <1>0, <1>4 DEF RefundInPart, StripeState
<1>5. CASE RefundInFull(o)
  BY <1>0, <1>5 DEF RefundInFull, StripeState
<1>6. CASE BankOpensDispute(o)
  BY <1>0, <1>6 DEF BankOpensDispute, StripeState
<1>. QED  BY <1>1, <1>2, <1>3, <1>4, <1>5, <1>6 DEF StripeNext

LEMMA WebhookTypeStep ==
  ASSUME TypeOK, NEW o \in Orders, WebhookNext(o)
  PROVE  TypeOK'
<1>0. order[o] \in OrderRow
  BY DEF TypeOK
<1>1. ASSUME NEW type \in EventType, Claim(type, o)
      PROVE  claimed' \in SUBSET (EventType \X Orders)
  BY <1>1 DEF Claim, TypeOK
<1>2. ASSUME NEW action \in AuditAction, Audited(action, o)
      PROVE  audit' \in SUBSET (AuditAction \X Orders)
  BY <1>2 DEF Audited, TypeOK
<1>3. CASE PaymentEvent(o)
  <2>1. claimed' \in SUBSET (EventType \X Orders)
    BY <1>1, <1>3 DEF PaymentEvent, EventType
  <2>2. audit' \in SUBSET (AuditAction \X Orders)
    BY <1>2, <1>3 DEF PaymentEvent, AuditAction, TypeOK
  <2>3. listing' \in [Listings -> ListingStatus]
    BY <1>3 DEF PaymentEvent, ListingStatus, TypeOK
  <2>4. [order[o] EXCEPT !.intent = TRUE, !.checkout = TRUE] \in OrderRow
    BY <1>0 DEF OrderRow
  <2>5. /\ order' \in [Orders -> OrderRow]
        /\ newest' \in [Orders -> OrderEvent \cup {NoEvent}]
    <3>1. CASE UNCHANGED <<order, newest>>
      BY <3>1 DEF TypeOK
    <3>2. CASE Move(o, [order[o] EXCEPT !.intent = TRUE, !.checkout = TRUE],
                    "paid", "stripe")
      BY <2>4, <3>2, MoveIsTyped
    <3>. QED  BY <1>3, <3>1, <3>2 DEF PaymentEvent
  <2>. QED  BY <1>3, <2>1, <2>2, <2>3, <2>5 DEF PaymentEvent, TypeOK
<1>4. ASSUME NEW type \in EventType, IgnoredEvent(o, type)
      PROVE  TypeOK'
  BY <1>1, <1>4 DEF IgnoredEvent, TypeOK
<1>5. CASE RefundEvent(o)
  <2>1. claimed' \in SUBSET (EventType \X Orders)
    BY <1>1, <1>5 DEF RefundEvent, EventType
  <2>2. audit' \in SUBSET (AuditAction \X Orders)
    BY <1>2, <1>5 DEF RefundEvent, AuditAction, TypeOK
  <2>3. UNCHANGED <<order, newest>> \/ Move(o, order[o], "refunded", "stripe")
    BY <1>5 DEF RefundEvent
  <2>4. /\ order' \in [Orders -> OrderRow]
        /\ newest' \in [Orders -> OrderEvent \cup {NoEvent}]
    BY <1>0, <2>3, MoveIsTyped DEF TypeOK
  <2>. QED  BY <1>5, <2>1, <2>2, <2>4 DEF RefundEvent, TypeOK
<1>6. CASE DisputeEvent(o)
  <2>1. claimed' \in SUBSET (EventType \X Orders)
    BY <1>1, <1>6 DEF DisputeEvent, EventType
  <2>2. UNCHANGED <<order, newest>> \/ Move(o, order[o], "disputed", "stripe")
    BY <1>6 DEF DisputeEvent
  <2>3. /\ order' \in [Orders -> OrderRow]
        /\ newest' \in [Orders -> OrderEvent \cup {NoEvent}]
    BY <1>0, <2>2, MoveIsTyped DEF TypeOK
  <2>. QED  BY <1>6, <2>1, <2>3 DEF DisputeEvent, TypeOK
<1>. QED  BY <1>3, <1>4, <1>5, <1>6 DEF WebhookNext

LEMMA PeopleTypeStep ==
  ASSUME TypeOK, NEW o \in Orders, PeopleNext(o)
  PROVE  TypeOK'
<1>0. order[o] \in OrderRow /\ stripe[o] \in StripeState
  BY DEF TypeOK
<1>1. ASSUME NEW row \in OrderRow, NEW to, NEW actor, Move(o, row, to, actor),
             UNCHANGED partyAlone
      PROVE  TypeOK'
  BY <1>1, MoveIsTyped DEF partyAlone, TypeOK
<1>2. ASSUME NEW user \in Users, ShipOrder(o, user)  PROVE TypeOK'
  <2>1. [order[o] EXCEPT !.tracking = TRUE] \in OrderRow
    BY <1>0 DEF OrderRow
  <2>. QED  BY <1>1, <1>2, <2>1 DEF ShipOrder, WebMove
<1>3. ASSUME NEW user \in Users, CancelOrder(o, user)  PROVE TypeOK'
  BY <1>0, <1>1, <1>3 DEF CancelOrder, WebMove
<1>4. ASSUME NEW user \in Users, DisputeOrder(o, user)  PROVE TypeOK'
  BY <1>0, <1>1, <1>4 DEF DisputeOrder, WebMove
<1>5. CASE AdminDelivers(o)
  BY <1>0, <1>1, <1>5 DEF AdminDelivers
<1>6. CASE AdminCompletes(o)
  BY <1>0, <1>1, <1>6 DEF AdminCompletes
<1>7. CASE AdminRefunds(o)
  BY <1>0, <1>7 DEF AdminRefunds, stripeAlone, StripeState, TypeOK
<1>. QED  BY <1>2, <1>3, <1>4, <1>5, <1>6, <1>7 DEF PeopleNext

LEMMA JobTypeStep == TypeOK /\ JobNext => TypeOK'
<1>. SUFFICES ASSUME TypeOK, JobNext  PROVE TypeOK'
  OBVIOUS
<1>1. ASSUME NEW o \in Orders, HoldWindowPasses(o)  PROVE TypeOK'
  BY <1>1 DEF HoldWindowPasses, TypeOK
<1>2. ASSUME NEW o \in Orders, JobTries(o)  PROVE TypeOK'
  <2>1. order[o] \in OrderRow
    BY DEF TypeOK
  <2>2. /\ order' \in [Orders -> OrderRow]
        /\ newest' \in [Orders -> OrderEvent \cup {NoEvent}]
    BY <1>2, <2>1, MoveIsTyped DEF JobTries, TypeOK
  <2>. QED  BY <1>2, <2>2 DEF JobTries, TypeOK
<1>3. CASE JobLists
  BY <1>3 DEF JobLists, ReadyToComplete, TypeOK
<1>4. CASE JobDies
  BY <1>4 DEF JobDies, TypeOK
<1>. QED  BY <1>1, <1>2, <1>3, <1>4 DEF JobNext

LEMMA TypeStep == TypeOK /\ [Next]_vars => TypeOK'
<1>. SUFFICES ASSUME TypeOK, [Next]_vars  PROVE TypeOK'
  OBVIOUS
<1>1. CASE UNCHANGED vars
  BY <1>1 DEF vars, TypeOK
<1>2. CASE Next
  BY <1>2, ListingTypeStep, BuyTypeStep, StripeTypeStep, WebhookTypeStep,
     PeopleTypeStep, JobTypeStep DEF Next
<1>. QED  BY <1>1, <1>2

(* Every variable keeps to its type, and an order's row to its columns.    *)
THEOREM TypeCorrect == Spec => []TypeOK
<1>. QED  BY TypeInit, TypeStep, PTL DEF Spec
-----------------------------------------------------------------------------
(* The inductive invariant: what an order, the request that made it and    *)
(* the charge behind it know of each other.                                *)

Recorded(o) == order[o].status \notin {"none", "created", "cancelled"}

OrderInv(o) ==
  /\ request[o].step \in {"idle", "seen"} <=> order[o].status = "none"
  /\ request[o].step \in {"idle", "seen", "ordered"} => stripe[o].session = "none"
  /\ stripe[o].charge # "none" => stripe[o].session = "complete"
  /\ stripe[o].refund => MoneyTaken(o)
  /\ order[o].intent <=> Recorded(o)
  /\ Recorded(o) => stripe[o].charge = "captured"
  /\ order[o].status = "refunded" => stripe[o].refund
  /\ order[o].status # "none" =>
       \/ order[o].listingId = request[o].listing
       \/ listing[request[o].listing] = "deleted"
  /\ order[o].listingId # NoListing => listing[order[o].listingId] # "deleted"

IInv == TypeOK /\ \A o \in Orders : OrderInv(o)
(* An order that exists is for a listing its buyer has read.               *)
LEMMA OrderHasListing ==
  ASSUME TypeOK, NEW p \in Orders, OrderInv(p), order[p].status # "none"
  PROVE  request[p].listing \in Listings
<1>1. request[p].step # "idle"
  BY DEF OrderInv
<1>. QED  BY <1>1 DEF TypeOK, Request, NoRequest

(* A step that leaves an order, its request and its charge alone, and      *)
(* neither deletes a listing nor brings one back, keeps what the invariant *)
(* says of the order.                                                      *)
SameDeleted == \A l \in Listings : listing'[l] = "deleted" <=> listing[l] = "deleted"

LEMMA Frame ==
  ASSUME TypeOK, NEW p \in Orders, OrderInv(p), SameDeleted,
         order'[p] = order[p], request'[p] = request[p], stripe'[p] = stripe[p]
  PROVE  OrderInv(p)'
<1>1. order[p].listingId \in Listings \cup {NoListing}
  BY DEF TypeOK, OrderRow
<1>2. order[p].status # "none" => request[p].listing \in Listings
  BY OrderHasListing
<1>. QED  BY <1>1, <1>2 DEF SameDeleted, OrderInv, Recorded, MoneyTaken

(* What a move writes, and what it leaves alone.                           *)
LEMMA MoveWrites ==
  ASSUME TypeOK, NEW o \in Orders, NEW row \in OrderRow, NEW to, NEW actor,
         Move(o, row, to, actor)
  PROVE  /\ CanTransition(order[o].status, to, actor)
         /\ order'[o].status = to
         /\ order'[o].intent = row.intent
         /\ order'[o].listingId = row.listingId
         /\ \A p \in Orders \ {o} : order'[p] = order[p]
BY DEF Move, OrderRow, TypeOK

(* Only two moves begin at created, and a person who may not act as admin  *)
(* cannot take back a payment that was recorded.                           *)
LEMMA MovesKeepRecorded ==
  ASSUME NEW from, NEW to, NEW actor, CanTransition(from, to, actor)
  PROVE  /\ from \notin {"none", "cancelled", "refunded"}
         /\ to \notin {"none", "created"}
         /\ from = "created" => to \in {"paid", "cancelled"}
         /\ to = "paid" => from = "created"
         /\ to = "cancelled" => from = "created" \/ actor = "admin"
         /\ to = "refunded" => actor = "stripe"
BY DEF CanTransition, Moves, Escalators

(* A move of a recorded order to a state that keeps it recorded, or of an  *)
(* order nobody has paid for to cancelled, disturbs nothing.               *)
LEMMA MoveKeepsInv ==
  ASSUME IInv, NEW o \in Orders, NEW row \in OrderRow, NEW to, NEW actor,
         Move(o, row, to, actor),
         row.intent = order[o].intent, row.listingId = order[o].listingId,
         UNCHANGED <<listing, request, stripe>>,
         to # "paid",
         to = "cancelled" => actor # "admin",
         to = "refunded" => stripe[o].refund
  PROVE  \A p \in Orders : OrderInv(p)'
<1>1. ASSUME NEW p \in Orders, p # o  PROVE OrderInv(p)'
  BY <1>1, MoveWrites, Frame DEF IInv, SameDeleted
<1>2. OrderInv(o)'
  <2>1. /\ order'[o].status = to
        /\ order'[o].intent = order[o].intent
        /\ order'[o].listingId = order[o].listingId
        /\ CanTransition(order[o].status, to, actor)
    BY MoveWrites DEF IInv
  <2>2. /\ order[o].status # "none"
        /\ to # "none"
        /\ Recorded(o) <=> to \notin {"none", "created", "cancelled"}
    BY <2>1, MovesKeepRecorded DEF Recorded
  <2>. QED  BY <2>1, <2>2 DEF OrderInv, Recorded, MoneyTaken, IInv
<1>. QED  BY <1>1, <1>2

LEMMA InvInit == Init => IInv
<1>. SUFFICES ASSUME Init  PROVE IInv
  OBVIOUS
<1>1. ASSUME NEW o \in Orders  PROVE OrderInv(o)
  BY DEF Init, OrderInv, Recorded, NoOrder, NoRequest, NoCharge
<1>. QED  BY <1>1, TypeInit DEF IInv

LEMMA ListingInvStep ==
  ASSUME IInv, ListingNext, NEW p \in Orders
  PROVE  OrderInv(p)'
<1>. USE DEF IInv
<1>1. order[p].status # "none" => request[p].listing \in Listings
  BY OrderHasListing
<1>2. ASSUME NEW l \in Listings, CreateListing(l)  PROVE OrderInv(p)'
  BY <1>2, Frame DEF CreateListing, listingAlone, TypeOK, SameDeleted
<1>3. ASSUME NEW l \in Listings, NEW status \in ListingStatus, SetListingStatus(l, status)
      PROVE  OrderInv(p)'
  BY <1>3, Frame DEF SetListingStatus, listingAlone, TypeOK, SameDeleted
<1>4. ASSUME NEW l \in Listings, DeleteDraftListing(l)  PROVE OrderInv(p)'
  <2>1. order[p] \in OrderRow
    BY DEF TypeOK
  <2>2. /\ order'[p].status = order[p].status
        /\ order'[p].intent = order[p].intent
        /\ order'[p].listingId = IF order[p].listingId = l THEN NoListing
                                  ELSE order[p].listingId
        /\ request'[p] = request[p] /\ stripe'[p] = stripe[p]
    BY <1>4, <2>1 DEF DeleteDraftListing, OrderRow
  <2>3. \A k \in Listings : listing'[k] = "deleted" <=> k = l \/ listing[k] = "deleted"
    BY <1>4 DEF DeleteDraftListing, TypeOK
  <2>4. order[p].listingId \in Listings \cup {NoListing}
    BY <2>1 DEF OrderRow
  <2>. QED  BY <1>1, <2>2, <2>3, <2>4 DEF OrderInv, Recorded, MoneyTaken
<1>. QED  BY <1>2, <1>3, <1>4 DEF ListingNext

LEMMA BuyInvStep ==
  ASSUME IInv, NEW o \in Orders, BuyNext(o), NEW p \in Orders
  PROVE  OrderInv(p)'
<1>. USE DEF IInv
<1>0. /\ order \in [Orders -> OrderRow] /\ order[o] \in OrderRow
      /\ request \in [Orders -> Request] /\ request[o] \in Request
      /\ stripe \in [Orders -> StripeState] /\ stripe[o] \in StripeState
      /\ OrderInv(o)
  BY DEF TypeOK
<1>1. CASE p # o
  BY <1>0, <1>1, Frame
     DEF BuyNext, BuyReads, BuyInserts, BuyOpensSession, BuyAnswers, BuyStops,
         SameDeleted
<1>. SUFFICES OrderInv(o)'
  BY <1>1
<1>2. ASSUME NEW buyer \in Users, NEW l \in Listings, BuyReads(o, buyer, l)
      PROVE  OrderInv(o)'
  BY <1>0, <1>2 DEF BuyReads, OrderInv, Recorded, MoneyTaken
<1>3. CASE BuyInserts(o)
  <2>1. /\ order'[o].status = "created" /\ ~ order'[o].intent
        /\ order'[o].listingId = request[o].listing
    BY <1>0, <1>3 DEF BuyInserts, NoOrder
  <2>2. /\ request'[o].step = "ordered" /\ request'[o].listing = request[o].listing
        /\ request[o].step = "seen" /\ stripe'[o] = stripe[o]
    BY <1>0, <1>3 DEF BuyInserts, Request, NoRequest
  <2>3. listing[request[o].listing] # "deleted" /\ listing' = listing
    BY <1>3 DEF BuyInserts
  <2>. QED  BY <1>0, <2>1, <2>2, <2>3 DEF OrderInv, Recorded, MoneyTaken
<1>4. CASE BuyOpensSession(o)
  <2>1. /\ request[o].step = "ordered" /\ request'[o].step = "sessioned"
        /\ request'[o].listing = request[o].listing
        /\ order' = order /\ listing' = listing
    BY <1>0, <1>4 DEF BuyOpensSession, Request, NoRequest
  <2>2. /\ stripe'[o].charge = stripe[o].charge /\ stripe'[o].refund = stripe[o].refund
        /\ stripe[o].session = "none"
    BY <1>0, <1>4 DEF BuyOpensSession, StripeState, OrderInv
  <2>. QED  BY <1>0, <2>1, <2>2 DEF OrderInv, Recorded, MoneyTaken
<1>5. CASE BuyAnswers(o)
  <2>1. /\ request[o].step = "sessioned" /\ request'[o].step = "answered"
        /\ request'[o].listing = request[o].listing
        /\ stripe' = stripe /\ listing' = listing
    BY <1>0, <1>5 DEF BuyAnswers, Request, NoRequest
  <2>2. /\ order'[o].status = order[o].status /\ order'[o].intent = order[o].intent
        /\ order'[o].listingId = order[o].listingId
    BY <1>0, <1>5 DEF BuyAnswers, OrderRow
  <2>. QED  BY <1>0, <2>1, <2>2 DEF OrderInv, Recorded, MoneyTaken
<1>6. CASE BuyStops(o)
  <2>1. /\ order' = order /\ stripe' = stripe /\ listing' = listing
        /\ \/ request[o].step = "seen" /\ request'[o].step = "idle"
           \/ /\ request[o].step \in {"ordered", "sessioned"}
              /\ request'[o].step = "lost" /\ request'[o].listing = request[o].listing
    BY <1>0, <1>6 DEF BuyStops, Request, NoRequest
  <2>. QED  BY <1>0, <2>1 DEF OrderInv, Recorded, MoneyTaken
<1>. QED  BY <1>2, <1>3, <1>4, <1>5, <1>6 DEF BuyNext

LEMMA StripeInvStep ==
  ASSUME IInv, NEW o \in Orders, StripeNext(o), NEW p \in Orders
  PROVE  OrderInv(p)'
<1>. USE DEF IInv
<1>0. /\ stripe \in [Orders -> StripeState] /\ stripe[o] \in StripeState
      /\ OrderInv(o)
  BY DEF TypeOK
<1>1. UNCHANGED stripeAlone
  BY DEF StripeNext, BuyerPays, DelayedPaymentSettles, SessionExpires,
         RefundInPart, RefundInFull, BankOpensDispute
<1>2. CASE p # o
  <2>1. stripe'[p] = stripe[p]
    BY <1>0, <1>2 DEF StripeNext, BuyerPays, DelayedPaymentSettles, SessionExpires,
                      RefundInPart, RefundInFull, BankOpensDispute
  <2>. QED  BY <1>1, <2>1, Frame DEF stripeAlone, SameDeleted
<1>. SUFFICES OrderInv(o)'
  BY <1>2
<1>3. ASSUME NEW charge \in {"captured", "pending"}, BuyerPays(o, charge)
      PROVE  OrderInv(o)'
  <2>1. /\ stripe'[o].session = "complete" /\ stripe'[o].charge = charge
        /\ stripe'[o].refund = stripe[o].refund
        /\ stripe[o].session = "open" /\ request[o].step = "answered"
    BY <1>0, <1>3 DEF BuyerPays, StripeState
  <2>. QED  BY <1>0, <1>1, <2>1 DEF stripeAlone, OrderInv, Recorded, MoneyTaken
<1>4. ASSUME NEW charge \in {"cleared", "failed"}, DelayedPaymentSettles(o, charge)
      PROVE  OrderInv(o)'
  <2>1. /\ stripe'[o].session = stripe[o].session /\ stripe'[o].charge = charge
        /\ stripe'[o].refund = stripe[o].refund
        /\ stripe[o].charge = "pending"
    BY <1>0, <1>4 DEF DelayedPaymentSettles, StripeState
  <2>. QED  BY <1>0, <1>1, <2>1 DEF stripeAlone, OrderInv, Recorded, MoneyTaken
<1>5. CASE SessionExpires(o)
  <2>1. /\ stripe'[o].session = "expired" /\ stripe'[o].charge = stripe[o].charge
        /\ stripe'[o].refund = stripe[o].refund
        /\ stripe[o].session = "open"
    BY <1>0, <1>5 DEF SessionExpires, StripeState
  <2>. QED  BY <1>0, <1>1, <2>1 DEF stripeAlone, OrderInv, Recorded, MoneyTaken
<1>6. CASE RefundInPart(o) \/ BankOpensDispute(o)
  <2>1. /\ stripe'[o].session = stripe[o].session /\ stripe'[o].charge = stripe[o].charge
        /\ stripe'[o].refund = stripe[o].refund
    BY <1>0, <1>6 DEF RefundInPart, BankOpensDispute, StripeState
  <2>. QED  BY <1>0, <1>1, <2>1 DEF stripeAlone, OrderInv, Recorded, MoneyTaken
<1>7. CASE RefundInFull(o)
  <2>1. /\ stripe'[o].session = stripe[o].session /\ stripe'[o].charge = stripe[o].charge
        /\ stripe'[o].refund /\ MoneyTaken(o)
    BY <1>0, <1>7 DEF RefundInFull, StripeState
  <2>. QED  BY <1>0, <1>1, <2>1 DEF stripeAlone, OrderInv, Recorded, MoneyTaken
<1>. QED  BY <1>3, <1>4, <1>5, <1>6, <1>7 DEF StripeNext
LEMMA WebhookInvStep ==
  ASSUME IInv, NEW o \in Orders, WebhookNext(o), NEW p \in Orders
  PROVE  OrderInv(p)'
<1>. USE DEF IInv
<1>. DEFINE row == [order[o] EXCEPT !.intent = TRUE, !.checkout = TRUE]
            Paid == /\ stripe[o].charge = "captured"
                    /\ Move(o, row, "paid", "stripe")
                    /\ listing' = [l \in Listings |->
                                     IF l = order[o].listingId THEN "sold"
                                                               ELSE listing[l]]
                    /\ UNCHANGED <<request, stripe>>
            Refunded == /\ stripe[o].refund
                        /\ Move(o, order[o], "refunded", "stripe")
                        /\ UNCHANGED <<listing, request, stripe>>
            Disputed == /\ Move(o, order[o], "disputed", "stripe")
                        /\ UNCHANGED <<listing, request, stripe>>
            Nothing == UNCHANGED <<listing, order, newest, request, stripe>>
<1>0. order[o] \in OrderRow /\ OrderInv(o) /\ OrderInv(p)
  BY DEF TypeOK
<1>1. Paid \/ Refunded \/ Disputed \/ Nothing
  <2>1. PaymentEvent(o) => Paid \/ Nothing
    BY DEF PaymentEvent
  <2>2. \A type \in EventType : IgnoredEvent(o, type) => Nothing
    BY DEF IgnoredEvent
  <2>3. RefundEvent(o) => Refunded \/ Nothing
    BY DEF RefundEvent, Claim, Emitted
  <2>4. DisputeEvent(o) => Disputed \/ Nothing
    BY DEF DisputeEvent
  <2>. QED  BY <2>1, <2>2, <2>3, <2>4 DEF WebhookNext
<1>2. CASE Paid
  <2>1. /\ row \in OrderRow
        /\ row.intent
        /\ row.listingId = order[o].listingId
    BY <1>0 DEF OrderRow
  <2>. HIDE DEF row
  <2>2. /\ order[o].status = "created"
        /\ order'[o].status = "paid"
        /\ order'[o].intent
        /\ order'[o].listingId = order[o].listingId
        /\ \A q \in Orders \ {o} : order'[q] = order[q]
    BY <1>2, <2>1, MoveWrites, MovesKeepRecorded
  <2>3. SameDeleted
    <3>1. order[o].listingId # NoListing => listing[order[o].listingId] # "deleted"
      BY <1>0 DEF OrderInv
    <3>. QED  BY <1>2, <3>1, ListingsAssumption DEF SameDeleted
  <2>4. CASE p = o
    <3>1. order[o].listingId \in Listings \cup {NoListing}
      BY <1>0 DEF OrderRow
    <3>2. request[o].listing \in Listings
      BY <1>0, <2>2, OrderHasListing
    <3>. QED  BY <1>0, <1>2, <2>2, <2>3, <2>4, <3>1, <3>2
              DEF OrderInv, Recorded, MoneyTaken, SameDeleted
  <2>5. CASE p # o
    BY <1>0, <1>2, <2>2, <2>3, <2>5, Frame
  <2>. QED  BY <2>4, <2>5
<1>3. CASE Refunded
  BY <1>0, <1>3, MoveKeepsInv
<1>4. CASE Disputed
  BY <1>0, <1>4, MoveKeepsInv
<1>5. CASE Nothing
  BY <1>0, <1>5, Frame DEF SameDeleted
<1>. QED  BY <1>1, <1>2, <1>3, <1>4, <1>5

LEMMA PeopleInvStep ==
  ASSUME IInv, NEW o \in Orders, PeopleNext(o), NEW p \in Orders
  PROVE  OrderInv(p)'
<1>. USE DEF IInv
<1>0. order[o] \in OrderRow /\ stripe[o] \in StripeState /\ OrderInv(o) /\ OrderInv(p)
  BY DEF TypeOK
<1>1. ASSUME NEW user \in Users, ShipOrder(o, user)  PROVE OrderInv(p)'
  <2>. DEFINE row == [order[o] EXCEPT !.tracking = TRUE]
  <2>1. /\ row \in OrderRow
        /\ row.intent = order[o].intent
        /\ row.listingId = order[o].listingId
    BY <1>0 DEF OrderRow
  <2>2. Move(o, row, "shipped", "seller") /\ UNCHANGED <<listing, request, stripe>>
    BY <1>1 DEF ShipOrder, WebMove, partyAlone
  <2>. HIDE DEF row
  <2>. QED  BY <2>1, <2>2, MoveKeepsInv
<1>2. ASSUME NEW user \in Users, CancelOrder(o, user)  PROVE OrderInv(p)'
  <2>1. /\ \E actor \in {"buyer", "seller"} : Move(o, order[o], "cancelled", actor)
        /\ UNCHANGED <<listing, request, stripe>>
    BY <1>2 DEF CancelOrder, WebMove, partyAlone
  <2>. QED  BY <1>0, <2>1, MoveKeepsInv
<1>3. ASSUME NEW user \in Users, DisputeOrder(o, user)  PROVE OrderInv(p)'
  <2>1. Move(o, order[o], "disputed", "buyer") /\ UNCHANGED <<listing, request, stripe>>
    BY <1>3 DEF DisputeOrder, WebMove, partyAlone
  <2>. QED  BY <1>0, <2>1, MoveKeepsInv
<1>4. CASE AdminDelivers(o)
  <2>1. Move(o, order[o], "delivered", "admin") /\ UNCHANGED <<listing, request, stripe>>
    BY <1>4 DEF AdminDelivers, partyAlone
  <2>. QED  BY <1>0, <2>1, MoveKeepsInv
<1>5. CASE AdminCompletes(o)
  <2>1. Move(o, order[o], "completed", "admin") /\ UNCHANGED <<listing, request, stripe>>
    BY <1>5 DEF AdminCompletes, partyAlone
  <2>. QED  BY <1>0, <2>1, MoveKeepsInv
<1>6. CASE AdminRefunds(o)
  <2>1. /\ order[o].intent
        /\ UNCHANGED <<listing, order, request>>
        /\ stripe' = [stripe EXCEPT ![o].refund = TRUE]
    BY <1>6 DEF AdminRefunds, stripeAlone
  <2>2. CASE p = o
    <3>1. /\ stripe'[o].session = stripe[o].session
          /\ stripe'[o].charge = stripe[o].charge
          /\ stripe'[o].refund
      BY <1>0, <2>1 DEF StripeState, TypeOK
    <3>. QED  BY <1>0, <2>1, <2>2, <3>1 DEF OrderInv, Recorded, MoneyTaken
  <2>3. CASE p # o
    BY <1>0, <2>1, <2>3, Frame DEF SameDeleted, TypeOK
  <2>. QED  BY <2>2, <2>3
<1>. QED  BY <1>1, <1>2, <1>3, <1>4, <1>5, <1>6 DEF PeopleNext

LEMMA JobInvStep ==
  ASSUME IInv, JobNext, NEW p \in Orders
  PROVE  OrderInv(p)'
<1>. USE DEF IInv
<1>1. CASE UNCHANGED <<listing, order, request, stripe>>
  BY <1>1, Frame DEF SameDeleted
<1>2. ASSUME NEW o \in Orders, JobTries(o)  PROVE OrderInv(p)'
  <2>1. order[o] \in OrderRow
    BY DEF TypeOK
  <2>2. /\ UNCHANGED <<listing, request, stripe>>
        /\ Move(o, order[o], "completed", "system") \/ order' = order
    BY <1>2 DEF JobTries
  <2>. QED  BY <1>1, <2>1, <2>2, MoveKeepsInv
<1>. QED  BY <1>1, <1>2 DEF JobNext, HoldWindowPasses, JobLists, JobDies

LEMMA InvStep == IInv /\ [Next]_vars => IInv'
<1>. SUFFICES ASSUME IInv, [Next]_vars  PROVE IInv'
  OBVIOUS
<1>1. TypeOK'
  BY TypeStep DEF IInv
<1>2. ASSUME NEW p \in Orders  PROVE OrderInv(p)'
  <2>1. CASE UNCHANGED vars
    BY <2>1, Frame DEF vars, IInv, SameDeleted
  <2>2. CASE Next
    BY <2>2, ListingInvStep, BuyInvStep, StripeInvStep, WebhookInvStep,
       PeopleInvStep, JobInvStep DEF Next
  <2>. QED  BY <2>1, <2>2
<1>. QED  BY <1>1, <1>2 DEF IInv

THEOREM Invariant == Spec => []IInv
BY InvInit, InvStep, PTL DEF Spec

-----------------------------------------------------------------------------
(* What follows from it in every state.                                    *)

(* An order never says money moved unless it did.                          *)
THEOREM BooksCorrect == Spec => []BooksFollowTheMoney
<1>1. IInv => BooksFollowTheMoney
  BY DEF IInv, OrderInv, Recorded, MoneyHasMoved, BooksFollowTheMoney
<1>. QED  BY <1>1, Invariant, PTL

(* An order whose payment was recorded can take a refund and a chargeback, *)
(* so the webhook never has to refuse either.                              *)
THEOREM MoneyFactsPlaced == Spec => []MoneyFactsHaveAPlace
<1>1. IInv => MoneyFactsHaveAPlace
  <2>. SUFFICES ASSUME IInv, NEW o \in Orders, order[o].intent
                PROVE  /\ \/ order[o].status = "refunded"
                          \/ CanTransition(order[o].status, "refunded", "stripe")
                       /\ \/ order[o].status \in {"disputed", "refunded"}
                          \/ CanTransition(order[o].status, "disputed", "stripe")
    BY DEF MoneyFactsHaveAPlace
  <2>1. order[o].status \in {"paid", "shipped", "delivered", "completed",
                             "refunded", "disputed"}
    BY DEF IInv, OrderInv, Recorded, TypeOK, OrderRow, OrderStatus
  <2>. QED  BY <2>1 DEF CanTransition, Moves, Escalators
<1>. QED  BY <1>1, Invariant, PTL
-----------------------------------------------------------------------------
(* One open order per sale, and the refinement of SaleLedger. Both read a  *)
(* step as what it does to one order in the ledger.                        *)

(* An order is for the listing its buyer read for as long as it exists.    *)
LEMMA SaleIsFixed ==
  ASSUME IInv, [Next]_vars, NEW p \in Orders, order[p].status # "none"
  PROVE  SaleOf(p)' = SaleOf(p)
<1>. USE DEF SaleOf
<1>1. /\ request \in [Orders -> Request] /\ request[p] \in Request
      /\ request[p].step \notin {"idle", "seen"}
  BY DEF IInv, OrderInv, TypeOK
<1>2. CASE request' = request
  BY <1>2
<1>3. ASSUME NEW o \in Orders, BuyNext(o)  PROVE SaleOf(p)' = SaleOf(p)
  <2>1. CASE p # o
    BY <1>1, <1>3, <2>1
       DEF BuyNext, BuyReads, BuyInserts, BuyOpensSession, BuyAnswers, BuyStops
  <2>2. CASE p = o
    BY <1>1, <1>3, <2>2
       DEF BuyNext, BuyReads, BuyInserts, BuyOpensSession, BuyAnswers, BuyStops,
           Request, NoRequest
  <2>. QED  BY <2>1, <2>2
<1>4. request' = request \/ \E o \in Orders : BuyNext(o)
  <2>1. ListingNext => request' = request
    BY DEF ListingNext, CreateListing, SetListingStatus, DeleteDraftListing, listingAlone
  <2>2. \A o \in Orders : StripeNext(o) => request' = request
    BY DEF StripeNext, BuyerPays, DelayedPaymentSettles, SessionExpires,
           RefundInPart, RefundInFull, BankOpensDispute, stripeAlone
  <2>3. \A o \in Orders : WebhookNext(o) => request' = request
    BY DEF WebhookNext, PaymentEvent, IgnoredEvent, RefundEvent, DisputeEvent
  <2>4. \A o \in Orders : PeopleNext(o) => request' = request
    BY DEF PeopleNext, ShipOrder, CancelOrder, DisputeOrder, AdminDelivers,
           AdminCompletes, AdminRefunds, partyAlone, stripeAlone
  <2>5. JobNext => request' = request
    BY DEF JobNext, HoldWindowPasses, JobTries, JobLists, JobDies
  <2>. QED  BY <2>1, <2>2, <2>3, <2>4, <2>5 DEF Next, vars
<1>. QED  BY <1>2, <1>3, <1>4

(* What the ledger sees of an order, and a step that changes none of it.   *)
Same(p) == Book(p)' = Book(p) /\ ItemOf(p)' = ItemOf(p) /\ Money(p)' = Money(p)

LEMMA SameRows ==
  ASSUME NEW p \in Orders,
         order'[p].status = order[p].status,
         order[p].status # "none" => request'[p].listing = request[p].listing,
         stripe'[p].charge = stripe[p].charge,
         stripe'[p].refund = stripe[p].refund
  PROVE  Same(p)
BY DEF Same, Book, ItemOf, SaleOf, Money, MoneyTaken

LEMMA LedgerStutters ==
  ASSUME \A p \in Orders : Same(p)
  PROVE  UNCHANGED Ledger!ledger
BY DEF Same, Ledger!ledger

(* What each step of the ledger takes, in terms of the order it is about.  *)
LEMMA LedgerMoves ==
  ASSUME NEW o \in Orders, \A p \in Orders \ {o} : Same(p)
  PROVE  /\ \A l \in Listings :
              /\ Book(o) = "none" /\ Book(o)' = "open" /\ ItemOf(o)' = l
              /\ Money(o)' = Money(o)
              /\ \A p \in Orders : Book(p) \in {"open", "sold"} => ItemOf(p) # l
              => Ledger!Open(o, l)
         /\ /\ Book(o) = "open" /\ Book(o)' = "closed" /\ ItemOf(o)' = ItemOf(o)
            /\ Money(o)' = Money(o)
            => Ledger!Close(o)
         /\ /\ Book(o) \in {"open", "closed"} /\ Book(o)' = Book(o)
            /\ ItemOf(o)' = ItemOf(o)
            /\ Money(o) = "none" /\ Money(o)' = "charged"
            => Ledger!Charge(o)
         /\ /\ Book(o)' = Book(o) /\ ItemOf(o)' = ItemOf(o)
            /\ Money(o) = "charged" /\ Money(o)' = "returned"
            => Ledger!Return(o)
         /\ /\ Book(o) = "open" /\ Book(o)' = "sold" /\ ItemOf(o)' = ItemOf(o)
            /\ Money(o)' = Money(o) /\ Money(o) # "none"
            => Ledger!Sell(o)
         /\ /\ Book(o) = "sold" /\ Book(o)' = "undone" /\ ItemOf(o)' = ItemOf(o)
            /\ Money(o)' = Money(o) /\ Money(o) = "returned"
            => Ledger!Undo(o)
<1>. USE DEF Same
<1>1. ASSUME NEW l \in Listings,
             Book(o) = "none" /\ Book(o)' = "open" /\ ItemOf(o)' = l,
             Money(o)' = Money(o),
             \A p \in Orders : Book(p) \in {"open", "sold"} => ItemOf(p) # l
      PROVE  Ledger!Open(o, l)
  BY <1>1 DEF Ledger!Open, Ledger!Taken
<1>2. ASSUME Book(o) = "open" /\ Book(o)' = "closed" /\ ItemOf(o)' = ItemOf(o),
             Money(o)' = Money(o)
      PROVE  Ledger!Close(o)
  BY <1>2 DEF Ledger!Close
<1>3. ASSUME Book(o) \in {"open", "closed"} /\ Book(o)' = Book(o),
             ItemOf(o)' = ItemOf(o), Money(o) = "none" /\ Money(o)' = "charged"
      PROVE  Ledger!Charge(o)
  BY <1>3 DEF Ledger!Charge
<1>4. ASSUME Book(o)' = Book(o) /\ ItemOf(o)' = ItemOf(o),
             Money(o) = "charged" /\ Money(o)' = "returned"
      PROVE  Ledger!Return(o)
  BY <1>4 DEF Ledger!Return
<1>5. ASSUME Book(o) = "open" /\ Book(o)' = "sold" /\ ItemOf(o)' = ItemOf(o),
             Money(o)' = Money(o) /\ Money(o) # "none"
      PROVE  Ledger!Sell(o)
  BY <1>5 DEF Ledger!Sell
<1>6. ASSUME Book(o) = "sold" /\ Book(o)' = "undone" /\ ItemOf(o)' = ItemOf(o),
             Money(o)' = Money(o) /\ Money(o) = "returned"
      PROVE  Ledger!Undo(o)
  BY <1>6 DEF Ledger!Undo
<1>. QED  BY <1>1, <1>2, <1>3, <1>4, <1>5, <1>6
LedgerStep == Ledger!LedgerNext \/ UNCHANGED Ledger!ledger

(* A move that is neither a payment, a cancellation nor a refund.          *)
LEMMA MoveLedgerStutters ==
  ASSUME IInv, NEW o \in Orders, NEW row \in OrderRow, NEW to, NEW actor,
         Move(o, row, to, actor), UNCHANGED <<request, stripe>>,
         to \notin {"paid", "cancelled", "refunded"}
  PROVE  LedgerStep
<1>1. /\ CanTransition(order[o].status, to, actor)
      /\ order'[o].status = to
      /\ \A p \in Orders \ {o} : order'[p] = order[p]
  BY MoveWrites DEF IInv
<1>2. /\ order[o].status \notin {"none", "created", "cancelled", "refunded"}
      /\ to \notin {"none", "created", "cancelled", "refunded"}
  BY <1>1, MovesKeepRecorded
<1>3. Same(o)
  BY <1>1, <1>2 DEF Same, Book, ItemOf, SaleOf, Money, MoneyTaken
<1>4. ASSUME NEW p \in Orders \ {o}  PROVE Same(p)
  BY <1>1, SameRows
<1>. QED  BY <1>3, <1>4, LedgerStutters DEF LedgerStep

LEMMA BuyLedgerStep ==
  ASSUME IInv, NEW o \in Orders, BuyNext(o)
  PROVE  LedgerStep
<1>. USE DEF IInv
<1>0. /\ order \in [Orders -> OrderRow] /\ order[o] \in OrderRow
      /\ request \in [Orders -> Request] /\ request[o] \in Request
      /\ stripe \in [Orders -> StripeState] /\ stripe[o] \in StripeState
      /\ OrderInv(o)
  BY DEF TypeOK
<1>1. ASSUME NEW p \in Orders \ {o}  PROVE Same(p)
  BY <1>0, SameRows
     DEF BuyNext, BuyReads, BuyInserts, BuyOpensSession, BuyAnswers, BuyStops
<1>2. CASE BuyInserts(o)
  <2>. DEFINE l == request[o].listing
  <2>1. /\ order[o].status = "none" /\ order'[o].status = "created"
        /\ request'[o].listing = l /\ l \in Listings
        /\ stripe' = stripe /\ listing[l] # "deleted"
    BY <1>0, <1>2 DEF BuyInserts, OrderInv, NoOrder, Request, NoRequest
  <2>2. ASSUME NEW p \in Orders, Book(p) \in {"open", "sold"}  PROVE ItemOf(p) # l
    <3>1. order[p].status \in OpenStatuses
      BY <2>2 DEF Book, OpenStatuses, TypeOK, OrderRow, OrderStatus
    <3>2. order[p].listingId # l
      BY <1>2, <3>1 DEF BuyInserts, NoOpenOrder
    <3>. QED  BY <2>1, <3>1, <3>2 DEF OrderInv, ItemOf, SaleOf, OpenStatuses
  <2>3. /\ Book(o) = "none" /\ Book(o)' = "open" /\ ItemOf(o)' = l
        /\ Money(o)' = Money(o)
    BY <2>1 DEF Book, ItemOf, SaleOf, Money, MoneyTaken
  <2>4. Ledger!Open(o, l)
    BY <1>1, <2>1, <2>2, <2>3, LedgerMoves
  <2>. QED  BY <2>1, <2>4 DEF LedgerStep, Ledger!LedgerNext
<1>3. CASE ~ BuyInserts(o)
  <2>1. /\ order'[o].status = order[o].status
        /\ stripe'[o].charge = stripe[o].charge
        /\ stripe'[o].refund = stripe[o].refund
    BY <1>0, <1>3 DEF BuyNext, BuyReads, BuyOpensSession, BuyAnswers, BuyStops,
                      OrderRow, StripeState
  <2>2. order[o].status # "none" => request'[o].listing = request[o].listing
    BY <1>0, <1>3 DEF BuyNext, BuyReads, BuyOpensSession, BuyAnswers, BuyStops,
                      OrderInv, Request, NoRequest
  <2>3. Same(o)
    BY <2>1, <2>2, SameRows
  <2>. QED  BY <1>1, <2>3, LedgerStutters DEF LedgerStep
<1>. QED  BY <1>2, <1>3

LEMMA StripeLedgerStep ==
  ASSUME IInv, NEW o \in Orders, StripeNext(o)
  PROVE  LedgerStep
<1>. USE DEF IInv
<1>0. /\ stripe \in [Orders -> StripeState] /\ stripe[o] \in StripeState
      /\ OrderInv(o)
  BY DEF TypeOK
<1>1. order' = order /\ request' = request
  BY DEF StripeNext, BuyerPays, DelayedPaymentSettles, SessionExpires,
         RefundInPart, RefundInFull, BankOpensDispute, stripeAlone
<1>2. ASSUME NEW p \in Orders \ {o}  PROVE Same(p)
  BY <1>0, <1>1, SameRows
     DEF StripeNext, BuyerPays, DelayedPaymentSettles, SessionExpires,
         RefundInPart, RefundInFull, BankOpensDispute
<1>3. Book(o)' = Book(o) /\ ItemOf(o)' = ItemOf(o)
  BY <1>1 DEF Book, ItemOf, SaleOf
<1>4. CASE Money(o)' = Money(o)
  BY <1>2, <1>3, <1>4, LedgerStutters DEF Same, LedgerStep
<1>5. ASSUME NEW charge \in {"captured", "pending", "cleared", "failed"},
             BuyerPays(o, charge) \/ DelayedPaymentSettles(o, charge)
      PROVE  LedgerStep
  <2>1. /\ stripe'[o].charge = charge /\ stripe'[o].refund = stripe[o].refund
        /\ stripe[o].charge \in {"none", "pending"}
        /\ stripe[o].session # "none"
    BY <1>0, <1>5 DEF BuyerPays, DelayedPaymentSettles, OrderInv, StripeState
  <2>2. CASE charge \in {"captured", "cleared"}
    <3>1. order[o].status \in {"created", "cancelled"}
      BY <1>0, <2>1 DEF OrderInv, Recorded, TypeOK, OrderRow, OrderStatus
    <3>2. /\ Book(o) \in {"open", "closed"}
          /\ Money(o) = "none" /\ Money(o)' = "charged"
      BY <1>0, <2>1, <2>2, <3>1 DEF Book, Money, MoneyTaken, OrderInv
    <3>3. Ledger!Charge(o)
      BY <1>2, <1>3, <3>2, LedgerMoves
    <3>. QED  BY <3>3 DEF LedgerStep, Ledger!LedgerNext
  <2>3. CASE charge \notin {"captured", "cleared"}
    BY <1>4, <2>1, <2>3 DEF Money, MoneyTaken
  <2>. QED  BY <2>2, <2>3
<1>6. CASE RefundInFull(o)
  <2>1. /\ stripe'[o].refund /\ ~ stripe[o].refund
        /\ stripe'[o].charge = stripe[o].charge /\ MoneyTaken(o)
    BY <1>0, <1>6 DEF RefundInFull, StripeState
  <2>2. Money(o) = "charged" /\ Money(o)' = "returned"
    BY <2>1 DEF Money, MoneyTaken
  <2>3. Ledger!Return(o)
    BY <1>2, <1>3, <2>2, LedgerMoves
  <2>. QED  BY <2>3 DEF LedgerStep, Ledger!LedgerNext
<1>7. CASE SessionExpires(o) \/ RefundInPart(o) \/ BankOpensDispute(o)
  <2>1. /\ stripe'[o].charge = stripe[o].charge
        /\ stripe'[o].refund = stripe[o].refund
    BY <1>0, <1>7 DEF SessionExpires, RefundInPart, BankOpensDispute, StripeState
  <2>. QED  BY <1>4, <2>1 DEF Money, MoneyTaken
<1>. QED  BY <1>5, <1>6, <1>7 DEF StripeNext
LEMMA WebhookLedgerStep ==
  ASSUME IInv, NEW o \in Orders, WebhookNext(o)
  PROVE  LedgerStep
<1>. USE DEF IInv
<1>. DEFINE row == [order[o] EXCEPT !.intent = TRUE, !.checkout = TRUE]
            Paid == stripe[o].charge = "captured" /\ Move(o, row, "paid", "stripe")
            Refunded == stripe[o].refund /\ Move(o, order[o], "refunded", "stripe")
            Disputed == Move(o, order[o], "disputed", "stripe")
<1>0. order[o] \in OrderRow /\ row \in OrderRow /\ OrderInv(o)
  BY DEF TypeOK, OrderRow
<1>1. /\ Paid \/ Refunded \/ Disputed \/ order' = order
      /\ UNCHANGED <<request, stripe>>
  <2>1. PaymentEvent(o) => (Paid \/ order' = order) /\ UNCHANGED <<request, stripe>>
    BY DEF PaymentEvent
  <2>2. \A type \in EventType :
          IgnoredEvent(o, type) => UNCHANGED <<order, request, stripe>>
    BY DEF IgnoredEvent
  <2>3. RefundEvent(o) => (Refunded \/ order' = order) /\ UNCHANGED <<request, stripe>>
    BY DEF RefundEvent, Claim, Emitted
  <2>4. DisputeEvent(o) => (Disputed \/ order' = order) /\ UNCHANGED <<request, stripe>>
    BY DEF DisputeEvent
  <2>. QED  BY <2>1, <2>2, <2>3, <2>4 DEF WebhookNext
<1>. HIDE DEF row
<1>2. ASSUME NEW p \in Orders, order'[p].status = order[p].status  PROVE Same(p)
  BY <1>1, <1>2, SameRows
<1>3. CASE Paid
  <2>1. /\ order[o].status = "created" /\ order'[o].status = "paid"
        /\ \A p \in Orders \ {o} : order'[p] = order[p]
    BY <1>0, <1>3, MoveWrites, MovesKeepRecorded
  <2>2. /\ Book(o) = "open" /\ Book(o)' = "sold" /\ ItemOf(o)' = ItemOf(o)
        /\ Money(o)' = Money(o) /\ Money(o) # "none"
    BY <1>1, <1>3, <2>1 DEF Book, ItemOf, SaleOf, Money, MoneyTaken
  <2>3. Ledger!Sell(o)
    BY <1>2, <2>1, <2>2, LedgerMoves
  <2>. QED  BY <2>3 DEF LedgerStep, Ledger!LedgerNext
<1>4. CASE Refunded
  <2>1. /\ order'[o].status = "refunded"
        /\ CanTransition(order[o].status, "refunded", "stripe")
        /\ \A p \in Orders \ {o} : order'[p] = order[p]
    BY <1>0, <1>4, MoveWrites
  <2>2. order[o].status \notin {"none", "created", "cancelled", "refunded"}
    BY <2>1, MovesKeepRecorded
  <2>3. /\ Book(o) = "sold" /\ Book(o)' = "undone" /\ ItemOf(o)' = ItemOf(o)
        /\ Money(o)' = Money(o) /\ Money(o) = "returned"
    BY <1>0, <1>1, <1>4, <2>1, <2>2
       DEF Book, ItemOf, SaleOf, Money, MoneyTaken, OrderInv
  <2>4. Ledger!Undo(o)
    BY <1>2, <2>1, <2>3, LedgerMoves
  <2>. QED  BY <2>4 DEF LedgerStep, Ledger!LedgerNext
<1>5. CASE Disputed
  BY <1>0, <1>1, <1>5, MoveLedgerStutters
<1>6. CASE order' = order
  BY <1>2, <1>6, LedgerStutters DEF LedgerStep
<1>. QED  BY <1>1, <1>3, <1>4, <1>5, <1>6

LEMMA PeopleLedgerStep ==
  ASSUME IInv, NEW o \in Orders, PeopleNext(o)
  PROVE  LedgerStep
<1>. USE DEF IInv
<1>0. /\ order[o] \in OrderRow /\ OrderInv(o)
      /\ [order[o] EXCEPT !.tracking = TRUE] \in OrderRow
  BY DEF TypeOK, OrderRow
<1>1. ASSUME NEW user \in Users, ShipOrder(o, user)  PROVE LedgerStep
  <2>1. /\ Move(o, [order[o] EXCEPT !.tracking = TRUE], "shipped", "seller")
        /\ UNCHANGED <<request, stripe>>
    BY <1>1 DEF ShipOrder, WebMove, partyAlone
  <2>. QED  BY <1>0, <2>1, MoveLedgerStutters
<1>2. ASSUME NEW user \in Users, CancelOrder(o, user)  PROVE LedgerStep
  <2>1. PICK actor \in {"buyer", "seller"} : Move(o, order[o], "cancelled", actor)
    BY <1>2 DEF CancelOrder, WebMove
  <2>2. UNCHANGED <<request, stripe>>
    BY <1>2 DEF CancelOrder, partyAlone
  <2>3. /\ order[o].status = "created" /\ order'[o].status = "cancelled"
        /\ \A p \in Orders \ {o} : order'[p] = order[p]
    BY <1>0, <2>1, MoveWrites, MovesKeepRecorded
  <2>4. ASSUME NEW p \in Orders \ {o}  PROVE Same(p)
    BY <2>2, <2>3, SameRows
  <2>5. /\ Book(o) = "open" /\ Book(o)' = "closed" /\ ItemOf(o)' = ItemOf(o)
        /\ Money(o)' = Money(o)
    BY <2>2, <2>3 DEF Book, ItemOf, SaleOf, Money, MoneyTaken
  <2>6. Ledger!Close(o)
    BY <2>4, <2>5, LedgerMoves
  <2>. QED  BY <2>6 DEF LedgerStep, Ledger!LedgerNext
<1>3. ASSUME NEW user \in Users, DisputeOrder(o, user)  PROVE LedgerStep
  <2>1. Move(o, order[o], "disputed", "buyer") /\ UNCHANGED <<request, stripe>>
    BY <1>3 DEF DisputeOrder, WebMove, partyAlone
  <2>. QED  BY <1>0, <2>1, MoveLedgerStutters
<1>4. CASE AdminDelivers(o)
  <2>1. Move(o, order[o], "delivered", "admin") /\ UNCHANGED <<request, stripe>>
    BY <1>4 DEF AdminDelivers, partyAlone
  <2>. QED  BY <1>0, <2>1, MoveLedgerStutters
<1>5. CASE AdminCompletes(o)
  <2>1. Move(o, order[o], "completed", "admin") /\ UNCHANGED <<request, stripe>>
    BY <1>5 DEF AdminCompletes, partyAlone
  <2>. QED  BY <1>0, <2>1, MoveLedgerStutters
<1>6. CASE AdminRefunds(o)
  <2>1. /\ order' = order /\ request' = request /\ order[o].intent
        /\ stripe' = [stripe EXCEPT ![o].refund = TRUE]
    BY <1>6 DEF AdminRefunds, stripeAlone
  <2>2. /\ stripe'[o].refund /\ stripe'[o].charge = stripe[o].charge
        /\ \A p \in Orders \ {o} : stripe'[p] = stripe[p]
    BY <2>1 DEF TypeOK, StripeState
  <2>3. ASSUME NEW p \in Orders \ {o}  PROVE Same(p)
    BY <2>1, <2>2, SameRows
  <2>4. CASE stripe[o].refund
    <3>1. Same(o)
      BY <2>1, <2>2, <2>4, SameRows
    <3>. QED  BY <2>3, <3>1, LedgerStutters DEF LedgerStep
  <2>5. CASE ~ stripe[o].refund
    <3>1. MoneyTaken(o)
      BY <1>0, <2>1 DEF OrderInv, MoneyTaken
    <3>2. /\ Book(o)' = Book(o) /\ ItemOf(o)' = ItemOf(o)
          /\ Money(o) = "charged" /\ Money(o)' = "returned"
      BY <2>1, <2>2, <2>5, <3>1 DEF Book, ItemOf, SaleOf, Money, MoneyTaken
    <3>3. Ledger!Return(o)
      BY <2>3, <3>2, LedgerMoves
    <3>. QED  BY <3>3 DEF LedgerStep, Ledger!LedgerNext
  <2>. QED  BY <2>4, <2>5
<1>. QED  BY <1>1, <1>2, <1>3, <1>4, <1>5, <1>6 DEF PeopleNext

LEMMA LedgerImplStep == IInv /\ [Next]_vars => [Ledger!LedgerNext]_(Ledger!ledger)
<1>. SUFFICES ASSUME IInv, [Next]_vars  PROVE LedgerStep
  BY DEF LedgerStep
<1>1. ASSUME NEW o \in Orders, JobTries(o)  PROVE LedgerStep
  <2>1. order[o] \in OrderRow
    BY DEF IInv, TypeOK
  <2>2. /\ Move(o, order[o], "completed", "system") \/ order' = order
        /\ UNCHANGED <<request, stripe>>
    BY <1>1 DEF JobTries
  <2>3. CASE order' = order
    BY <2>2, <2>3, SameRows, LedgerStutters DEF LedgerStep
  <2>. QED  BY <2>1, <2>2, <2>3, MoveLedgerStutters
<1>2. CASE UNCHANGED <<order, request, stripe>>
  BY <1>2, SameRows, LedgerStutters DEF LedgerStep
<1>3. CASE JobNext
  BY <1>1, <1>2, <1>3 DEF JobNext, HoldWindowPasses, JobLists, JobDies
<1>4. ASSUME NEW l \in Listings, DeleteDraftListing(l)  PROVE LedgerStep
  <2>1. /\ \A p \in Orders : order'[p].status = order[p].status
        /\ UNCHANGED <<request, stripe>>
    BY <1>4 DEF DeleteDraftListing, IInv, TypeOK, OrderRow
  <2>. QED  BY <2>1, SameRows, LedgerStutters DEF LedgerStep
<1>5. CASE ListingNext
  BY <1>2, <1>4, <1>5 DEF ListingNext, CreateListing, SetListingStatus, listingAlone
<1>6. CASE UNCHANGED vars
  BY <1>2, <1>6 DEF vars
<1>. QED  BY <1>3, <1>5, <1>6, BuyLedgerStep, StripeLedgerStep, WebhookLedgerStep,
             PeopleLedgerStep DEF Next

LEMMA LedgerImplInit == Init => Ledger!LedgerInit
BY DEF Init, Ledger!LedgerInit, Book, ItemOf, Money, MoneyTaken, NoOrder, NoCharge

(* The marketplace, with its sessions, retries, roles and jobs, is a       *)
(* ledger that follows the money.                                          *)
THEOREM Refinement == Spec => KeepsTheLedger
<1>. QED  BY LedgerImplInit, LedgerImplStep, Invariant, PTL
          DEF Spec, KeepsTheLedger, Ledger!LedgerSpec
(* OneSalePerItem survives a step of the ledger, read off the rows.        *)
LEMMA SaleStep == Ledger!OneSalePerItem /\ LedgerStep => Ledger!OneSalePerItem'
<1>. SUFFICES ASSUME Ledger!OneSalePerItem, LedgerStep
              PROVE  Ledger!OneSalePerItem'
  OBVIOUS
<1>. USE DEF Ledger!OneSalePerItem
<1>1. CASE UNCHANGED Ledger!ledger
  BY <1>1 DEF Ledger!ledger
<1>2. ASSUME NEW o \in Orders, NEW l \in Listings, Ledger!Open(o, l)
      PROVE  Ledger!OneSalePerItem'
  <2>1. /\ Book(o)' = "open" /\ ItemOf(o)' = l
        /\ \A p \in Orders \ {o} : Book(p)' = Book(p) /\ ItemOf(p)' = ItemOf(p)
    <3>1. \A p \in Orders :
            /\ [q \in Orders |-> Book(q)]'[p] = IF p = o THEN "open" ELSE Book(p)
            /\ [q \in Orders |-> ItemOf(q)]'[p] = IF p = o THEN l ELSE ItemOf(p)
      BY <1>2 DEF Ledger!Open
    <3>. QED  BY <3>1
  <2>2. \A p \in Orders : Book(p) \in {"open", "sold"} => ItemOf(p) # l
    BY <1>2 DEF Ledger!Open, Ledger!Taken
  <2>. QED  BY <2>1, <2>2
<1>3. ASSUME NEW o \in Orders,
             \/ Ledger!Close(o) \/ Ledger!Charge(o) \/ Ledger!Return(o)
             \/ Ledger!Sell(o) \/ Ledger!Undo(o)
      PROVE  Ledger!OneSalePerItem'
  <2>1. ASSUME NEW p \in Orders
        PROVE  /\ ItemOf(p)' = ItemOf(p)
               /\ Book(p)' \in {"open", "sold"} => Book(p) \in {"open", "sold"}
    <3>1. [q \in Orders |-> ItemOf(q)]' = [q \in Orders |-> ItemOf(q)]
      BY <1>3 DEF Ledger!Close, Ledger!Charge, Ledger!Return, Ledger!Sell, Ledger!Undo
    <3>2. \/ [q \in Orders |-> Book(q)]' = [q \in Orders |-> Book(q)]
          \/ \E b \in {"closed", "sold", "undone"} :
                /\ [q \in Orders |-> Book(q)]' = [[q \in Orders |-> Book(q)] EXCEPT ![o] = b]
                /\ Book(o) \in {"open", "sold"}
      BY <1>3 DEF Ledger!Close, Ledger!Charge, Ledger!Return, Ledger!Sell, Ledger!Undo
    <3>. QED  BY <3>1, <3>2
  <2>. QED  BY <2>1
<1>. QED  BY <1>1, <1>2, <1>3 DEF LedgerStep, Ledger!LedgerNext

(* Two orders for one listing are never open at once.                      *)
THEOREM NeverSoldTwice == Spec => []NoDoubleSale
<1>1. Init => Ledger!OneSalePerItem
  BY LedgerImplInit DEF Ledger!LedgerInit, Ledger!OneSalePerItem
<1>2. IInv /\ [Next]_vars => LedgerStep
  BY LedgerImplStep DEF LedgerStep
<1>3. IInv /\ Ledger!OneSalePerItem => NoDoubleSale
  BY DEF Ledger!OneSalePerItem, NoDoubleSale, Book, ItemOf, OpenStatuses
<1>. QED  BY <1>1, <1>2, <1>3, SaleStep, Invariant, PTL DEF Spec
-----------------------------------------------------------------------------
(* What a step may never do.                                               *)

(* How an order comes to be completed, paid or refunded: in every other    *)
(* step its status is the one it had, or none of the three.                *)
LEMMA HowOrdersMove ==
  ASSUME TypeOK, [Next]_vars, NEW p \in Orders
  PROVE  \/ order'[p].status = order[p].status
         \/ order'[p].status \notin {"paid", "refunded", "completed"}
         \/ /\ order'[p].status = "paid"
            /\ Claim("checkout.session.completed", p)
         \/ /\ order'[p].status = "refunded"
            /\ Claim("charge.refunded", p)
         \/ /\ order'[p].status = "completed"
            /\ newest'[p].actor = "admin"
         \/ /\ order'[p].status = "completed"
            /\ order[p].status = "delivered" /\ p \in batch
<1>. DEFINE Goal == \/ order'[p].status = order[p].status
                    \/ order'[p].status \notin {"paid", "refunded", "completed"}
                    \/ /\ order'[p].status = "paid"
                       /\ Claim("checkout.session.completed", p)
                    \/ /\ order'[p].status = "refunded"
                       /\ Claim("charge.refunded", p)
                    \/ /\ order'[p].status = "completed"
                       /\ newest'[p].actor = "admin"
                    \/ /\ order'[p].status = "completed"
                       /\ order[p].status = "delivered" /\ p \in batch
<1>0. /\ order \in [Orders -> OrderRow] /\ newest \in [Orders -> OrderEvent \cup {NoEvent}]
      /\ \A o \in Orders : order[o] \in OrderRow
  BY DEF TypeOK
<1>1. ASSUME NEW o \in Orders, NEW row \in OrderRow, NEW to, NEW actor,
             Move(o, row, to, actor)
      PROVE  /\ p # o => order'[p] = order[p]
             /\ order'[o].status = to
             /\ newest'[o].actor = actor
             /\ CanTransition(order[o].status, to, actor)
  BY <1>0, <1>1 DEF Move, OrderRow
<1>2. CASE order' = order
  BY <1>2
<1>3. CASE ListingNext
  <2>1. ASSUME NEW l \in Listings, DeleteDraftListing(l)  PROVE Goal
    BY <1>0, <2>1 DEF DeleteDraftListing, OrderRow
  <2>. QED  BY <1>2, <1>3, <2>1 DEF ListingNext, CreateListing, SetListingStatus, listingAlone
<1>4. ASSUME NEW o \in Orders, BuyNext(o)  PROVE Goal
  <2>1. CASE BuyInserts(o)
    <3>1. \/ order'[p] = order[p]
          \/ order'[p].status = "created"
      BY <1>0, <2>1 DEF BuyInserts, NoOrder
    <3>. QED  BY <3>1
  <2>2. CASE BuyAnswers(o)
    <3>1. order'[p].status = order[p].status
      BY <1>0, <2>2 DEF BuyAnswers, OrderRow
    <3>. QED  BY <3>1
  <2>. QED  BY <1>2, <1>4, <2>1, <2>2 DEF BuyNext, BuyReads, BuyOpensSession, BuyStops
<1>5. ASSUME NEW o \in Orders, StripeNext(o)  PROVE Goal
  BY <1>2, <1>5 DEF StripeNext, BuyerPays, DelayedPaymentSettles, SessionExpires,
                    RefundInPart, RefundInFull, BankOpensDispute, stripeAlone
<1>6. ASSUME NEW o \in Orders, WebhookNext(o)  PROVE Goal
  <2>1. CASE PaymentEvent(o)
    <3>1. [order[o] EXCEPT !.intent = TRUE, !.checkout = TRUE] \in OrderRow
      BY <1>0 DEF OrderRow
    <3>. QED  BY <1>1, <1>2, <2>1, <3>1 DEF PaymentEvent
  <2>2. CASE RefundEvent(o)
    BY <1>0, <1>1, <1>2, <2>2 DEF RefundEvent
  <2>3. CASE DisputeEvent(o)
    BY <1>0, <1>1, <1>2, <2>3 DEF DisputeEvent
  <2>. QED  BY <1>2, <1>6, <2>1, <2>2, <2>3 DEF WebhookNext, IgnoredEvent
<1>7. ASSUME NEW o \in Orders, PeopleNext(o)  PROVE Goal
  <2>1. ASSUME NEW user \in Users, ShipOrder(o, user)  PROVE Goal
    <3>1. [order[o] EXCEPT !.tracking = TRUE] \in OrderRow
      BY <1>0 DEF OrderRow
    <3>. QED  BY <1>1, <2>1, <3>1 DEF ShipOrder, WebMove
  <2>2. ASSUME NEW user \in Users, CancelOrder(o, user)  PROVE Goal
    BY <1>0, <1>1, <2>2 DEF CancelOrder, WebMove
  <2>3. ASSUME NEW user \in Users, DisputeOrder(o, user)  PROVE Goal
    BY <1>0, <1>1, <2>3 DEF DisputeOrder, WebMove
  <2>4. CASE AdminDelivers(o)
    BY <1>0, <1>1, <2>4 DEF AdminDelivers
  <2>5. CASE AdminCompletes(o)
    BY <1>0, <1>1, <2>5 DEF AdminCompletes
  <2>6. CASE AdminRefunds(o)
    BY <1>2, <2>6 DEF AdminRefunds, stripeAlone
  <2>. QED  BY <1>7, <2>1, <2>2, <2>3, <2>4, <2>5, <2>6 DEF PeopleNext
<1>8. CASE JobNext
  <2>1. ASSUME NEW o \in Orders, JobTries(o)  PROVE Goal
    <3>1. ASSUME CanTransition(order[o].status, "completed", "system")
          PROVE  order[o].status = "delivered"
      BY <3>1 DEF CanTransition, Moves, Escalators
    <3>. QED  BY <1>0, <1>1, <1>2, <2>1, <3>1 DEF JobTries
  <2>. QED  BY <1>2, <1>8, <2>1 DEF JobNext, HoldWindowPasses, JobLists, JobDies
<1>. QED  BY <1>2, <1>3, <1>4, <1>5, <1>6, <1>7, <1>8 DEF Next, vars

(* paid and refunded are reached only by claiming an event about that very *)
(* order that was never claimed before.                                    *)
THEOREM MoneyMovesByEvent == Spec => MoneyMovesOnlyByEvent
<1>. DEFINE Allowed == \A o \in Orders :
              Becomes(o, "paid") \/ Becomes(o, "refunded") =>
                \E type \in EventType : <<type, o>> \in claimed' \ claimed
<1>1. TypeOK /\ [Next]_vars => [Allowed]_vars
  <2>. SUFFICES ASSUME TypeOK, [Next]_vars, NEW p \in Orders,
                       Becomes(p, "paid") \/ Becomes(p, "refunded")
                PROVE  \E type \in EventType : <<type, p>> \in claimed' \ claimed
    OBVIOUS
  <2>1. \/ Claim("checkout.session.completed", p)
        \/ Claim("charge.refunded", p)
    BY HowOrdersMove DEF Becomes
  <2>. QED  BY <2>1 DEF Claim, EventType
<1>. QED  BY <1>1, TypeCorrect, PTL DEF Spec, MoneyMovesOnlyByEvent

(* The job's list may be old, but everything on it has passed its window.  *)
BatchInv == batch \subseteq due

LEMMA BatchIsDue == Spec => []BatchInv
<1>. USE DEF BatchInv
<1>1. Init => BatchInv
  BY DEF Init
<1>2. ASSUME BatchInv, [Next]_vars  PROVE BatchInv'
  <2>1. CASE UNCHANGED <<due, batch>>
    BY <1>2, <2>1
  <2>2. CASE JobNext
    BY <1>2, <2>2 DEF JobNext, HoldWindowPasses, JobTries, JobLists, JobDies,
                      ReadyToComplete
  <2>3. ListingNext => UNCHANGED <<due, batch>>
    BY DEF ListingNext, CreateListing, SetListingStatus, DeleteDraftListing, listingAlone
  <2>4. \A o \in Orders : BuyNext(o) => UNCHANGED <<due, batch>>
    BY DEF BuyNext, BuyReads, BuyInserts, BuyOpensSession, BuyAnswers, BuyStops
  <2>5. \A o \in Orders : StripeNext(o) => UNCHANGED <<due, batch>>
    BY DEF StripeNext, BuyerPays, DelayedPaymentSettles, SessionExpires,
           RefundInPart, RefundInFull, BankOpensDispute, stripeAlone
  <2>6. \A o \in Orders : WebhookNext(o) => UNCHANGED <<due, batch>>
    BY DEF WebhookNext, PaymentEvent, IgnoredEvent, RefundEvent, DisputeEvent
  <2>7. \A o \in Orders : PeopleNext(o) => UNCHANGED <<due, batch>>
    BY DEF PeopleNext, ShipOrder, CancelOrder, DisputeOrder, AdminDelivers,
           AdminCompletes, AdminRefunds, partyAlone, stripeAlone
  <2>. QED  BY <1>2, <2>1, <2>2, <2>3, <2>4, <2>5, <2>6, <2>7 DEF Next, vars
<1>. HIDE DEF BatchInv
<1>. QED  BY <1>1, <1>2, PTL DEF Spec

(* The job completes an order only if it is still delivered, however old   *)
(* its list; everything else that completes is an admin's doing.           *)
THEOREM CompletionEarned == Spec => CompletionIsEarned
<1>. DEFINE Allowed == \A o \in Orders : Becomes(o, "completed") =>
              \/ order[o].status = "delivered" /\ o \in due
              \/ newest'[o].actor = "admin"
<1>1. TypeOK /\ BatchInv /\ [Next]_vars => [Allowed]_vars
  BY HowOrdersMove DEF Becomes, BatchInv
<1>. QED  BY <1>1, TypeCorrect, BatchIsDue, PTL DEF Spec, CompletionIsEarned
-----------------------------------------------------------------------------
(* Every payment the webhook handled is on its order or in the audit log.  *)

Handled(o) == <<"checkout.session.completed", o>> \in claimed
Refused(o) == <<"order.payment_refused", o>> \in audit

PaymentInv(o) ==
  /\ stripe[o].session = "complete" <=> stripe[o].charge # "none"
  /\ Handled(o) => stripe[o].session = "complete"
  /\ ~ Handled(o) => ~ order[o].intent /\ ~ Refused(o)
  /\ Handled(o) /\ stripe[o].charge = "captured" => (order[o].intent <=> ~ Refused(o))

PInv == \A o \in Orders : PaymentInv(o)

LEMMA PaymentFrame ==
  ASSUME NEW p \in Orders, PaymentInv(p),
         order'[p].intent = order[p].intent,
         stripe'[p].session = stripe[p].session,
         stripe'[p].charge = stripe[p].charge,
         Handled(p)' <=> Handled(p), Refused(p)' <=> Refused(p)
  PROVE  PaymentInv(p)'
BY DEF PaymentInv

LEMMA PaymentStep == IInv /\ PInv /\ [Next]_vars => PInv'
<1>. SUFFICES ASSUME IInv, PInv, [Next]_vars, NEW p \in Orders
              PROVE  PaymentInv(p)'
  BY DEF PInv
<1>. USE DEF Handled, Refused
<1>0. /\ order \in [Orders -> OrderRow] /\ stripe \in [Orders -> StripeState]
      /\ \A o \in Orders : order[o] \in OrderRow /\ stripe[o] \in StripeState
      /\ \A o \in Orders : OrderInv(o) /\ PaymentInv(o)
  BY DEF IInv, TypeOK, PInv
<1>1. ASSUME NEW o \in Orders, NEW row \in OrderRow, NEW to, NEW actor,
             Move(o, row, to, actor), row.intent = order[o].intent
      PROVE  order'[p].intent = order[p].intent
  BY <1>0, <1>1 DEF Move, OrderRow
<1>2. CASE UNCHANGED <<stripe, claimed, audit>> /\ order'[p].intent = order[p].intent
  BY <1>0, <1>2, PaymentFrame
<1>3. CASE ListingNext
  <2>1. ASSUME NEW l \in Listings, DeleteDraftListing(l)  PROVE PaymentInv(p)'
    BY <1>0, <1>2, <2>1 DEF DeleteDraftListing, OrderRow
  <2>. QED  BY <1>2, <1>3, <2>1 DEF ListingNext, CreateListing, SetListingStatus, listingAlone
<1>4. ASSUME NEW o \in Orders, BuyNext(o)  PROVE PaymentInv(p)'
  <2>1. CASE BuyInserts(o)
    <3>1. o = p => order[o].status = "none"
      BY <1>0, <2>1 DEF BuyInserts, OrderInv
    <3>2. order'[p].intent = order[p].intent
      <4>1. CASE p # o
        BY <1>0, <2>1, <4>1 DEF BuyInserts
      <4>2. CASE p = o
        <5>1. order'[o].intent = FALSE
          BY <1>0, <2>1 DEF BuyInserts, NoOrder
        <5>2. order[o].intent = FALSE
          BY <1>0, <3>1, <4>2 DEF OrderInv, Recorded, OrderRow
        <5>. QED  BY <4>2, <5>1, <5>2
      <4>. QED  BY <4>1, <4>2
    <3>. QED  BY <1>2, <2>1, <3>2 DEF BuyInserts
  <2>2. CASE BuyAnswers(o)
    BY <1>0, <1>2, <2>2 DEF BuyAnswers, OrderRow
  <2>3. CASE BuyOpensSession(o)
    <3>1. CASE p = o
      <4>1. /\ stripe[o].session = "none" /\ stripe'[o].session = "open"
            /\ stripe'[o].charge = stripe[o].charge
            /\ UNCHANGED <<order, claimed, audit>>
        BY <1>0, <2>3 DEF BuyOpensSession, OrderInv, StripeState
      <4>. QED  BY <1>0, <3>1, <4>1 DEF PaymentInv
    <3>2. CASE p # o
      BY <1>0, <2>3, <3>2, PaymentFrame DEF BuyOpensSession
    <3>. QED  BY <3>1, <3>2
  <2>. QED  BY <1>2, <1>4, <2>1, <2>2, <2>3 DEF BuyNext, BuyReads, BuyStops
<1>5. ASSUME NEW o \in Orders, StripeNext(o)  PROVE PaymentInv(p)'
  <2>1. UNCHANGED <<order, claimed, audit>>
    BY <1>5 DEF StripeNext, BuyerPays, DelayedPaymentSettles, SessionExpires,
                RefundInPart, RefundInFull, BankOpensDispute, stripeAlone
  <2>2. CASE p # o
    <3>1. stripe'[p] = stripe[p]
      BY <1>0, <1>5, <2>2 DEF StripeNext, BuyerPays, DelayedPaymentSettles,
                              SessionExpires, RefundInPart, RefundInFull, BankOpensDispute
    <3>. QED  BY <1>0, <2>1, <3>1, PaymentFrame
  <2>3. CASE p = o
    <3>1. ASSUME NEW charge \in {"captured", "pending"}, BuyerPays(o, charge)
          PROVE  PaymentInv(p)'
      <4>1. /\ stripe[o].session = "open" /\ stripe'[o].session = "complete"
            /\ stripe'[o].charge = charge
        BY <1>0, <3>1 DEF BuyerPays, StripeState
      <4>. QED  BY <1>0, <2>1, <2>3, <4>1 DEF PaymentInv
    <3>2. ASSUME NEW charge \in {"cleared", "failed"}, DelayedPaymentSettles(o, charge)
          PROVE  PaymentInv(p)'
      <4>1. /\ stripe'[o].session = stripe[o].session
            /\ stripe[o].charge = "pending" /\ stripe'[o].charge = charge
        BY <1>0, <3>2 DEF DelayedPaymentSettles, StripeState
      <4>. QED  BY <1>0, <2>1, <2>3, <4>1 DEF PaymentInv
    <3>3. CASE SessionExpires(o)
      <4>1. /\ stripe[o].session = "open" /\ stripe'[o].session = "expired"
            /\ stripe'[o].charge = stripe[o].charge
        BY <1>0, <3>3 DEF SessionExpires, StripeState
      <4>. QED  BY <1>0, <2>1, <2>3, <4>1 DEF PaymentInv
    <3>4. CASE RefundInPart(o) \/ RefundInFull(o) \/ BankOpensDispute(o)
      <4>1. /\ stripe'[o].session = stripe[o].session
            /\ stripe'[o].charge = stripe[o].charge
        BY <1>0, <3>4 DEF RefundInPart, RefundInFull, BankOpensDispute, StripeState
      <4>. QED  BY <1>0, <2>1, <2>3, <4>1, PaymentFrame
    <3>. QED  BY <1>5, <3>1, <3>2, <3>3, <3>4 DEF StripeNext
  <2>. QED  BY <2>2, <2>3
<1>6. ASSUME NEW o \in Orders, WebhookNext(o)  PROVE PaymentInv(p)'
  <2>1. CASE PaymentEvent(o)
    <3>. DEFINE row == [order[o] EXCEPT !.intent = TRUE, !.checkout = TRUE]
    <3>1. /\ row \in OrderRow /\ row.intent
      BY <1>0 DEF OrderRow
    <3>2. /\ ~ Handled(o) /\ Handled(o)' /\ stripe[o].session = "complete"
          /\ stripe' = stripe
          /\ ~ order[o].intent /\ ~ Refused(o)
          /\ p # o => (Handled(p)' <=> Handled(p))
      BY <1>0, <2>1 DEF PaymentEvent, Claim, Emitted, PaymentInv
    <3>3. \/ /\ stripe[o].charge # "captured" \/ order[o].status = "paid"
             /\ UNCHANGED <<order, audit>>
          \/ Move(o, row, "paid", "stripe") /\ UNCHANGED audit
          \/ /\ audit' = audit \cup {<<"order.payment_refused", o>>}
             /\ UNCHANGED order
      BY <2>1 DEF PaymentEvent, Audited
    <3>. HIDE DEF row
    <3>4. order[o].status # "paid"
      BY <1>0, <3>2 DEF OrderInv, Recorded
    <3>5. CASE Move(o, row, "paid", "stripe") /\ UNCHANGED audit
      <4>1. order'[o].intent /\ (p # o => order'[p] = order[p])
        BY <3>1, <3>5, MoveWrites DEF IInv
      <4>. QED  BY <1>0, <3>2, <3>5, <4>1 DEF PaymentInv
    <3>6. CASE UNCHANGED order
      BY <1>0, <3>2, <3>3, <3>4, <3>6, <3>5 DEF PaymentInv
    <3>. QED  BY <3>3, <3>5, <3>6
  <2>2. CASE UNCHANGED <<stripe>> /\ order'[p].intent = order[p].intent
             /\ (Handled(p)' <=> Handled(p)) /\ (Refused(p)' <=> Refused(p))
    BY <1>0, <2>2, PaymentFrame
  <2>3. ASSUME NEW type \in EventType, IgnoredEvent(o, type)  PROVE PaymentInv(p)'
    BY <2>2, <2>3 DEF IgnoredEvent, Claim
  <2>4. CASE RefundEvent(o)
    BY <1>0, <1>1, <2>2, <2>4 DEF RefundEvent, Claim, Audited
  <2>5. CASE DisputeEvent(o)
    BY <1>0, <1>1, <2>2, <2>5 DEF DisputeEvent, Claim
  <2>. QED  BY <1>6, <2>1, <2>3, <2>4, <2>5 DEF WebhookNext
<1>7. ASSUME NEW o \in Orders, PeopleNext(o)  PROVE PaymentInv(p)'
  <2>1. ASSUME NEW user \in Users, ShipOrder(o, user)  PROVE PaymentInv(p)'
    <3>. DEFINE row == [order[o] EXCEPT !.tracking = TRUE]
    <3>1. row \in OrderRow /\ row.intent = order[o].intent
      BY <1>0 DEF OrderRow
    <3>2. Move(o, row, "shipped", "seller") /\ UNCHANGED <<stripe, claimed, audit>>
      BY <2>1 DEF ShipOrder, WebMove, partyAlone
    <3>. HIDE DEF row
    <3>. QED  BY <1>1, <1>2, <3>1, <3>2
  <2>2. ASSUME NEW user \in Users, CancelOrder(o, user) \/ DisputeOrder(o, user)
        PROVE  PaymentInv(p)'
    BY <1>0, <1>1, <1>2, <2>2 DEF CancelOrder, DisputeOrder, WebMove, partyAlone
  <2>3. CASE AdminDelivers(o) \/ AdminCompletes(o)
    BY <1>0, <1>1, <1>2, <2>3 DEF AdminDelivers, AdminCompletes, partyAlone
  <2>4. CASE AdminRefunds(o)
    <3>1. /\ stripe'[p].session = stripe[p].session
          /\ stripe'[p].charge = stripe[p].charge
          /\ UNCHANGED <<order, claimed, audit>>
      BY <1>0, <2>4 DEF AdminRefunds, stripeAlone, StripeState
    <3>. QED  BY <1>0, <3>1, PaymentFrame
  <2>. QED  BY <1>7, <2>1, <2>2, <2>3, <2>4 DEF PeopleNext
<1>8. CASE JobNext
  BY <1>0, <1>1, <1>2, <1>8 DEF JobNext, HoldWindowPasses, JobTries, JobLists, JobDies
<1>. QED  BY <1>2, <1>3, <1>4, <1>5, <1>6, <1>7, <1>8 DEF Next, vars

(* A payment the webhook has handled is on the order or in the audit log,  *)
(* and never on neither or both.                                           *)
THEOREM NoPaymentLost == Spec => []PaymentsAccountedFor
<1>1. Init => PInv
  BY DEF Init, PInv, PaymentInv, Handled, Refused, NoOrder, NoCharge
<1>2. PInv => PaymentsAccountedFor
  BY DEF PInv, PaymentInv, Handled, Refused, PaymentsAccountedFor
<1>. QED  BY <1>1, <1>2, PaymentStep, Invariant, PTL DEF Spec
-----------------------------------------------------------------------------
(* The history.                                                            *)

(* A step leaves an order's status and its newest history row as they      *)
(* were, makes the order, or makes a move of the table and writes it down. *)
LEMMA HistoryFollows ==
  ASSUME TypeOK, [Next]_vars, NEW p \in Orders
  PROVE  \/ order'[p].status = order[p].status /\ newest'[p] = newest[p]
         \/ order'[p].status = "created"
         \/ /\ newest'[p].to = order'[p].status
            /\ CanTransition(newest'[p].from, newest'[p].to, newest'[p].actor)
<1>. DEFINE Goal == \/ order'[p].status = order[p].status /\ newest'[p] = newest[p]
                    \/ order'[p].status = "created"
                    \/ /\ newest'[p].to = order'[p].status
                       /\ CanTransition(newest'[p].from, newest'[p].to, newest'[p].actor)
<1>0. /\ order \in [Orders -> OrderRow] /\ newest \in [Orders -> OrderEvent \cup {NoEvent}]
      /\ \A o \in Orders : order[o] \in OrderRow
  BY DEF TypeOK
<1>1. ASSUME NEW o \in Orders, NEW row \in OrderRow, NEW to, NEW actor,
             Move(o, row, to, actor)
      PROVE  Goal
  <2>1. CASE p # o
    BY <1>0, <1>1, <2>1 DEF Move
  <2>2. CASE p = o
    <3>1. order'[o].status = to
      BY <1>0, <1>1 DEF Move, OrderRow
    <3>2. newest'[o] = [from |-> order[o].status, to |-> to, actor |-> actor]
      BY <1>0, <1>1 DEF Move
    <3>3. CanTransition(order[o].status, to, actor)
      BY <1>1 DEF Move
    <3>. QED  BY <2>2, <3>1, <3>2, <3>3
  <2>. QED  BY <2>1, <2>2
<1>2. CASE order' = order /\ newest' = newest
  BY <1>2
<1>3. CASE ListingNext
  <2>1. ASSUME NEW l \in Listings, DeleteDraftListing(l)  PROVE Goal
    BY <1>0, <2>1 DEF DeleteDraftListing, OrderRow
  <2>. QED  BY <1>2, <1>3, <2>1 DEF ListingNext, CreateListing, SetListingStatus, listingAlone
<1>4. ASSUME NEW o \in Orders, BuyNext(o)  PROVE Goal
  <2>1. CASE BuyInserts(o)
    <3>1. \/ order'[p] = order[p]
          \/ order'[p].status = "created"
      BY <1>0, <2>1 DEF BuyInserts, NoOrder
    <3>2. newest'[p] = newest[p]
      BY <2>1 DEF BuyInserts
    <3>. QED  BY <3>1, <3>2
  <2>2. CASE BuyAnswers(o)
    <3>1. order'[p].status = order[p].status /\ newest'[p] = newest[p]
      BY <1>0, <2>2 DEF BuyAnswers, OrderRow
    <3>. QED  BY <3>1
  <2>. QED  BY <1>2, <1>4, <2>1, <2>2 DEF BuyNext, BuyReads, BuyOpensSession, BuyStops
<1>5. ASSUME NEW o \in Orders, StripeNext(o)  PROVE Goal
  BY <1>2, <1>5 DEF StripeNext, BuyerPays, DelayedPaymentSettles, SessionExpires,
                    RefundInPart, RefundInFull, BankOpensDispute, stripeAlone
<1>6. ASSUME NEW o \in Orders, WebhookNext(o)  PROVE Goal
  <2>1. CASE PaymentEvent(o)
    <3>1. [order[o] EXCEPT !.intent = TRUE, !.checkout = TRUE] \in OrderRow
      BY <1>0 DEF OrderRow
    <3>. QED  BY <1>1, <1>2, <2>1, <3>1 DEF PaymentEvent
  <2>2. CASE RefundEvent(o)
    BY <1>0, <1>1, <1>2, <2>2 DEF RefundEvent
  <2>3. CASE DisputeEvent(o)
    BY <1>0, <1>1, <1>2, <2>3 DEF DisputeEvent
  <2>. QED  BY <1>2, <1>6, <2>1, <2>2, <2>3 DEF WebhookNext, IgnoredEvent
<1>7. ASSUME NEW o \in Orders, PeopleNext(o)  PROVE Goal
  <2>1. ASSUME NEW user \in Users, ShipOrder(o, user)  PROVE Goal
    <3>1. [order[o] EXCEPT !.tracking = TRUE] \in OrderRow
      BY <1>0 DEF OrderRow
    <3>. QED  BY <1>1, <2>1, <3>1 DEF ShipOrder, WebMove
  <2>2. ASSUME NEW user \in Users, CancelOrder(o, user)  PROVE Goal
    BY <1>0, <1>1, <2>2 DEF CancelOrder, WebMove
  <2>3. ASSUME NEW user \in Users, DisputeOrder(o, user)  PROVE Goal
    BY <1>0, <1>1, <2>3 DEF DisputeOrder, WebMove
  <2>4. CASE AdminDelivers(o)
    BY <1>0, <1>1, <2>4 DEF AdminDelivers
  <2>5. CASE AdminCompletes(o)
    BY <1>0, <1>1, <2>5 DEF AdminCompletes
  <2>6. CASE AdminRefunds(o)
    BY <1>2, <2>6 DEF AdminRefunds, stripeAlone
  <2>. QED  BY <1>7, <2>1, <2>2, <2>3, <2>4, <2>5, <2>6 DEF PeopleNext
<1>8. CASE JobNext
  <2>1. ASSUME NEW o \in Orders, JobTries(o)  PROVE Goal
    BY <1>0, <1>1, <1>2, <2>1 DEF JobTries
  <2>. QED  BY <1>2, <1>8, <2>1 DEF JobNext, HoldWindowPasses, JobLists, JobDies
<1>. QED  BY <1>2, <1>3, <1>4, <1>5, <1>6, <1>7, <1>8 DEF Next, vars

(* The history of every order ends where the order is, by a move that the  *)
(* table gives to the actor it names.                                      *)
THEOREM TrailIsTrue == Spec => []TrailEndsAtTheOrder
<1>1. Init => TrailEndsAtTheOrder
  BY DEF Init, NoOrder, TrailEndsAtTheOrder
<1>2. TypeOK /\ TrailEndsAtTheOrder /\ [Next]_vars => TrailEndsAtTheOrder'
  <2>. SUFFICES ASSUME TypeOK, TrailEndsAtTheOrder, [Next]_vars, NEW p \in Orders,
                       order'[p].status \notin {"none", "created"}
                PROVE  /\ newest'[p].to = order'[p].status
                       /\ CanTransition(newest'[p].from, newest'[p].to, newest'[p].actor)
    BY DEF TrailEndsAtTheOrder
  <2>1. CASE order'[p].status = order[p].status /\ newest'[p] = newest[p]
    BY <2>1 DEF TrailEndsAtTheOrder
  <2>. QED  BY <2>1, HistoryFollows
<1>. QED  BY <1>1, <1>2, TypeCorrect, PTL DEF Spec
-----------------------------------------------------------------------------
(* What the ledger's promise amounts to, for all sales and items.          *)

LEMMA LedgerTypeStep == LedgerTypeOK /\ [LedgerNext]_ledger => LedgerTypeOK'
BY DEF LedgerTypeOK, LedgerNext, ledger, Open, Close, Charge, Return, Sell, Undo

(* Books, items and money keep to their states.                            *)
THEOREM LedgerTypeCorrect == LedgerSpec => []LedgerTypeOK
<1>1. LedgerInit => LedgerTypeOK
  BY DEF LedgerInit, LedgerTypeOK
<1>. QED  BY <1>1, LedgerTypeStep, PTL DEF LedgerSpec

(* An item is never sold twice at once: a sale opens only on an item that  *)
(* no open or sold sale has, and never changes its item.                   *)
THEOREM LedgerSellsOnce == LedgerSpec => []OneSalePerItem
<1>1. LedgerInit => OneSalePerItem
  BY DEF LedgerInit, OneSalePerItem
<1>2. ASSUME LedgerTypeOK, OneSalePerItem, [LedgerNext]_ledger
      PROVE  OneSalePerItem'
  <2>. USE <1>2 DEF LedgerTypeOK, OneSalePerItem
  <2>1. CASE UNCHANGED ledger
    BY <2>1 DEF ledger
  <2>2. ASSUME NEW p \in Sales, NEW i \in Items, Open(p, i)
        PROVE  OneSalePerItem'
    BY <2>2 DEF Open, Taken
  <2>3. ASSUME NEW p \in Sales,
               Close(p) \/ Charge(p) \/ Return(p) \/ Sell(p) \/ Undo(p)
        PROVE  OneSalePerItem'
    BY <2>3 DEF Close, Charge, Return, Sell, Undo
  <2>. QED  BY <2>1, <2>2, <2>3 DEF LedgerNext
<1>. QED  BY <1>1, <1>2, LedgerTypeCorrect, PTL DEF LedgerSpec

(* The book follows the money: money is charged once and returned once, so *)
(* what the book was told stays true.                                      *)
THEOREM LedgerFollowsMoney == LedgerSpec => []BookFollowsMoney
<1>1. LedgerInit => BookFollowsMoney
  BY DEF LedgerInit, BookFollowsMoney
<1>2. LedgerTypeOK /\ BookFollowsMoney /\ [LedgerNext]_ledger => BookFollowsMoney'
  BY DEF LedgerTypeOK, BookFollowsMoney, LedgerNext, ledger,
         Open, Close, Charge, Return, Sell, Undo
<1>. QED  BY <1>1, <1>2, LedgerTypeCorrect, PTL DEF LedgerSpec
=============================================================================
