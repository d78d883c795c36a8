---------------------------- MODULE Marketplace ----------------------------
(***************************************************************************)
(* The marketplace's orders and the money behind them: listings, the buy   *)
(* handler, Stripe's Checkout sessions and charges, the webhook that is    *)
(* told about them, the two parties, the admin console and the job that    *)
(* completes delivered orders. One action is one database transaction, or  *)
(* one call that leaves the process; whatever a handler carries from one   *)
(* to the next is in request or batch, and may be stale when it is used.   *)
(***************************************************************************)
EXTENDS OrderRules

CONSTANTS Orders,        \* rows the orders table may come to hold
          Listings,      \* rows the listings table may come to hold
          Users,
          SellerOf,      \* the user who creates each listing
          NoUser, NoListing,
          StripeFeatures \* what may happen to a charge besides being captured

ASSUME UsersAssumption == NoUser \notin Users
ASSUME ListingsAssumption ==
  NoListing \notin Listings /\ SellerOf \in [Listings -> Users]
ASSUME FeaturesAssumption == StripeFeatures \subseteq {"delayed", "partial", "dispute"}

VARIABLES
  listing,   \* listings.status, and whether the row exists
  order,     \* the orders table
  newest,    \* the newest order_events row of each order
  request,   \* the buy handler that inserted, or will insert, each order
  stripe,    \* what is true at Stripe about each order's session and charge
  claimed,   \* webhook_events: the events some delivery has handled
  audit,     \* the audit_log entries a person has to act on
  due,       \* delivered orders whose hold window has passed
  batch      \* orders the completion job has listed and not yet tried

vars == <<listing, order, newest, request, stripe, claimed, audit, due, batch>>

-----------------------------------------------------------------------------
(* The states the variables range over.                                    *)

ListingStatus == {"unborn", "draft", "active", "sold", "withdrawn", "deleted"}

OrderRow ==
  [status    : OrderStatus \cup {"none"},
   buyer     : Users \cup {NoUser},
   seller    : Users \cup {NoUser},
   listingId : Listings \cup {NoListing},
   intent    : BOOLEAN,    \* stripe_payment_intent_id is set
   checkout  : BOOLEAN,    \* stripe_checkout_id is set
   tracking  : BOOLEAN]    \* tracking_carrier and tracking_number are set

OrderEvent == [from : OrderStatus, to : OrderStatus, actor : OrderActor]

NoRequest == [step |-> "idle", buyer |-> NoUser, listing |-> NoListing]

Request ==
  {NoRequest} \cup
  [step    : {"seen", "ordered", "sessioned", "answered", "lost"},
   buyer   : Users,
   listing : Listings]

StripeState ==
  [session  : {"none", "open", "complete", "expired"},
   charge   : {"none", "captured", "pending", "cleared", "failed"},
   partial  : BOOLEAN,     \* part of the charge was refunded at some point
   refund   : BOOLEAN,     \* the whole charge has been refunded
   dispute  : BOOLEAN]     \* the buyer's bank opened a dispute

EventType == {"checkout.session.completed", "async_payment_succeeded",
              "charge.refunded.partial", "charge.refunded",
              "charge.dispute.created"}

AuditAction == {"order.payment_refused", "order.refund_refused"}

NoOrder == [status |-> "none", buyer |-> NoUser, seller |-> NoUser,
            listingId |-> NoListing, intent |-> FALSE, checkout |-> FALSE,
            tracking |-> FALSE]

NoEvent == [from |-> "none", to |-> "none", actor |-> "none"]

NoCharge == [session |-> "none", charge |-> "none", partial |-> FALSE,
             refund |-> FALSE, dispute |-> FALSE]

TypeOK ==
  /\ listing \in [Listings -> ListingStatus]
  /\ order \in [Orders -> OrderRow]
  /\ newest \in [Orders -> OrderEvent \cup {NoEvent}]
  /\ request \in [Orders -> Request]
  /\ stripe \in [Orders -> StripeState]
  /\ claimed \in SUBSET (EventType \X Orders)
  /\ audit \in SUBSET (AuditAction \X Orders)
  /\ due \in SUBSET Orders
  /\ batch \in SUBSET Orders

Init ==
  /\ listing = [l \in Listings |-> "unborn"]
  /\ order = [o \in Orders |-> NoOrder]
  /\ newest = [o \in Orders |-> NoEvent]
  /\ request = [o \in Orders |-> NoRequest]
  /\ stripe = [o \in Orders |-> NoCharge]
  /\ claimed = {}
  /\ audit = {}
  /\ due = {}
  /\ batch = {}

-----------------------------------------------------------------------------
(* A seller and their listings.                                            *)

listingAlone == <<order, newest, request, stripe, claimed, audit, due, batch>>

CreateListing(l) ==
  /\ listing[l] = "unborn"
  /\ listing' = [listing EXCEPT ![l] = "draft"]
  /\ UNCHANGED listingAlone

(* setListingStatus: the row policy looks at the new status and the owner, *)
(* never at the status the row had. Whether the price lets the listing be  *)
(* published is decided before this, and is not modelled here.             *)
SetListingStatus(l, status) ==
  /\ listing[l] \notin {"unborn", "deleted"}
  /\ status \in {"draft", "active", "withdrawn"}
  /\ listing' = [listing EXCEPT ![l] = status]
  /\ UNCHANGED listingAlone

(* deleteDraftListing, with the foreign key's ON DELETE SET NULL.          *)
DeleteDraftListing(l) ==
  /\ listing[l] = "draft"
  /\ listing' = [listing EXCEPT ![l] = "deleted"]
  /\ order' = [o \in Orders |->
                 IF order[o].listingId = l
                 THEN [order[o] EXCEPT !.listingId = NoListing]
                 ELSE order[o]]
  /\ UNCHANGED <<newest, request, stripe, claimed, audit, due, batch>>

-----------------------------------------------------------------------------
(* The buy handler: it reads, inserts, asks Stripe and answers, each step  *)
(* by itself, and may die between any two of them.                         *)

BuyReads(o, buyer, l) ==
  /\ request[o].step = "idle"
  /\ listing[l] = "active"
  /\ buyer # SellerOf[l]
  /\ request' = [request EXCEPT ![o] =
                   [step |-> "seen", buyer |-> buyer, listing |-> l]]
  /\ UNCHANGED <<listing, order, newest, stripe, claimed, audit, due, batch>>

(* As if a disputed sale freed its listing.                                *)
NoUndisputedOrder(l) ==
  ~ \E p \in Orders : /\ order[p].listingId = l
                      /\ order[p].status \in OpenStatuses \ {"disputed"}

(* orders_one_open_per_listing.                                            *)
NoOpenOrder(l) ==
  ~ \E p \in Orders : order[p].listingId = l /\ order[p].status \in OpenStatuses

(* createOrder. The listing row only has to exist: its status was read in  *)
(* an earlier transaction and is not looked at again.                      *)
BuyInserts(o) ==
  LET l == request[o].listing IN
  /\ request[o].step = "seen"
  /\ listing[l] # "deleted"
  /\ NoOpenOrder(l)
  /\ order' = [order EXCEPT ![o] =
                 [NoOrder EXCEPT !.status = "created",
                                 !.buyer = request[o].buyer,
                                 !.seller = SellerOf[l],
                                 !.listingId = l]]
  /\ request' = [request EXCEPT ![o].step = "ordered"]
  /\ UNCHANGED <<listing, newest, stripe, claimed, audit, due, batch>>

BuyOpensSession(o) ==
  /\ request[o].step = "ordered"
  /\ stripe' = [stripe EXCEPT ![o].session = "open"]
  /\ request' = [request EXCEPT ![o].step = "sessioned"]
  /\ UNCHANGED <<listing, order, newest, claimed, audit, due, batch>>

(* attachCheckoutSession, and the answer that carries the payment page.    *)
BuyAnswers(o) ==
  /\ request[o].step = "sessioned"
  /\ order[o].status \in WebWritable
  /\ order' = [order EXCEPT ![o].checkout = TRUE]
  /\ request' = [request EXCEPT ![o].step = "answered"]
  /\ UNCHANGED <<listing, newest, stripe, claimed, audit, due, batch>>

(* A refusal, an error or a crash. Nothing is undone: an order already     *)
(* inserted stays, and its buyer never learns where to pay.                *)
BuyStops(o) ==
  /\ \/ /\ request[o].step = "seen"
        /\ request' = [request EXCEPT ![o] = NoRequest]
     \/ /\ request[o].step \in {"ordered", "sessioned"}
        /\ request' = [request EXCEPT ![o].step = "lost"]
  /\ UNCHANGED <<listing, order, newest, stripe, claimed, audit, due, batch>>

-----------------------------------------------------------------------------
(* Stripe, and the buyer on its hosted page.                               *)

stripeAlone == <<listing, order, newest, request, claimed, audit, due, batch>>

MoneyTaken(o) == stripe[o].charge \in {"captured", "cleared"}

(* A buyer pays with a method that settles now, or with a delayed one that *)
(* leaves the session complete and unpaid.                                 *)
BuyerPays(o, charge) ==
  /\ request[o].step = "answered"
  /\ stripe[o].session = "open"
  /\ charge \in {"captured"} \cup
                (IF "delayed" \in StripeFeatures THEN {"pending"} ELSE {})
  /\ stripe' = [stripe EXCEPT ![o].session = "complete", ![o].charge = charge]
  /\ UNCHANGED stripeAlone

DelayedPaymentSettles(o, charge) ==
  /\ stripe[o].charge = "pending"
  /\ charge \in {"cleared", "failed"}
  /\ stripe' = [stripe EXCEPT ![o].charge = charge]
  /\ UNCHANGED stripeAlone

(* expires_at: thirty minutes after the session was created.               *)
SessionExpires(o) ==
  /\ stripe[o].session = "open"
  /\ stripe' = [stripe EXCEPT ![o].session = "expired"]
  /\ UNCHANGED stripeAlone

RefundInPart(o) ==
  /\ "partial" \in StripeFeatures
  /\ MoneyTaken(o)
  /\ ~ stripe[o].refund
  /\ stripe' = [stripe EXCEPT ![o].partial = TRUE]
  /\ UNCHANGED stripeAlone

(* The whole charge goes back from Stripe's own dashboard.                 *)
RefundInFull(o) ==
  /\ MoneyTaken(o)
  /\ ~ stripe[o].refund
  /\ stripe' = [stripe EXCEPT ![o].refund = TRUE]
  /\ UNCHANGED stripeAlone

BankOpensDispute(o) ==
  /\ "dispute" \in StripeFeatures
  /\ MoneyTaken(o)
  /\ ~ stripe[o].dispute
  /\ stripe' = [stripe EXCEPT ![o].dispute = TRUE]
  /\ UNCHANGED stripeAlone

(* The events Stripe has to deliver. Delivery may be late, repeated and in *)
(* any order, so an event is only ever handled, never consumed.            *)
Emitted(type, o) ==
  \/ type = "checkout.session.completed" /\ stripe[o].session = "complete"
  \/ type = "async_payment_succeeded" /\ stripe[o].charge = "cleared"
  \/ type = "charge.refunded.partial" /\ stripe[o].partial
  \/ type = "charge.refunded" /\ stripe[o].refund
  \/ type = "charge.dispute.created" /\ stripe[o].dispute

-----------------------------------------------------------------------------
(* Moving an order: the row lock makes the read and the write one step.    *)

(* As if the history were appended by the people's routes only, or without *)
(* the state the order came from.                                          *)
MoveByPeople(o, row, to, actor) ==
  LET new == [row EXCEPT !.status = to] IN
  /\ CanTransition(order[o].status, to, actor)
  /\ RowAllowed(new)
  /\ order' = [order EXCEPT ![o] = new]
  /\ newest' = IF actor = "system" THEN newest
               ELSE [newest EXCEPT ![o] =
                       [from |-> order[o].status, to |-> to, actor |-> actor]]

(* move(): row is the order with what the transition also sets.            *)
Move(o, row, to, actor) ==
  LET new == [row EXCEPT !.status = to] IN
  /\ CanTransition(order[o].status, to, actor)
  /\ RowAllowed(new)
  /\ order' = [order EXCEPT ![o] = new]
  /\ newest' = [newest EXCEPT ![o] =
                  [from |-> order[o].status, to |-> to, actor |-> actor]]

(* The same on a session's own connection, under orders_update_party.      *)
WebMove(o, row, to, actor) == to \in WebWritable /\ Move(o, row, to, actor)

-----------------------------------------------------------------------------
(* POST /v1/webhooks/stripe: one transaction that claims the event and     *)
(* does what the event says.                                               *)

Claim(type, o) ==
  /\ Emitted(type, o)
  /\ <<type, o>> \notin claimed
  /\ claimed' = claimed \cup {<<type, o>>}

Audited(action, o) == audit' = audit \cup {<<action, o>>}

(* As if a completed session were a paid one.                              *)
PaymentAssumed(o) ==
  /\ Claim("checkout.session.completed", o)
  /\ \/ /\ Move(o, [order[o] EXCEPT !.intent = TRUE, !.checkout = TRUE],
                "paid", "stripe")
        /\ listing' = [l \in Listings |->
                         IF l = order[o].listingId THEN "sold" ELSE listing[l]]
        /\ UNCHANGED audit
     \/ /\ ~ CanTransition(order[o].status, "paid", "stripe")
        /\ Audited("order.payment_refused", o)
        /\ UNCHANGED <<listing, order, newest>>
  /\ UNCHANGED <<request, stripe, due, batch>>

(* As if a payment the order cannot take were swallowed, or thrown so that *)
(* Stripe retries it, or recorded on the order all the same.               *)
PaymentSwallowed(o) ==
  /\ Claim("checkout.session.completed", o)
  /\ IF /\ stripe[o].charge = "captured"
        /\ CanTransition(order[o].status, "paid", "stripe")
     THEN /\ Move(o, [order[o] EXCEPT !.intent = TRUE, !.checkout = TRUE],
                  "paid", "stripe")
          /\ listing' = [l \in Listings |->
                           IF l = order[o].listingId THEN "sold" ELSE listing[l]]
     ELSE UNCHANGED <<listing, order, newest>>
  /\ UNCHANGED <<request, stripe, audit, due, batch>>

PaymentRetried(o) ==
  /\ stripe[o].charge = "captured" => CanTransition(order[o].status, "paid", "stripe")
  /\ PaymentSwallowed(o)

PaymentForced(o) ==
  /\ Claim("checkout.session.completed", o)
  /\ stripe[o].charge = "captured"
  /\ order' = [order EXCEPT ![o].status = "paid", ![o].intent = TRUE]
  /\ UNCHANGED <<listing, newest, request, stripe, audit, due, batch>>

(* checkoutCompleted and markOrderPaid. An unpaid session is acknowledged  *)
(* and nothing else; a payment the order cannot take is audited.           *)
PaymentEvent(o) ==
  /\ Claim("checkout.session.completed", o)
  /\ \/ /\ stripe[o].charge # "captured" \/ order[o].status = "paid"
        /\ UNCHANGED <<listing, order, newest, audit>>
     \/ /\ stripe[o].charge = "captured"
        /\ Move(o, [order[o] EXCEPT !.intent = TRUE, !.checkout = TRUE],
                "paid", "stripe")
        /\ listing' = [l \in Listings |->
                         IF l = order[o].listingId THEN "sold" ELSE listing[l]]
        /\ UNCHANGED audit
     \/ /\ stripe[o].charge = "captured"
        /\ order[o].status # "paid"
        /\ ~ CanTransition(order[o].status, "paid", "stripe")
        /\ Audited("order.payment_refused", o)
        /\ UNCHANGED <<listing, order, newest>>
  /\ UNCHANGED <<request, stripe, due, batch>>

(* Types the handler has no branch for, and refunds short of the full      *)
(* amount: acknowledged and ignored.                                       *)
IgnoredEvent(o, type) ==
  /\ type \in {"async_payment_succeeded", "charge.refunded.partial"}
  /\ Claim(type, o)
  /\ UNCHANGED <<listing, order, newest, request, stripe, audit, due, batch>>

(* As if the disputed order were skipped, as the chargeback handler does.  *)
RefundSkipsDisputed(o) ==
  /\ Claim("charge.refunded", o)
  /\ IF order[o].intent /\ order[o].status \notin {"disputed", "refunded"}
     THEN Move(o, order[o], "refunded", "stripe")
     ELSE UNCHANGED <<order, newest>>
  /\ UNCHANGED <<listing, request, stripe, audit, due, batch>>

(* chargeRefunded and markOrderRefunded. The order is looked up by its     *)
(* payment intent: before the payment was recorded there is none to find.  *)
RefundEvent(o) ==
  /\ Claim("charge.refunded", o)
  /\ IF ~ order[o].intent \/ order[o].status = "refunded"
     THEN UNCHANGED <<order, newest, audit>>
     ELSE IF CanTransition(order[o].status, "refunded", "stripe")
     THEN Move(o, order[o], "refunded", "stripe") /\ UNCHANGED audit
     ELSE Audited("order.refund_refused", o) /\ UNCHANGED <<order, newest>>
  /\ UNCHANGED <<listing, request, stripe, due, batch>>

(* chargeDisputed and markOrderChargedBack, found the same way.            *)
DisputeEvent(o) ==
  /\ Claim("charge.dispute.created", o)
  /\ IF order[o].intent /\ CanTransition(order[o].status, "disputed", "stripe")
     THEN Move(o, order[o], "disputed", "stripe")
     ELSE UNCHANGED <<order, newest>>
  /\ UNCHANGED <<listing, request, stripe, audit, due, batch>>

-----------------------------------------------------------------------------
(* The two parties.                                                        *)

partyAlone == <<listing, request, stripe, claimed, audit, due, batch>>

ShipOrder(o, user) ==
  /\ user = order[o].seller
  /\ WebMove(o, [order[o] EXCEPT !.tracking = TRUE], "shipped", "seller")
  /\ UNCHANGED partyAlone

(* cancelOrder: the actor is whichever party the caller is.                *)
CancelOrder(o, user) ==
  /\ user \in {order[o].buyer, order[o].seller}
  /\ WebMove(o, order[o], "cancelled",
             IF user = order[o].buyer THEN "buyer" ELSE "seller")
  /\ UNCHANGED partyAlone

DisputeOrder(o, user) ==
  /\ user = order[o].buyer
  /\ WebMove(o, order[o], "disputed", "buyer")
  /\ UNCHANGED partyAlone

-----------------------------------------------------------------------------
(* The admin console, on the worker role.                                  *)

AdminDelivers(o) ==
  /\ Move(o, order[o], "delivered", "admin")
  /\ UNCHANGED partyAlone

AdminCompletes(o) ==
  /\ Move(o, order[o], "completed", "admin")
  /\ UNCHANGED partyAlone

(* The refund route reads the order and asks Stripe, which may be told     *)
(* again what it has done already; the order moves on RefundEvent.         *)
AdminRefunds(o) ==
  /\ order[o].intent
  /\ order[o].status # "refunded"
  /\ stripe' = [stripe EXCEPT ![o].refund = TRUE]
  /\ UNCHANGED stripeAlone

-----------------------------------------------------------------------------
(* The clock and the completion job.                                       *)

(* AUTO_COMPLETE_AFTER_DAYS after delivered_at.                            *)
HoldWindowPasses(o) ==
  /\ order[o].status = "delivered"
  /\ due' = due \cup {o}
  /\ UNCHANGED <<listing, order, newest, request, stripe, claimed, audit, batch>>

(* As if only a carrier's confirmation started the clock.                  *)
CarrierDelivered == {o \in due : newest[o].to = "delivered" /\ newest[o].actor = "system"}

ReadyToComplete == {o \in due : order[o].status = "delivered"}

JobLists ==
  /\ batch = {}
  /\ ReadyToComplete # {}
  /\ batch' = ReadyToComplete
  /\ UNCHANGED <<listing, order, newest, request, stripe, claimed, audit, due>>

(* One order of the list: completed, or left alone because it has moved    *)
(* since it was listed.                                                    *)
JobTries(o) ==
  /\ o \in batch
  /\ batch' = batch \ {o}
  /\ \/ Move(o, order[o], "completed", "system")
     \/ /\ ~ CanTransition(order[o].status, "completed", "system")
        /\ UNCHANGED <<order, newest>>
  /\ UNCHANGED <<listing, request, stripe, claimed, audit, due>>

JobDies ==
  /\ batch # {}
  /\ batch' = {}
  /\ UNCHANGED <<listing, order, newest, request, stripe, claimed, audit, due>>

-----------------------------------------------------------------------------
ListingNext ==
  \E l \in Listings :
    \/ CreateListing(l)
    \/ \E status \in ListingStatus : SetListingStatus(l, status)
    \/ DeleteDraftListing(l)

BuyNext(o) ==
  \/ \E buyer \in Users, l \in Listings : BuyReads(o, buyer, l)
  \/ BuyInserts(o)
  \/ BuyOpensSession(o)
  \/ BuyAnswers(o)
  \/ BuyStops(o)

StripeNext(o) ==
  \/ \E charge \in {"captured", "pending"} : BuyerPays(o, charge)
  \/ \E charge \in {"cleared", "failed"} : DelayedPaymentSettles(o, charge)
  \/ SessionExpires(o)
  \/ RefundInPart(o)
  \/ RefundInFull(o)
  \/ BankOpensDispute(o)

WebhookNext(o) ==
  \/ PaymentEvent(o)
  \/ \E type \in EventType : IgnoredEvent(o, type)
  \/ RefundEvent(o)
  \/ DisputeEvent(o)

PeopleNext(o) ==
  \/ \E user \in Users : ShipOrder(o, user)
  \/ \E user \in Users : CancelOrder(o, user)
  \/ \E user \in Users : DisputeOrder(o, user)
  \/ AdminDelivers(o)
  \/ AdminCompletes(o)
  \/ AdminRefunds(o)

JobNext ==
  \/ \E o \in Orders : HoldWindowPasses(o) \/ JobTries(o)
  \/ JobLists
  \/ JobDies

Next ==
  \/ ListingNext
  \/ \E o \in Orders :
       BuyNext(o) \/ StripeNext(o) \/ WebhookNext(o) \/ PeopleNext(o)
  \/ JobNext

Spec == Init /\ [][Next]_vars

(* Stripe redelivers an event until it is acknowledged, the clock does not *)
(* stop, a session left open expires, and the timer starts the job again   *)
(* and again, so that a job which may always die does not always die.      *)
Fairness ==
  /\ \A o \in Orders :
       /\ WF_vars(PaymentEvent(o))
       /\ WF_vars(RefundEvent(o))
       /\ WF_vars(DisputeEvent(o))
       /\ \A type \in EventType : WF_vars(IgnoredEvent(o, type))
       /\ WF_vars(SessionExpires(o))
       /\ WF_vars(HoldWindowPasses(o))
       /\ SF_vars(JobTries(o))
  /\ WF_vars(JobLists)

FairSpec == Spec /\ Fairness

-----------------------------------------------------------------------------
(* What the books may say.                                                 *)

(* An order never says money moved unless it did, whatever order the       *)
(* events came in: an order past created was charged, and a refunded one   *)
(* had its whole charge returned (the rule core/orders.ts opens with).     *)
BooksFollowTheMoney ==
  \A o \in Orders :
    /\ order[o].status # "none" /\ MoneyHasMoved(order[o].status) =>
         stripe[o].charge = "captured" /\ order[o].intent
    /\ order[o].status = "refunded" => stripe[o].refund

(* Once the webhook has handled a payment, the payment is on the order or  *)
(* in the audit log for a person to look at, and never on neither or both, *)
(* although the order may have been cancelled while the buyer paid.        *)
PaymentsAccountedFor ==
  \A o \in Orders :
    <<"checkout.session.completed", o>> \in claimed /\ stripe[o].charge = "captured" =>
      (order[o].intent <=> <<"order.payment_refused", o>> \notin audit)

(* The sale an order was created for is the listing its buyer read.        *)
SaleOf(o) == request[o].listing

(* Two orders for one listing are never open at once, not even when the    *)
(* listing has since been put back on sale, withdrawn or deleted.          *)
NoDoubleSale ==
  \A o, p \in Orders :
    /\ o # p
    /\ order[o].status \in OpenStatuses
    /\ order[p].status \in OpenStatuses
    => SaleOf(o) # SaleOf(p)

(* The newest order_events row, which nobody can rewrite, says how the     *)
(* order came to be where it is, and names an actor whom the table allows  *)
(* that move.                                                              *)
TrailEndsAtTheOrder ==
  \A o \in Orders :
    order[o].status \notin {"none", "created"} =>
      /\ newest[o].to = order[o].status
      /\ CanTransition(newest[o].from, newest[o].to, newest[o].actor)

(* A fact about money always has somewhere to go: an order whose payment   *)
(* was recorded can take a refund and a chargeback in whatever state it    *)
(* is, so the webhook's refusal branches for both are never reached.       *)
MoneyFactsHaveAPlace ==
  \A o \in Orders : order[o].intent =>
    /\ order[o].status = "refunded" \/ CanTransition(order[o].status, "refunded", "stripe")
    /\ \/ order[o].status \in {"disputed", "refunded"}
       \/ CanTransition(order[o].status, "disputed", "stripe")

-----------------------------------------------------------------------------
(* What a step may never do.                                               *)

Becomes(o, status) == order[o].status # status /\ order'[o].status = status

(* paid and refunded are reached only in a transaction that claims an      *)
(* event Stripe sent about that very order, for the first time.            *)
MoneyMovesOnlyByEvent ==
  [][\A o \in Orders :
       Becomes(o, "paid") \/ Becomes(o, "refunded") =>
         \E type \in EventType : <<type, o>> \in claimed' \ claimed]_vars

(* The job works from a list that may be old: it completes an order only   *)
(* if the order is still delivered, so one disputed since it was listed    *)
(* stays disputed; everything else that completes is an admin's doing.     *)
CompletionIsEarned ==
  [][\A o \in Orders : Becomes(o, "completed") =>
       \/ order[o].status = "delivered" /\ o \in due
       \/ newest'[o].actor = "admin"]_vars

-----------------------------------------------------------------------------
(* What all of it amounts to: SaleLedger, read off the rows and Stripe.    *)

Book(o) ==
  CASE order[o].status = "none"      -> "none"
    [] order[o].status = "created"   -> "open"
    [] order[o].status = "cancelled" -> "closed"
    [] order[o].status = "refunded"  -> "undone"
    [] OTHER                         -> "sold"

Money(o) ==
  CASE ~ MoneyTaken(o)    -> "none"
    [] stripe[o].refund   -> "returned"
    [] OTHER              -> "charged"

ItemOf(o) == IF order[o].status = "none" THEN NoListing ELSE SaleOf(o)

Ledger == INSTANCE SaleLedger
  WITH Sales <- Orders, Items <- Listings, NoItem <- NoListing,
       book  <- [o \in Orders |-> Book(o)],
       item  <- [o \in Orders |-> ItemOf(o)],
       money <- [o \in Orders |-> Money(o)]

(* The books, whatever order the events, the parties and the job act in,   *)
(* move only as a ledger that follows the money does.                      *)
KeepsTheLedger == Ledger!LedgerSpec

-----------------------------------------------------------------------------
(* What must eventually happen, under FairSpec.                            *)

(* Money captured on the payment page reaches the books or the audit log.  *)
CapturedIsAnswered ==
  \A o \in Orders :
    stripe[o].charge = "captured" ~>
      order[o].intent \/ <<"order.payment_refused", o>> \in audit

(* A refund of a payment the books already hold reaches the order.         *)
RecordedRefundArrives ==
  \A o \in Orders :
    stripe[o].refund /\ order[o].intent /\ <<"charge.refunded", o>> \notin claimed ~>
      order[o].status = "refunded"

(* A delivered order does not wait for ever: the job completes it unless   *)
(* somebody moved it first, however often a run of the job dies.           *)
DeliveredIsSettled ==
  \A o \in Orders : order[o].status = "delivered" ~> order[o].status # "delivered"

-----------------------------------------------------------------------------
(* What the repository says of this code and the code does not do.         *)

(* migrations/0043: a created order holds the listing for as long as its   *)
(* Checkout session lives. Once it has expired, the order lets go.         *)
ExpiredLetsGo ==
  \A o \in Orders :
    stripe[o].session = "expired" ~> order[o].status # "created"

(* chargeRefunded: this moves the order, when Stripe confirms the refund.  *)
EveryRefundArrives ==
  \A o \in Orders :
    stripe[o].refund /\ stripe[o].charge = "captured" ~>
      \/ order[o].status = "refunded"
      \/ audit \cap {<<"order.payment_refused", o>>, <<"order.refund_refused", o>>} # {}

(* checkoutCompleted: a delayed payment clears on a different event.       *)
DelayedIsAnswered ==
  \A o \in Orders :
    stripe[o].charge = "cleared" ~>
      order[o].intent \/ <<"order.payment_refused", o>> \in audit
=============================================================================
