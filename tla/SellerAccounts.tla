--------------------------- MODULE SellerAccounts ---------------------------
(***************************************************************************)
(* Sellers and the hold on their payouts: the onboarding route, which      *)
(* creates an account at Stripe, puts it on manual payouts and records it, *)
(* one step at a time; the second webhook, which re-reads an account when  *)
(* Stripe says that it changed; and the job that lifts the hold once it is *)
(* earned. Stripe keeps the account, its payout schedule and whether it is *)
(* active; the row repeats all three, and can be wrong about each.         *)
(***************************************************************************)
EXTENDS Integers, FiniteSets

CONSTANTS Sellers,
          Accounts,     \* ids of connected accounts Stripe may hand out
          Requests,     \* onboarding requests that may run at once
          Deliveries,   \* account events that may be handled at once
          NoSeller, NoAccount,
          ReleaseAfterOrders,  \* HOLD_RELEASE_AFTER_ORDERS
          HeldLimit,           \* how many held sellers one run of the job reads
          MaxEvents            \* bound: unhandled events about one account

ASSUME SellersAssumption ==
  /\ NoSeller \notin Sellers /\ NoAccount \notin Accounts
  /\ IsFiniteSet(Sellers) /\ IsFiniteSet(Deliveries)
ASSUME LimitsAssumption ==
  ReleaseAfterOrders \in Nat \ {0} /\ HeldLimit \in Nat /\ MaxEvents \in Nat

VARIABLES
  row,       \* seller_accounts
  account,   \* the connected accounts, at Stripe
  replayed,  \* the account Stripe still answers with to a seller's idempotency key
  request,   \* the onboarding requests
  unhandled, \* how many thin events about each account wait to be handled
  delivery,  \* the handlers of such events
  sales,     \* completed orders of each seller
  list,      \* sellers the release job found to have earned their release
  releasing, \* the seller whose schedule the job has just changed
  lifted     \* history: accounts the job has put on daily payouts

vars == <<row, account, replayed, request, unhandled, delivery,
          sales, list, releasing, lifted>>

-----------------------------------------------------------------------------
(* The states the variables range over.                                    *)

SellerRow ==
  [account : Accounts \cup {NoAccount},
   held    : BOOLEAN,    \* hold_until is not null
   enabled : BOOLEAN,    \* charges_enabled and payouts_enabled, written together
   created : Nat]        \* the order of created_at

ConnectedAccount ==
  [owner    : Sellers \cup {NoSeller},
   schedule : {"daily", "manual"},
   linked   : BOOLEAN,   \* an onboarding link was handed out
   active   : BOOLEAN]   \* both capabilities are active, not pending or restricted

NoRequest == [step |-> "idle", seller |-> NoSeller, account |-> NoAccount]

Request ==
  {NoRequest}
  \cup [step : {"new"}, seller : Sellers, account : {NoAccount}]
  \cup [step : {"created", "held", "recorded", "linking"},
        seller : Sellers, account : Accounts]

NoDelivery == [account |-> NoAccount, active |-> FALSE]

Delivery == {NoDelivery} \cup [account : Accounts, active : BOOLEAN]

Sales == [completed : 0..ReleaseAfterOrders, aged : BOOLEAN]

TypeOK ==
  /\ row \in [Sellers -> SellerRow]
  /\ account \in [Accounts -> ConnectedAccount]
  /\ replayed \in [Sellers -> Accounts \cup {NoAccount}]
  /\ request \in [Requests -> Request]
  /\ unhandled \in [Accounts -> 0..MaxEvents]
  /\ delivery \in [Deliveries -> Delivery]
  /\ sales \in [Sellers -> Sales]
  /\ list \in SUBSET Sellers
  /\ releasing \in Sellers \cup {NoSeller}
  /\ lifted \in SUBSET Accounts

Init ==
  /\ row = [s \in Sellers |->
              [account |-> NoAccount, held |-> FALSE, enabled |-> FALSE, created |-> 0]]
  /\ account = [a \in Accounts |->
                  [owner |-> NoSeller, schedule |-> "daily",
                   linked |-> FALSE, active |-> FALSE]]
  /\ replayed = [s \in Sellers |-> NoAccount]
  /\ request = [r \in Requests |-> NoRequest]
  /\ unhandled = [a \in Accounts |-> 0]
  /\ delivery = [d \in Deliveries |-> NoDelivery]
  /\ sales = [s \in Sellers |-> [completed |-> 0, aged |-> FALSE]]
  /\ list = {}
  /\ releasing = NoSeller
  /\ lifted = {}

-----------------------------------------------------------------------------
(* POST /v1/seller/onboard. Every step may be the last one.                *)

onboardAlone == <<unhandled, delivery, sales, list, releasing, lifted>>

(* An account that is recorded already only needs another link.            *)
OnboardReads(r, s) ==
  /\ request[r] = NoRequest
  /\ request' = [request EXCEPT ![r] =
                   [step    |-> IF row[s].account = NoAccount THEN "new" ELSE "linking",
                    seller  |-> s,
                    account |-> row[s].account]]
  /\ UNCHANGED <<row, account, replayed>> /\ UNCHANGED onboardAlone

(* createConnectedAccount, first call: the key is derived from the seller, *)
(* so a second attempt is answered with the account of the first.          *)
CreateAccount(r, a) ==
  LET s == request[r].seller IN
  /\ request[r].step = "new"
  /\ IF replayed[s] = NoAccount
     THEN /\ account[a].owner = NoSeller
          /\ account' = [account EXCEPT ![a].owner = s]
     ELSE a = replayed[s] /\ UNCHANGED account
  /\ replayed' = [replayed EXCEPT ![s] = a]
  /\ request' = [request EXCEPT ![r].step = "created", ![r].account = a]
  /\ UNCHANGED row /\ UNCHANGED onboardAlone

(* Stripe forgets a key after 24 hours.                                    *)
KeyForgotten(s) ==
  /\ replayed[s] # NoAccount
  /\ replayed' = [replayed EXCEPT ![s] = NoAccount]
  /\ UNCHANGED <<row, account, request>> /\ UNCHANGED onboardAlone

(* createConnectedAccount, second call.                                    *)
HoldAtStripe(r) ==
  /\ request[r].step = "created"
  /\ account' = [account EXCEPT ![request[r].account].schedule = "manual"]
  /\ request' = [request EXCEPT ![r].step = "held"]
  /\ UNCHANGED <<row, replayed>> /\ UNCHANGED onboardAlone

Recorded == {s \in Sellers : row[s].account # NoAccount}

(* As if the request went on with the account it created itself.           *)
RecordAndKeepOwn(r) ==
  LET s == request[r].seller IN
  /\ request[r].step = "held"
  /\ IF s \in Recorded THEN UNCHANGED row
     ELSE row' = [row EXCEPT ![s].account = request[r].account,
                             ![s].created = Cardinality(Recorded)]
  /\ request' = [request EXCEPT ![r].step = "recorded"]
  /\ UNCHANGED <<account, replayed>> /\ UNCHANGED onboardAlone

(* As if the account were recorded as soon as it exists, held or not.      *)
RecordUnheld(r) ==
  LET s == request[r].seller
      a == IF s \in Recorded THEN row[s].account ELSE request[r].account
  IN
  /\ request[r].step \in {"created", "held"}
  /\ row' = [row EXCEPT ![s].account = a]
  /\ request' = [request EXCEPT ![r].step = "recorded", ![r].account = a]
  /\ UNCHANGED <<account, replayed>> /\ UNCHANGED onboardAlone

(* recordSellerAccount: a row that is there already wins.                  *)
RecordAccount(r) ==
  LET s == request[r].seller IN
  /\ request[r].step = "held"
  /\ \/ /\ s \notin Recorded
        /\ row' = [row EXCEPT ![s].account = request[r].account,
                              ![s].created = Cardinality(Recorded)]
        /\ request' = [request EXCEPT ![r].step = "recorded"]
     \/ /\ s \in Recorded
        /\ request' = [request EXCEPT ![r].step = "recorded",
                                      ![r].account = row[s].account]
        /\ UNCHANGED row
  /\ UNCHANGED <<account, replayed>> /\ UNCHANGED onboardAlone

(* holdSellerPayouts, on the worker's connection.                          *)
HoldInRow(r) ==
  LET s == request[r].seller IN
  /\ request[r].step = "recorded"
  /\ row' = [row EXCEPT ![s].held = @ \/ row[s].account = request[r].account]
  /\ request' = [request EXCEPT ![r].step = "linking"]
  /\ UNCHANGED <<account, replayed>> /\ UNCHANGED onboardAlone

HandOutLink(r) ==
  /\ request[r].step = "linking"
  /\ account' = [account EXCEPT ![request[r].account].linked = TRUE]
  /\ request' = [request EXCEPT ![r] = NoRequest]
  /\ UNCHANGED <<row, replayed>> /\ UNCHANGED onboardAlone

(* A call fails, or the process dies: nothing is undone.                   *)
OnboardStops(r) ==
  /\ request[r] # NoRequest
  /\ request' = [request EXCEPT ![r] = NoRequest]
  /\ UNCHANGED <<row, account, replayed>> /\ UNCHANGED onboardAlone

-----------------------------------------------------------------------------
(* Stripe changes its mind about an account and says so in a thin event,   *)
(* which a handler answers by reading the account and writing what it read *)
(* in the transaction that claims the event.                               *)

webhookAlone == <<replayed, request, sales, list, releasing, lifted>>

CapabilityChanges(a) ==
  /\ account[a].linked
  /\ unhandled[a] < MaxEvents
  /\ account' = [account EXCEPT ![a].active = ~ @]
  /\ unhandled' = [unhandled EXCEPT ![a] = @ + 1]
  /\ UNCHANGED <<row, delivery>> /\ UNCHANGED webhookAlone

InHand(a) == {d \in Deliveries : delivery[d].account = a}

(* An event being handled is claimed: another delivery of it waits.        *)
EventReads(d, a) ==
  /\ delivery[d] = NoDelivery
  /\ Cardinality(InHand(a)) < unhandled[a]
  /\ delivery' = [delivery EXCEPT ![d] = [account |-> a, active |-> account[a].active]]
  /\ UNCHANGED <<row, account, unhandled>> /\ UNCHANGED webhookAlone

EventWrites(d) ==
  LET a == delivery[d].account IN
  /\ delivery[d] # NoDelivery
  /\ row' = [s \in Sellers |->
               IF row[s].account = a THEN [row[s] EXCEPT !.enabled = delivery[d].active]
               ELSE row[s]]
  /\ unhandled' = [unhandled EXCEPT ![a] = @ - 1]
  /\ delivery' = [delivery EXCEPT ![d] = NoDelivery]
  /\ UNCHANGED account /\ UNCHANGED webhookAlone

(* As if the event were claimed in a transaction of its own.               *)
EventLost(d) ==
  /\ delivery[d] # NoDelivery
  /\ unhandled' = [unhandled EXCEPT ![delivery[d].account] = @ - 1]
  /\ delivery' = [delivery EXCEPT ![d] = NoDelivery]
  /\ UNCHANGED <<row, account>> /\ UNCHANGED webhookAlone

(* The transaction rolls back, the claim with it; Stripe delivers again.   *)
EventRollsBack(d) ==
  /\ delivery[d] # NoDelivery
  /\ delivery' = [delivery EXCEPT ![d] = NoDelivery]
  /\ UNCHANGED <<row, account, unhandled>> /\ UNCHANGED webhookAlone

-----------------------------------------------------------------------------
(* Sales, which take weeks: no request that was running when a seller's    *)
(* first order was placed is still running when it completes.              *)

salesAlone == <<row, account, replayed, request, unhandled, delivery,
                list, releasing, lifted>>

Selling(s) ==
  /\ s \in Recorded
  /\ account[row[s].account].linked
  /\ \A r \in Requests : request[r].seller # s \/ request[r].step = "linking"

SaleCompletes(s) ==
  /\ Selling(s)
  /\ sales[s].completed < ReleaseAfterOrders
  /\ sales' = [sales EXCEPT ![s].completed = @ + 1]
  /\ UNCHANGED salesAlone

WeekPasses(s) ==
  /\ sales[s].completed > 0
  /\ ~ sales[s].aged
  /\ sales' = [sales EXCEPT ![s].aged = TRUE]
  /\ UNCHANGED salesAlone

(* A completed order is disputed or refunded; the earliest of those left   *)
(* may be younger than it.                                                 *)
SaleUndone(s, aged) ==
  /\ sales[s].completed > 0
  /\ aged => sales[s].aged /\ sales[s].completed > 1
  /\ sales' = [sales EXCEPT ![s].completed = @ - 1, ![s].aged = aged]
  /\ UNCHANGED salesAlone

-----------------------------------------------------------------------------
(* The job that releases payouts.                                          *)

jobAlone == <<replayed, request, unhandled, delivery, sales>>

CanReleaseHold(s) == sales[s].completed >= ReleaseAfterOrders /\ sales[s].aged

Held == {s \in Sellers : row[s].held}

(* heldSellers: the oldest rows first, and no more than a limit.           *)
HeldSellers ==
  {s \in Held : Cardinality({t \in Held : row[t].created < row[s].created}) < HeldLimit}

JobLists ==
  /\ list = {} /\ releasing = NoSeller
  /\ list' = {s \in HeldSellers : CanReleaseHold(s)}
  /\ UNCHANGED <<row, account, releasing, lifted>> /\ UNCHANGED jobAlone

JobChangesSchedule(s) ==
  /\ s \in list /\ releasing = NoSeller
  /\ account' = [account EXCEPT ![row[s].account].schedule = "daily"]
  /\ lifted' = lifted \cup {row[s].account}
  /\ list' = list \ {s}
  /\ releasing' = s
  /\ UNCHANGED row /\ UNCHANGED jobAlone

(* Stripe refuses: the next seller is tried.                               *)
JobSkips(s) ==
  /\ s \in list /\ releasing = NoSeller
  /\ list' = list \ {s}
  /\ UNCHANGED <<row, account, releasing, lifted>> /\ UNCHANGED jobAlone

(* As if the row were forgotten once Stripe had agreed.                    *)
JobForgetsRow ==
  /\ releasing # NoSeller
  /\ releasing' = NoSeller
  /\ UNCHANGED <<row, account, list, lifted>> /\ UNCHANGED jobAlone

JobClearsRow ==
  /\ releasing # NoSeller
  /\ row' = [row EXCEPT ![releasing].held = FALSE]
  /\ releasing' = NoSeller
  /\ UNCHANGED <<account, list, lifted>> /\ UNCHANGED jobAlone

JobDies ==
  /\ list # {} \/ releasing # NoSeller
  /\ list' = {} /\ releasing' = NoSeller
  /\ UNCHANGED <<row, account, lifted>> /\ UNCHANGED jobAlone

-----------------------------------------------------------------------------
OnboardNext(r) ==
  \/ \E s \in Sellers : OnboardReads(r, s)
  \/ \E a \in Accounts : CreateAccount(r, a)
  \/ HoldAtStripe(r)
  \/ RecordAccount(r)
  \/ HoldInRow(r)
  \/ HandOutLink(r)
  \/ OnboardStops(r)

WebhookNext(d) ==
  \/ \E a \in Accounts : EventReads(d, a)
  \/ EventWrites(d)
  \/ EventRollsBack(d)

SalesNext(s) ==
  \/ SaleCompletes(s)
  \/ WeekPasses(s)
  \/ \E aged \in BOOLEAN : SaleUndone(s, aged)

JobNext ==
  \/ JobLists
  \/ \E s \in Sellers : JobChangesSchedule(s) \/ JobSkips(s)
  \/ JobClearsRow
  \/ JobDies

Next ==
  \/ \E r \in Requests : OnboardNext(r)
  \/ \E s \in Sellers : KeyForgotten(s) \/ SalesNext(s)
  \/ \E a \in Accounts : CapabilityChanges(a)
  \/ \E d \in Deliveries : WebhookNext(d)
  \/ JobNext

Spec == Init /\ [][Next]_vars

(* The timer starts the job again and again; a job that may die, and a     *)
(* Stripe that may refuse, do not do so for ever at the same seller.       *)
Fairness ==
  /\ WF_vars(JobLists)
  /\ SF_vars(JobClearsRow)
  /\ \A s \in Sellers : SF_vars(JobChangesSchedule(s))

FairSpec == Spec /\ Fairness

-----------------------------------------------------------------------------
(* Safety.                                                                 *)

(* Money that reaches a new seller waits at Stripe: an account is never    *)
(* active on daily payouts unless the job has lifted its hold, although    *)
(* Stripe creates accounts on daily payouts and the hold is a second call. *)
MoneyWaits ==
  \A a \in Accounts :
    account[a].active /\ account[a].schedule = "daily" => a \in lifted

(* A seller only ever onboards with the account the books know: however    *)
(* many requests race or die and whatever Stripe has forgotten, a link is  *)
(* handed out for the recorded account and no other.                       *)
LinksLeadHome ==
  \A a \in Accounts :
    account[a].linked => account[a].owner \in Sellers
                         /\ row[account[a].owner].account = a

(* Once every event about an account has been handled, the row says what   *)
(* Stripe says.                                                            *)
SettledRowsAgree ==
  \A s \in Recorded :
    LET a == row[s].account IN
    unhandled[a] = 0 => row[s].enabled = account[a].active

(* The row stops saying held only when the bank is paid daily already.     *)
ReleaseIsReal ==
  [][\A s \in Sellers : row[s].held /\ ~ row'[s].held =>
       account[row[s].account].schedule = "daily"]_vars

(* The row of a seller whose hold is lifted is left alone ever after: it   *)
(* is never held again, not even by a request that lost a race.            *)
ReleasedForGood ==
  [][\A s \in Recorded : row[s].account \in lifted /\ ~ row[s].held => ~ row'[s].held]_vars

-----------------------------------------------------------------------------
(* Liveness, under FairSpec.                                               *)

(* A held seller who has earned the release and keeps what earned it is    *)
(* let go, as long as the job reads every held seller.                     *)
EarnedHoldIsLifted ==
  \A s \in Sellers : row[s].held /\ CanReleaseHold(s) ~> ~ row[s].held \/ ~ CanReleaseHold(s)

-----------------------------------------------------------------------------
(* What the repository says of this code and the code does not do.         *)

(* job-release-payouts: no account is left whose payouts are manual for    *)
(* ever and whose row says otherwise.                                      *)
NobodyIsForgotten ==
  \A s \in Sellers :
    s \in Recorded /\ CanReleaseHold(s) ~>
      \/ ~ CanReleaseHold(s)
      \/ \E a \in Accounts : row[s].account = a /\ account[a].schedule = "daily"
=============================================================================
