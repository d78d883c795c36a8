------------------------ MODULE SellerAccounts_proofs ------------------------
(***************************************************************************)
(* Theorems about SellerAccounts for every finite set of sellers, and any  *)
(* number of accounts, requests, events and orders that earn a release:    *)
(* money waits at Stripe until the job lets it go, a seller only ever      *)
(* onboards with the recorded account, and a release is real and final.    *)
(***************************************************************************)
EXTENDS SellerAccounts, FiniteSetTheorems, TLAPS

-----------------------------------------------------------------------------
(* Type correctness. No more handlers have events about an account in hand *)
(* than events wait, and the hold and the job only concern recorded rows.  *)

EventsClaimed == \A a \in Accounts : Cardinality(InHand(a)) <= unhandled[a]

HeldIsRecorded ==
  /\ \A s \in Sellers : row[s].held => s \in Recorded
  /\ list \subseteq Recorded

TypeInv == TypeOK /\ EventsClaimed /\ HeldIsRecorded

LEMMA RecordedIsFinite == Cardinality(Recorded) \in Nat
BY SellersAssumption, FS_Subset, FS_CardinalityType DEF Recorded

LEMMA InHandIsFinite ==
  ASSUME NEW a  PROVE  IsFiniteSet(InHand(a)) /\ Cardinality(InHand(a)) \in Nat
BY SellersAssumption, FS_Subset, FS_CardinalityType DEF InHand

LEMMA TypeInit == Init => TypeInv
<1>. SUFFICES ASSUME Init  PROVE  TypeInv
  OBVIOUS
<1>1. TypeOK
  BY LimitsAssumption DEF Init, TypeOK, SellerRow, ConnectedAccount, Request, NoRequest,
     Delivery, NoDelivery, Sales
<1>2. \A a \in Accounts : InHand(a) = {}
  BY SellersAssumption DEF Init, InHand, NoDelivery
<1>3. EventsClaimed
  <2>1. Cardinality({}) = 0
    BY FS_EmptySet
  <2>2. ASSUME NEW a \in Accounts  PROVE  Cardinality(InHand(a)) <= unhandled[a]
    <3>1. InHand(a) = {} /\ unhandled[a] = 0
      BY <1>2 DEF Init
    <3>. QED  BY <2>1, <3>1
  <2>. QED  BY <2>2 DEF EventsClaimed
<1>4. HeldIsRecorded
  BY DEF Init, HeldIsRecorded
<1>. QED  BY <1>1, <1>3, <1>4 DEF TypeInv

LEMMA OnboardTypeStep ==
  ASSUME TypeOK, NEW r \in Requests, OnboardNext(r)
  PROVE  TypeOK'
<1>. USE DEF TypeOK, onboardAlone
<1>0. /\ request[r] \in Request
      /\ NoRequest \in Request
  BY DEF Request
<1>1. ASSUME NEW s \in Sellers, OnboardReads(r, s)  PROVE  TypeOK'
  <2>1. row[s].account \in Accounts \cup {NoAccount}
    BY DEF SellerRow
  <2>2. request' \in [Requests -> Request]
    BY <1>1, <2>1 DEF OnboardReads, Request
  <2>. QED  BY <1>1, <2>2 DEF OnboardReads
<1>2. ASSUME NEW a \in Accounts, CreateAccount(r, a)  PROVE  TypeOK'
  <2>1. request[r].seller \in Sellers
    BY <1>0, <1>2 DEF CreateAccount, Request, NoRequest
  <2>2. [request[r] EXCEPT !.step = "created", !.account = a] \in Request
    BY <1>0, <1>2, <2>1 DEF CreateAccount, Request, NoRequest
  <2>3. account' \in [Accounts -> ConnectedAccount]
    BY <1>2, <2>1 DEF CreateAccount, ConnectedAccount
  <2>. QED  BY <1>2, <2>1, <2>2, <2>3 DEF CreateAccount
<1>3. CASE HoldAtStripe(r)
  <2>1. request[r].account \in Accounts
    BY <1>0, <1>3 DEF HoldAtStripe, Request, NoRequest
  <2>2. request' \in [Requests -> Request]
    BY <1>0, <1>3 DEF HoldAtStripe, Request, NoRequest
  <2>3. account' \in [Accounts -> ConnectedAccount]
    BY <1>3, <2>1 DEF HoldAtStripe, ConnectedAccount
  <2>. QED  BY <1>3, <2>2, <2>3 DEF HoldAtStripe
<1>4. CASE RecordAccount(r)
  <2>1. request[r].account \in Accounts /\ request[r].seller \in Sellers
    BY <1>0, <1>4 DEF RecordAccount, Request, NoRequest
  <2>2. request[r].seller \in Recorded => row[request[r].seller].account \in Accounts
    BY <2>1 DEF Recorded, SellerRow
  <2>3. request' \in [Requests -> Request]
    BY <1>0, <1>4, <2>1, <2>2 DEF RecordAccount, Request, NoRequest
  <2>4. row' \in [Sellers -> SellerRow]
    BY <1>4, <2>1, RecordedIsFinite DEF RecordAccount, SellerRow
  <2>. QED  BY <1>4, <2>3, <2>4 DEF RecordAccount
<1>5. CASE HoldInRow(r)
  <2>1. request[r].seller \in Sellers
    BY <1>0, <1>5 DEF HoldInRow, Request, NoRequest
  <2>2. request' \in [Requests -> Request]
    BY <1>0, <1>5 DEF HoldInRow, Request, NoRequest
  <2>3. row' \in [Sellers -> SellerRow]
    BY <1>5, <2>1 DEF HoldInRow, SellerRow
  <2>. QED  BY <1>5, <2>2, <2>3 DEF HoldInRow
<1>6. CASE HandOutLink(r)
  <2>1. account' \in [Accounts -> ConnectedAccount]
    BY <1>6 DEF HandOutLink, ConnectedAccount
  <2>. QED  BY <1>0, <1>6, <2>1 DEF HandOutLink
<1>7. CASE OnboardStops(r)
  BY <1>0, <1>7 DEF OnboardStops
<1>. QED  BY <1>1, <1>2, <1>3, <1>4, <1>5, <1>6, <1>7 DEF OnboardNext

(* A handler that is done has its event in hand no more.                   *)
LEMMA HandDropped ==
  ASSUME NEW d \in Deliveries, NEW a \in Accounts, TypeOK,
         delivery[d].account = a, delivery' = [delivery EXCEPT ![d] = NoDelivery]
  PROVE  /\ Cardinality(InHand(a)) >= 1
         /\ Cardinality(InHand(a)') = Cardinality(InHand(a)) - 1
         /\ \A b \in Accounts : b # a => InHand(b)' = InHand(b)
<1>1. /\ d \in InHand(a)
      /\ InHand(a)' = InHand(a) \ {d}
      /\ \A b \in Accounts : b # a => InHand(b)' = InHand(b)
  BY SellersAssumption DEF TypeOK, InHand, NoDelivery
<1>2. Cardinality(InHand(a) \ {d}) = Cardinality(InHand(a)) - 1
  BY <1>1, InHandIsFinite, FS_RemoveElement
<1>3. Cardinality(InHand(a) \ {d}) \in Nat
  BY InHandIsFinite, FS_RemoveElement, FS_CardinalityType
<1>. QED  BY <1>1, <1>2, <1>3, InHandIsFinite

LEMMA WebhookTypeStep ==
  ASSUME TypeInv, NEW d \in Deliveries, WebhookNext(d)
  PROVE  TypeInv'
<1>. USE DEF TypeInv, TypeOK, webhookAlone
<1>. SUFFICES TypeOK' /\ EventsClaimed'
  <2>1. HeldIsRecorded'
    <3>1. list' = list
      BY DEF WebhookNext, EventReads, EventWrites, EventRollsBack
    <3>2. \A s \in Sellers : row'[s].held = row[s].held /\ row'[s].account = row[s].account
      BY DEF WebhookNext, EventReads, EventWrites, EventRollsBack, SellerRow
    <3>. QED  BY <3>1, <3>2 DEF HeldIsRecorded, Recorded
  <2>. QED  BY <2>1
<1>0. NoDelivery \in Delivery /\ \A a \in Accounts : a # NoAccount
  BY SellersAssumption DEF Delivery
<1>1. ASSUME NEW a \in Accounts, EventReads(d, a)  PROVE  TypeOK' /\ EventsClaimed'
  <2>1. account[a].active \in BOOLEAN
    BY DEF ConnectedAccount
  <2>2. TypeOK'
    BY <1>1, <2>1 DEF EventReads, Delivery
  <2>3. d \notin InHand(a) /\ InHand(a)' = InHand(a) \cup {d}
    BY <1>0, <1>1 DEF EventReads, InHand, NoDelivery
  <2>4. Cardinality(InHand(a)') = Cardinality(InHand(a)) + 1
    BY <2>3, InHandIsFinite, FS_AddElement
  <2>5. \A b \in Accounts : b # a => InHand(b)' = InHand(b)
    BY <1>0, <1>1 DEF EventReads, InHand, NoDelivery
  <2>6. EventsClaimed'
    BY <1>1, <2>4, <2>5, InHandIsFinite DEF EventReads, EventsClaimed
  <2>. QED  BY <2>2, <2>6
<1>2. CASE EventWrites(d)
  <2>1. PICK a \in Accounts : delivery[d].account = a
    BY <1>2 DEF EventWrites, Delivery
  <2>2. /\ Cardinality(InHand(a)) >= 1
        /\ Cardinality(InHand(a)') = Cardinality(InHand(a)) - 1
        /\ \A b \in Accounts : b # a => InHand(b)' = InHand(b)
    BY <1>2, <2>1, HandDropped DEF EventWrites
  <2>3. unhandled' = [unhandled EXCEPT ![a] = unhandled[a] - 1]
    BY <1>2, <2>1 DEF EventWrites
  <2>4. unhandled[a] \in 1..MaxEvents
    BY <2>2, InHandIsFinite, LimitsAssumption DEF EventsClaimed
  <2>5. unhandled' \in [Accounts -> 0..MaxEvents]
    BY <2>3, <2>4, LimitsAssumption
  <2>6. row' \in [Sellers -> SellerRow]
    <3>1. delivery[d].active \in BOOLEAN
      BY <1>2 DEF EventWrites, Delivery
    <3>2. \A s \in Sellers : [row[s] EXCEPT !.enabled = delivery[d].active] \in SellerRow
      BY <3>1 DEF SellerRow
    <3>. QED  BY <1>2, <3>2 DEF EventWrites
  <2>7. TypeOK'
    BY <1>0, <1>2, <2>5, <2>6 DEF EventWrites
  <2>8. EventsClaimed'
    BY <2>2, <2>3, <2>4, InHandIsFinite, LimitsAssumption DEF EventsClaimed
  <2>. QED  BY <2>7, <2>8
<1>3. CASE EventRollsBack(d)
  <2>1. PICK a \in Accounts : delivery[d].account = a
    BY <1>3 DEF EventRollsBack, Delivery
  <2>2. /\ Cardinality(InHand(a)') = Cardinality(InHand(a)) - 1
        /\ \A b \in Accounts : b # a => InHand(b)' = InHand(b)
    BY <1>3, <2>1, HandDropped DEF EventRollsBack
  <2>3. TypeOK'
    BY <1>0, <1>3 DEF EventRollsBack
  <2>4. EventsClaimed'
    BY <1>3, <2>2, InHandIsFinite, LimitsAssumption DEF EventRollsBack, EventsClaimed
  <2>. QED  BY <2>3, <2>4
<1>. QED  BY <1>1, <1>2, <1>3 DEF WebhookNext

LEMMA SalesTypeStep ==
  ASSUME TypeOK, NEW s \in Sellers, SalesNext(s)
  PROVE  TypeOK'
<1>. USE DEF TypeOK, salesAlone
<1>0. sales[s] \in Sales
  OBVIOUS
<1>1. CASE SaleCompletes(s)
  <2>1. [sales[s] EXCEPT !.completed = @ + 1] \in Sales
    BY <1>0, <1>1, LimitsAssumption DEF SaleCompletes, Sales
  <2>. QED  BY <1>1, <2>1 DEF SaleCompletes
<1>2. CASE WeekPasses(s)
  <2>1. [sales[s] EXCEPT !.aged = TRUE] \in Sales
    BY <1>0 DEF Sales
  <2>. QED  BY <1>2, <2>1 DEF WeekPasses
<1>3. ASSUME NEW aged \in BOOLEAN, SaleUndone(s, aged)  PROVE  TypeOK'
  <2>1. [sales[s] EXCEPT !.completed = @ - 1, !.aged = aged] \in Sales
    <3>1. sales[s].completed \in 0..ReleaseAfterOrders /\ sales[s].completed > 0
      BY <1>0, <1>3 DEF SaleUndone, Sales
    <3>2. sales[s].completed - 1 \in 0..ReleaseAfterOrders
      BY <3>1, LimitsAssumption
    <3>. QED  BY <1>0, <3>2 DEF Sales
  <2>. QED  BY <1>3, <2>1 DEF SaleUndone
<1>. QED  BY <1>1, <1>2, <1>3 DEF SalesNext

LEMMA JobTypeStep == TypeInv /\ JobNext => TypeOK' /\ HeldIsRecorded'
<1>. SUFFICES ASSUME TypeInv, JobNext  PROVE  TypeOK' /\ HeldIsRecorded'
  OBVIOUS
<1>. USE DEF TypeInv, TypeOK, HeldIsRecorded, Recorded, jobAlone
<1>1. CASE JobLists
  BY <1>1 DEF JobLists, HeldSellers, Held
<1>2. ASSUME NEW s \in Sellers, JobChangesSchedule(s)
      PROVE  TypeOK' /\ HeldIsRecorded'
  <2>1. row[s].account \in Accounts
    BY <1>2 DEF JobChangesSchedule, SellerRow
  <2>2. account' \in [Accounts -> ConnectedAccount]
    BY <1>2, <2>1 DEF JobChangesSchedule, ConnectedAccount
  <2>. QED  BY <1>2, <2>1, <2>2 DEF JobChangesSchedule
<1>3. ASSUME NEW s \in Sellers, JobSkips(s)  PROVE  TypeOK' /\ HeldIsRecorded'
  BY <1>3 DEF JobSkips
<1>4. CASE JobClearsRow
  <2>1. [row[releasing] EXCEPT !.held = FALSE] \in SellerRow
    BY <1>4 DEF JobClearsRow, SellerRow
  <2>2. row' \in [Sellers -> SellerRow]
    BY <1>4, <2>1 DEF JobClearsRow
  <2>. QED  BY <1>4, <2>2 DEF JobClearsRow, SellerRow
<1>5. CASE JobDies
  BY <1>5 DEF JobDies
<1>. QED  BY <1>1, <1>2, <1>3, <1>4, <1>5 DEF JobNext

(* The onboarding route writes a hold on the recorded account only.        *)
LEMMA OnboardHolds ==
  ASSUME TypeInv, NEW r \in Requests, OnboardNext(r)
  PROVE  HeldIsRecorded'
<1>. USE DEF TypeInv, TypeOK, HeldIsRecorded, Recorded, onboardAlone
<1>0. request[r] \in Request
  OBVIOUS
<1>1. CASE RecordAccount(r)
  <2>1. request[r].account \in Accounts /\ request[r].seller \in Sellers
    BY <1>0, <1>1 DEF RecordAccount, Request, NoRequest
  <2>. QED  BY <1>1, <2>1, SellersAssumption DEF RecordAccount, SellerRow
<1>2. CASE HoldInRow(r)
  <2>1. request[r].account \in Accounts /\ request[r].seller \in Sellers
    BY <1>0, <1>2 DEF HoldInRow, Request, NoRequest
  <2>. QED  BY <1>2, <2>1, SellersAssumption DEF HoldInRow, SellerRow
<1>. QED
  BY <1>1, <1>2 DEF OnboardNext, OnboardReads, CreateAccount, HoldAtStripe,
                    HandOutLink, OnboardStops

LEMMA TypeStep == TypeInv /\ [Next]_vars => TypeInv'
<1>. SUFFICES ASSUME TypeInv, [Next]_vars  PROVE  TypeInv'
  OBVIOUS
<1>1. UNCHANGED <<delivery, unhandled>> => EventsClaimed'
  BY DEF TypeInv, EventsClaimed, InHand
<1>2. CASE UNCHANGED vars
  BY <1>1, <1>2 DEF vars, TypeInv, TypeOK, HeldIsRecorded, Recorded
<1>3. ASSUME NEW r \in Requests, OnboardNext(r)  PROVE  TypeInv'
  <2>1. UNCHANGED <<delivery, unhandled>>
    BY <1>3 DEF OnboardNext, OnboardReads, CreateAccount, HoldAtStripe, RecordAccount,
                HoldInRow, HandOutLink, OnboardStops, onboardAlone
  <2>. QED  BY <1>1, <1>3, <2>1, OnboardTypeStep, OnboardHolds DEF TypeInv
<1>4. ASSUME NEW s \in Sellers, KeyForgotten(s)  PROVE  TypeInv'
  BY <1>1, <1>4 DEF KeyForgotten, onboardAlone, TypeInv, TypeOK, HeldIsRecorded, Recorded
<1>5. ASSUME NEW s \in Sellers, SalesNext(s)  PROVE  TypeInv'
  <2>1. UNCHANGED salesAlone
    BY <1>5 DEF SalesNext, SaleCompletes, WeekPasses, SaleUndone
  <2>2. HeldIsRecorded'
    BY <2>1 DEF salesAlone, TypeInv, HeldIsRecorded, Recorded
  <2>. QED  BY <1>1, <1>5, <2>1, <2>2, SalesTypeStep DEF TypeInv, salesAlone
<1>6. ASSUME NEW a \in Accounts, CapabilityChanges(a)  PROVE  TypeInv'
  <2>1. TypeOK'
    <3>1. account' \in [Accounts -> ConnectedAccount]
      BY <1>6 DEF CapabilityChanges, TypeInv, TypeOK, ConnectedAccount
    <3>2. unhandled' \in [Accounts -> 0..MaxEvents]
      BY <1>6, LimitsAssumption DEF CapabilityChanges, TypeInv, TypeOK
    <3>. QED  BY <1>6, <3>1, <3>2 DEF CapabilityChanges, webhookAlone, TypeInv, TypeOK
  <2>2. \A b \in Accounts : InHand(b)' = InHand(b)
    BY <1>6 DEF CapabilityChanges, InHand
  <2>3. \A b \in Accounts : unhandled'[b] \in Nat /\ unhandled'[b] >= unhandled[b]
                           /\ unhandled[b] \in Nat
    BY <1>6, LimitsAssumption DEF CapabilityChanges, TypeInv, TypeOK
  <2>4. EventsClaimed'
    BY <2>2, <2>3, InHandIsFinite DEF TypeInv, EventsClaimed
  <2>. QED
    BY <1>6, <2>1, <2>4 DEF CapabilityChanges, webhookAlone, TypeInv, HeldIsRecorded, Recorded
<1>7. ASSUME NEW d \in Deliveries, WebhookNext(d)  PROVE  TypeInv'
  BY <1>7, WebhookTypeStep
<1>8. CASE JobNext
  <2>1. UNCHANGED <<delivery, unhandled>>
    BY <1>8 DEF JobNext, JobLists, JobChangesSchedule, JobSkips, JobClearsRow, JobDies, jobAlone
  <2>. QED  BY <1>1, <1>8, <2>1, JobTypeStep DEF TypeInv
<1>. QED  BY <1>2, <1>3, <1>4, <1>5, <1>6, <1>7, <1>8 DEF Next

(* Rows, accounts, requests and events stay within their types.            *)
THEOREM TypeCorrect == Spec => []TypeOK
<1>1. TypeInv => TypeOK
  BY DEF TypeInv
<1>. QED  BY <1>1, TypeInit, TypeStep, PTL DEF Spec

-----------------------------------------------------------------------------
(* Money waits. What the route goes on with, what the rows name and what a *)
(* seller has a link to is on manual payouts, or the job has lifted it;    *)
(* and only an account with a link can become active.                      *)

Safe(a) == account[a].schedule = "manual" \/ a \in lifted

WaitInv ==
  /\ \A r \in Requests :
       request[r].step \in {"held", "recorded", "linking"} => Safe(request[r].account)
  /\ \A s \in Recorded : Safe(row[s].account)
  /\ \A a \in Accounts : account[a].linked => Safe(a)
  /\ \A a \in Accounts : account[a].active => account[a].linked

(* An account that is safe stays so: only the job changes it to daily.     *)
LEMMA SafeStays ==
  ASSUME TypeInv, [Next]_vars, NEW a \in Accounts, Safe(a)
  PROVE  Safe(a)'
<1>. USE DEF TypeInv, TypeOK, Safe
<1>0. account[a] \in ConnectedAccount
  OBVIOUS
<1>1. CASE UNCHANGED vars
  BY <1>1 DEF vars
<1>2. ASSUME NEW r \in Requests, OnboardNext(r)  PROVE  Safe(a)'
  BY <1>0, <1>2 DEF OnboardNext, OnboardReads, CreateAccount, HoldAtStripe, RecordAccount,
              HoldInRow, HandOutLink, OnboardStops, onboardAlone, ConnectedAccount
<1>3. ASSUME NEW s \in Sellers, KeyForgotten(s) \/ SalesNext(s)  PROVE  Safe(a)'
  BY <1>3 DEF KeyForgotten, onboardAlone, SalesNext, SaleCompletes, WeekPasses, SaleUndone,
              salesAlone
<1>4. ASSUME NEW b \in Accounts, CapabilityChanges(b)  PROVE  Safe(a)'
  BY <1>0, <1>4 DEF CapabilityChanges, webhookAlone, ConnectedAccount
<1>5. ASSUME NEW d \in Deliveries, WebhookNext(d)  PROVE  Safe(a)'
  BY <1>5 DEF WebhookNext, EventReads, EventWrites, EventRollsBack, webhookAlone
<1>6. CASE JobNext
  BY <1>0, <1>6 DEF JobNext, JobLists, JobChangesSchedule, JobSkips, JobClearsRow, JobDies,
              jobAlone, ConnectedAccount
<1>. QED  BY <1>1, <1>2, <1>3, <1>4, <1>5, <1>6 DEF Next

(* Every other step leaves alone what onboarding writes, but for the keys  *)
(* Stripe forgets and the accounts it activates.                           *)
OthersFrame ==
  /\ UNCHANGED request
  /\ \A s \in Sellers : row'[s].account = row[s].account
  /\ \A a \in Accounts : /\ account'[a].owner = account[a].owner
                         /\ account'[a].linked = account[a].linked
                         /\ account'[a].active => account[a].active \/ account[a].linked
  /\ \A s \in Sellers : replayed'[s] \in {replayed[s], NoAccount}

LEMMA OthersStep ==
  ASSUME TypeInv, [Next]_vars, \A r \in Requests : ~ OnboardNext(r)
  PROVE  OthersFrame
<1>. USE DEF TypeInv, TypeOK, OthersFrame
<1>0. /\ \A a \in Accounts : account[a] \in ConnectedAccount
      /\ \A s \in Sellers : row[s] \in SellerRow
  OBVIOUS
<1>1. CASE UNCHANGED vars
  BY <1>1 DEF vars
<1>2. ASSUME NEW s \in Sellers, KeyForgotten(s) \/ SalesNext(s)  PROVE  OthersFrame
  BY <1>2 DEF KeyForgotten, onboardAlone, SalesNext, SaleCompletes, WeekPasses, SaleUndone,
              salesAlone
<1>3. ASSUME NEW b \in Accounts, CapabilityChanges(b)  PROVE  OthersFrame
  BY <1>0, <1>3 DEF CapabilityChanges, webhookAlone, ConnectedAccount
<1>4. ASSUME NEW d \in Deliveries, WebhookNext(d)  PROVE  OthersFrame
  BY <1>0, <1>4 DEF WebhookNext, EventReads, EventWrites, EventRollsBack, webhookAlone,
                    SellerRow
<1>5. CASE JobNext
  <2>1. ASSUME NEW s \in Sellers, JobChangesSchedule(s)  PROVE  OthersFrame
    BY <1>0, <2>1 DEF JobChangesSchedule, jobAlone, ConnectedAccount
  <2>2. CASE JobClearsRow
    BY <1>0, <2>2 DEF JobClearsRow, jobAlone, SellerRow
  <2>. QED  BY <1>5, <2>1, <2>2 DEF JobNext, JobLists, JobSkips, JobDies, jobAlone
<1>. QED  BY <1>1, <1>2, <1>3, <1>4, <1>5 DEF Next

(* A request past its first step has a seller and an account.              *)
LEMMA RequestHasBoth ==
  ASSUME TypeInv, NEW r \in Requests,
         request[r].step \in {"created", "held", "recorded", "linking"}
  PROVE  request[r].seller \in Sellers /\ request[r].account \in Accounts
<1>1. request[r] \in Request
  BY DEF TypeInv, TypeOK
<1>. QED  BY <1>1 DEF Request, NoRequest

LEMMA WaitStep == TypeInv /\ WaitInv /\ [Next]_vars => WaitInv'
<1>. SUFFICES ASSUME TypeInv, WaitInv, [Next]_vars  PROVE  WaitInv'
  OBVIOUS
<1>. USE DEF TypeInv, TypeOK
<1>0. /\ \A a \in Accounts : Safe(a) => Safe(a)'
      /\ \A a \in Accounts : account[a] \in ConnectedAccount
      /\ \A s \in Sellers : row[s] \in SellerRow
      /\ \A s \in Recorded : row[s].account \in Accounts
      /\ \A r \in Requests : request[r].step \in {"created", "held", "recorded", "linking"}
                            => request[r].seller \in Sellers /\ request[r].account \in Accounts
      /\ NoAccount \notin Accounts
  BY SafeStays, RequestHasBoth, SellersAssumption DEF Recorded, SellerRow
<1>1. CASE \A r \in Requests : ~ OnboardNext(r)
  <2>1. OthersFrame
    BY <1>1, OthersStep
  <2>2. \A r \in Requests : request'[r].step \in {"held", "recorded", "linking"}
                           => Safe(request[r].account)'
    BY <1>0, <2>1 DEF WaitInv, OthersFrame, Safe
  <2>3. \A s \in Recorded' : Safe(row[s].account)'
    BY <1>0, <2>1 DEF WaitInv, OthersFrame, Safe, Recorded
  <2>4. \A a \in Accounts : account'[a].linked => Safe(a)'
    BY <1>0, <2>1 DEF WaitInv, OthersFrame
  <2>5. \A a \in Accounts : account'[a].active => account'[a].linked
    BY <2>1 DEF WaitInv, OthersFrame
  <2>. QED  BY <2>2, <2>3, <2>4, <2>5 DEF WaitInv
<1>2. ASSUME NEW r \in Requests, NEW s \in Sellers, OnboardReads(r, s)  PROVE  WaitInv'
  BY <1>0, <1>2 DEF OnboardReads, onboardAlone, WaitInv, Safe, Recorded
<1>3. ASSUME NEW r \in Requests, NEW a \in Accounts, CreateAccount(r, a)  PROVE  WaitInv'
  <2>1. \A b \in Accounts : /\ account'[b].linked = account[b].linked
                            /\ account'[b].active = account[b].active
    BY <1>0, <1>3 DEF CreateAccount, ConnectedAccount
  <2>2. \A q \in Requests : request'[q].step \in {"held", "recorded", "linking"} =>
                             request'[q] = request[q]
    BY <1>3 DEF CreateAccount, Request, NoRequest
  <2>3. UNCHANGED row
    BY <1>3 DEF CreateAccount
  <2>. QED  BY <1>0, <2>1, <2>2, <2>3 DEF WaitInv, Recorded
<1>4. ASSUME NEW r \in Requests, HoldAtStripe(r)  PROVE  WaitInv'
  BY <1>0, <1>4 DEF HoldAtStripe, onboardAlone, WaitInv, Safe, Recorded, ConnectedAccount
<1>5. ASSUME NEW r \in Requests, RecordAccount(r)  PROVE  WaitInv'
  <2>. DEFINE s == request[r].seller
  <2>0. s \in Sellers /\ request[r].account \in Accounts /\ Safe(request[r].account)
    BY <1>0, <1>5 DEF RecordAccount, WaitInv
  <2>1. UNCHANGED <<account, lifted>>
    BY <1>5 DEF RecordAccount, onboardAlone
  <2>2. /\ \A t \in Sellers : t # s => row'[t] = row[t]
        /\ row'[s].account = IF s \in Recorded THEN row[s].account ELSE request[r].account
    BY <1>0, <1>5, <2>0 DEF RecordAccount, SellerRow
  <2>3. /\ \A q \in Requests : q # r => request'[q] = request[q]
        /\ request'[r].account = row'[s].account
    <3>0. request[r] \in [step : {"held"}, seller : Sellers, account : Accounts]
      BY <1>5 DEF RecordAccount, Request, NoRequest
    <3>1. CASE s \in Recorded
      BY <1>5, <2>2, <3>0, <3>1 DEF RecordAccount
    <3>2. CASE s \notin Recorded
      BY <1>5, <2>2, <3>0, <3>2 DEF RecordAccount
    <3>. QED  BY <3>1, <3>2
  <2>4. Safe(row'[s].account)
    BY <2>0, <2>2 DEF WaitInv
  <2>. HIDE DEF s
  <2>. QED  BY <1>0, <2>0, <2>1, <2>2, <2>3, <2>4 DEF WaitInv, Safe, Recorded
<1>6. ASSUME NEW r \in Requests, HoldInRow(r)  PROVE  WaitInv'
  BY <1>0, <1>6 DEF HoldInRow, onboardAlone, WaitInv, Safe, Recorded, SellerRow
<1>7. ASSUME NEW r \in Requests, HandOutLink(r)  PROVE  WaitInv'
  BY <1>0, <1>7 DEF HandOutLink, onboardAlone, WaitInv, Safe, Recorded, ConnectedAccount,
                    NoRequest
<1>8. ASSUME NEW r \in Requests, OnboardStops(r)  PROVE  WaitInv'
  BY <1>0, <1>8 DEF OnboardStops, onboardAlone, WaitInv, Safe, Recorded, NoRequest
<1>. QED  BY <1>1, <1>2, <1>3, <1>4, <1>5, <1>6, <1>7, <1>8 DEF OnboardNext

(* An account that can be paid out daily is one the job has let go.        *)
THEOREM MoneyAlwaysWaits == Spec => []MoneyWaits
<1>1. Init => WaitInv
  BY DEF Init, WaitInv, NoRequest, Recorded
<1>2. TypeInv /\ WaitInv => MoneyWaits
  BY DEF TypeInv, TypeOK, WaitInv, Safe, MoneyWaits, ConnectedAccount
<1>. QED  BY <1>1, <1>2, WaitStep, TypeInit, TypeStep, PTL DEF Spec

-----------------------------------------------------------------------------
(* Links lead home. Every account in play is owned by the seller it is in  *)
(* play for, and the one a request has recorded is the one in the row.     *)

OwnInv ==
  /\ \A s \in Recorded : account[row[s].account].owner = s
  /\ \A s \in Sellers : replayed[s] # NoAccount => account[replayed[s]].owner = s
  /\ \A r \in Requests : request[r].step \in {"created", "held", "recorded", "linking"}
                           => account[request[r].account].owner = request[r].seller
  /\ \A r \in Requests : request[r].step \in {"recorded", "linking"}
                           => row[request[r].seller].account = request[r].account
  /\ \A a \in Accounts : account[a].linked \/ a \in lifted
                           => account[a].owner \in Sellers /\ row[account[a].owner].account = a

(* An account keeps its owner and a row keeps its account.                 *)
LEMMA OwnersStay ==
  ASSUME TypeInv, [Next]_vars
  PROVE  /\ \A a \in Accounts : account[a].owner \in Sellers => account'[a].owner = account[a].owner
         /\ \A s \in Recorded : row'[s].account = row[s].account
<1>. USE DEF TypeInv, TypeOK
<1>0. /\ \A a \in Accounts : account[a] \in ConnectedAccount
      /\ \A s \in Sellers : row[s] \in SellerRow
      /\ \A s \in Recorded : s \in Sellers
  BY DEF Recorded
<1>1. CASE \A r \in Requests : ~ OnboardNext(r)
  BY <1>0, <1>1, OthersStep DEF OthersFrame
<1>2. ASSUME NEW r \in Requests, OnboardNext(r)
      PROVE  \A a \in Accounts : account[a].owner \in Sellers => account'[a].owner = account[a].owner
  BY <1>0, <1>2, SellersAssumption DEF OnboardNext, OnboardReads, CreateAccount, HoldAtStripe,
     RecordAccount, HoldInRow, HandOutLink, OnboardStops, onboardAlone, ConnectedAccount
<1>3. ASSUME NEW r \in Requests, OnboardNext(r)
      PROVE  \A s \in Recorded : row'[s].account = row[s].account
  <2>1. CASE RecordAccount(r)
    BY <1>0, <2>1 DEF RecordAccount
  <2>2. CASE HoldInRow(r)
    BY <1>0, <2>2 DEF HoldInRow, SellerRow
  <2>. QED
    BY <1>3, <2>1, <2>2 DEF OnboardNext, OnboardReads, CreateAccount, HoldAtStripe,
                            HandOutLink, OnboardStops
<1>. QED  BY <1>1, <1>2, <1>3

LEMMA OwnStep == TypeInv /\ OwnInv /\ [Next]_vars => OwnInv'
<1>. SUFFICES ASSUME TypeInv, OwnInv, [Next]_vars  PROVE  OwnInv'
  OBVIOUS
<1>. USE DEF TypeInv, TypeOK
<1>0. /\ \A a \in Accounts : account[a].owner \in Sellers => account'[a].owner = account[a].owner
      /\ \A s \in Recorded : row'[s].account = row[s].account
      /\ \A a \in Accounts : account[a] \in ConnectedAccount
      /\ \A s \in Sellers : row[s] \in SellerRow
      /\ \A s \in Recorded : s \in Sellers /\ row[s].account \in Accounts
      /\ \A s \in Sellers : replayed[s] # NoAccount => replayed[s] \in Accounts
      /\ \A r \in Requests : request[r].step \in {"created", "held", "recorded", "linking"}
                               => request[r].seller \in Sellers /\ request[r].account \in Accounts
      /\ NoAccount \notin Accounts /\ NoSeller \notin Sellers
  BY OwnersStay, RequestHasBoth, SellersAssumption DEF Recorded, SellerRow
<1>1. CASE \A r \in Requests : ~ OnboardNext(r)
  <2>1. OthersFrame
    BY <1>1, OthersStep
  <2>2. \A a \in lifted' : a \in lifted \/ \E s \in Recorded : a = row[s].account
    <3>1. ASSUME NEW s \in Sellers, JobChangesSchedule(s)
          PROVE  s \in Recorded /\ lifted' = lifted \cup {row[s].account}
      BY <3>1 DEF JobChangesSchedule, HeldIsRecorded
    <3>2. \/ UNCHANGED lifted
          \/ \E s \in Sellers : JobChangesSchedule(s)
      BY <1>1 DEF Next, vars, KeyForgotten, onboardAlone, SalesNext, SaleCompletes,
         WeekPasses, SaleUndone, salesAlone, CapabilityChanges, WebhookNext, EventReads,
         EventWrites, EventRollsBack, webhookAlone, JobNext, JobLists, JobSkips,
         JobClearsRow, JobDies
    <3>. QED  BY <3>1, <3>2
  <2>3. \A s \in Recorded' : s \in Recorded
    BY <2>1 DEF OthersFrame, Recorded
  <2>4. \A a \in Accounts : account'[a].linked \/ a \in lifted'
                              => account[a].owner \in Sellers /\ row[account[a].owner].account = a
    BY <1>0, <2>1, <2>2 DEF OthersFrame, OwnInv
  <2>5. \A a \in Accounts : account'[a].linked \/ a \in lifted'
                              => account'[a].owner \in Sellers /\ row'[account'[a].owner].account = a
    BY <2>1, <2>4 DEF OthersFrame
  <2>6. \A s \in Sellers : replayed'[s] # NoAccount => account'[replayed'[s]].owner = s
    BY <1>0, <2>1 DEF OthersFrame, OwnInv
  <2>7. \A s \in Recorded' : account'[row'[s].account].owner = s
    BY <1>0, <2>1, <2>3 DEF OthersFrame, OwnInv
  <2>. QED  BY <1>0, <2>1, <2>5, <2>6, <2>7 DEF OthersFrame, OwnInv
<1>2. ASSUME NEW r \in Requests, OnboardNext(r)  PROVE  UNCHANGED lifted
  BY <1>2 DEF OnboardNext, OnboardReads, CreateAccount, HoldAtStripe, RecordAccount, HoldInRow,
              HandOutLink, OnboardStops, onboardAlone
<1>3. ASSUME NEW r \in Requests, NEW s \in Sellers, OnboardReads(r, s)  PROVE  OwnInv'
  BY <1>0, <1>3 DEF OnboardReads, onboardAlone, OwnInv, Recorded
<1>4. ASSUME NEW r \in Requests, NEW a \in Accounts, CreateAccount(r, a)  PROVE  OwnInv'
  <2>. DEFINE s == request[r].seller
  <2>0. request[r] \in [step : {"new"}, seller : Sellers, account : {NoAccount}]
    BY <1>4 DEF CreateAccount, Request, NoRequest
  <2>1. account'[a].owner = s
    BY <1>0, <1>4, <2>0 DEF CreateAccount, OwnInv
  <2>2. \A b \in Accounts : /\ account'[b].linked = account[b].linked
                            /\ b # a => account'[b] = account[b]
    BY <1>0, <1>4 DEF CreateAccount, ConnectedAccount
  <2>3. /\ \A q \in Requests : q # r => request'[q] = request[q]
        /\ request'[r].step = "created" /\ request'[r].seller = s
        /\ request'[r].account = a
    BY <1>4, <2>0 DEF CreateAccount
  <2>4. UNCHANGED <<row, lifted>> /\ replayed' = [replayed EXCEPT ![s] = a]
    BY <1>4 DEF CreateAccount, onboardAlone
  <2>5. \A b \in Accounts, t \in Sellers : account[b].owner = t => account'[b].owner = t
    BY <1>0
  <2>6. s \in Sellers
    BY <2>0
  <2>. HIDE DEF s
  <2>7. \A t \in Recorded' : account'[row'[t].account].owner = t
    BY <1>0, <2>4, <2>5 DEF OwnInv, Recorded
  <2>8. \A t \in Sellers : replayed'[t] # NoAccount => account'[replayed'[t]].owner = t
    BY <1>0, <2>1, <2>4, <2>5, <2>6 DEF OwnInv
  <2>9. \A q \in Requests : request'[q].step \in {"created", "held", "recorded", "linking"}
                              => account'[request'[q].account].owner = request'[q].seller
    BY <1>0, <2>1, <2>3, <2>5 DEF OwnInv
  <2>10. \A q \in Requests : request'[q].step \in {"recorded", "linking"}
                              => row'[request'[q].seller].account = request'[q].account
    BY <2>3, <2>4 DEF OwnInv
  <2>11. \A b \in Accounts : account'[b].linked \/ b \in lifted'
                              => account'[b].owner \in Sellers /\ row'[account'[b].owner].account = b
    BY <1>0, <2>2, <2>4 DEF OwnInv
  <2>. QED  BY <2>7, <2>8, <2>9, <2>10, <2>11 DEF OwnInv
<1>5. ASSUME NEW r \in Requests, HoldAtStripe(r)  PROVE  OwnInv'
  <2>1. \A b \in Accounts : /\ account'[b].owner = account[b].owner
                            /\ account'[b].linked = account[b].linked
    BY <1>0, <1>5 DEF HoldAtStripe, ConnectedAccount
  <2>2. request[r] \in [step : {"created"}, seller : Sellers, account : Accounts]
    BY <1>5 DEF HoldAtStripe, Request, NoRequest
  <2>3. /\ \A q \in Requests : q # r => request'[q] = request[q]
        /\ request'[r].step = "held" /\ request'[r].seller = request[r].seller
        /\ request'[r].account = request[r].account
    BY <1>5, <2>2 DEF HoldAtStripe
  <2>4. UNCHANGED <<row, lifted, replayed>>
    BY <1>5 DEF HoldAtStripe, onboardAlone
  <2>. QED  BY <1>0, <2>1, <2>2, <2>3, <2>4 DEF OwnInv, Recorded
<1>6. ASSUME NEW r \in Requests, RecordAccount(r)  PROVE  OwnInv'
  <2>. DEFINE s == request[r].seller
              a == IF s \in Recorded THEN row[s].account ELSE request[r].account
  <2>0. request[r] \in [step : {"held"}, seller : Sellers, account : Accounts]
    BY <1>6 DEF RecordAccount, Request, NoRequest
  <2>1. s \in Sellers /\ a \in Accounts /\ account[a].owner = s
    BY <1>0, <2>0 DEF OwnInv
  <2>2. /\ \A t \in Sellers : t # s => row'[t].account = row[t].account
        /\ row'[s].account = a
    BY <1>0, <1>6, <2>0 DEF RecordAccount, SellerRow
  <2>3. request' = [request EXCEPT ![r] = [step |-> "recorded", seller |-> s, account |-> a]]
    BY <1>6, <2>0 DEF RecordAccount
  <2>4. UNCHANGED <<account, replayed, lifted>>
    BY <1>6 DEF RecordAccount, onboardAlone
  <2>. HIDE DEF s, a
  <2>5. \A t \in Recorded' : account'[row'[t].account].owner = t
    BY <1>0, <2>1, <2>2, <2>4 DEF OwnInv, Recorded
  <2>6. \A t \in Sellers : row[t].account \in Accounts => row'[t].account = row[t].account
    BY <1>0 DEF Recorded
  <2>7. \A q \in Requests : request'[q].step \in {"recorded", "linking"}
                              => row'[request'[q].seller].account = request'[q].account
    BY <1>0, <2>1, <2>2, <2>3, <2>6 DEF OwnInv
  <2>8. \A q \in Requests : request'[q].step \in {"created", "held", "recorded", "linking"}
                              => account'[request'[q].account].owner = request'[q].seller
    BY <1>0, <2>1, <2>3, <2>4 DEF OwnInv
  <2>9. \A b \in Accounts : account'[b].linked \/ b \in lifted'
                              => account'[b].owner \in Sellers /\ row'[account'[b].owner].account = b
    BY <1>0, <2>4, <2>6 DEF OwnInv
  <2>. QED  BY <2>4, <2>5, <2>7, <2>8, <2>9 DEF OwnInv
<1>7. ASSUME NEW r \in Requests, HoldInRow(r)  PROVE  OwnInv'
  <2>1. \A s \in Sellers : row'[s].account = row[s].account
    BY <1>0, <1>7 DEF HoldInRow, SellerRow
  <2>2. request[r] \in [step : {"recorded"}, seller : Sellers, account : Accounts]
    BY <1>7 DEF HoldInRow, Request, NoRequest
  <2>3. /\ \A q \in Requests : q # r => request'[q] = request[q]
        /\ request'[r].step = "linking" /\ request'[r].seller = request[r].seller
        /\ request'[r].account = request[r].account
    BY <1>7, <2>2 DEF HoldInRow
  <2>4. UNCHANGED <<account, lifted, replayed>>
    BY <1>7 DEF HoldInRow, onboardAlone
  <2>. QED  BY <1>0, <2>1, <2>2, <2>3, <2>4 DEF OwnInv, Recorded
<1>8. ASSUME NEW r \in Requests, HandOutLink(r)  PROVE  OwnInv'
  <2>1. \A b \in Accounts : /\ account'[b].owner = account[b].owner
                            /\ account'[b].linked => account[b].linked \/ b = request[r].account
    BY <1>0, <1>8 DEF HandOutLink, ConnectedAccount
  <2>2. request' = [request EXCEPT ![r] = NoRequest] /\ UNCHANGED <<row, lifted, replayed>>
    BY <1>8 DEF HandOutLink, onboardAlone
  <2>3. account[request[r].account].owner = request[r].seller
        /\ row[request[r].seller].account = request[r].account /\ request[r].seller \in Sellers
    BY <1>0, <1>8 DEF HandOutLink, OwnInv
  <2>. QED  BY <1>0, <2>1, <2>2, <2>3 DEF OwnInv, Recorded, NoRequest
<1>9. ASSUME NEW r \in Requests, OnboardStops(r)  PROVE  OwnInv'
  BY <1>0, <1>9 DEF OnboardStops, onboardAlone, OwnInv, Recorded, NoRequest
<1>. QED  BY <1>1, <1>3, <1>4, <1>5, <1>6, <1>7, <1>8, <1>9 DEF OnboardNext

(* A seller is only ever sent to finish the account that is recorded.      *)
THEOREM LinksAlwaysLeadHome == Spec => []LinksLeadHome
<1>1. Init => OwnInv
  BY DEF Init, OwnInv, NoRequest, Recorded
<1>2. OwnInv => LinksLeadHome
  BY DEF OwnInv, LinksLeadHome
<1>. QED  BY <1>1, <1>2, OwnStep, TypeInit, TypeStep, PTL DEF Spec

-----------------------------------------------------------------------------
(* A release is real. Once a seller has sold anything no request is left   *)
(* that could put the account back on manual payouts or the row on hold.   *)

Quiet(s) ==
  /\ s \in Recorded
  /\ \A r \in Requests : request[r].seller = s => request[r].step = "linking"

Earning(s) ==
  \/ s \in list
  \/ releasing = s
  \/ sales[s].completed > 0
  \/ row[s].account \in lifted

QuietInv ==
  /\ \A s \in Sellers : Earning(s) => Quiet(s)
  /\ releasing # NoSeller => account[row[releasing].account].schedule = "daily"

(* Once quiet, a seller stays quiet: the next request finds the row.       *)
LEMMA QuietStays ==
  ASSUME TypeInv, [Next]_vars, NEW s \in Sellers, Quiet(s)
  PROVE  Quiet(s)'
<1>. USE DEF TypeInv, TypeOK
<1>0. /\ row'[s].account = row[s].account /\ s \in Recorded
      /\ s # NoSeller
  BY OwnersStay, SellersAssumption DEF Quiet
<1>1. (s \in Recorded)'
  BY <1>0 DEF Recorded
<1>. SUFFICES \A r \in Requests : request'[r].seller = s => request'[r].step = "linking"
  BY <1>1 DEF Quiet
<1>2. CASE \A r \in Requests : ~ OnboardNext(r)
  BY <1>2, OthersStep DEF OthersFrame, Quiet
<1>3. ASSUME NEW r \in Requests, OnboardNext(r), NEW q \in Requests, request'[q].seller = s
      PROVE  request'[q].step = "linking"
  <2>1. CASE q # r
    BY <1>3, <2>1 DEF Quiet, OnboardNext, OnboardReads, CreateAccount, HoldAtStripe,
                      RecordAccount, HoldInRow, HandOutLink, OnboardStops
  <2>2. CASE q = r
    <3>1. ASSUME NEW t \in Sellers, OnboardReads(r, t)  PROVE  request'[q].step = "linking"
      BY <1>0, <1>3, <2>2, <3>1 DEF OnboardReads, Recorded
    <3>2. CASE HandOutLink(r) \/ OnboardStops(r)
      BY <1>0, <1>3, <2>2, <3>2 DEF HandOutLink, OnboardStops, NoRequest
    <3>3. ASSUME (\E a \in Accounts : CreateAccount(r, a)) \/ HoldAtStripe(r) \/ RecordAccount(r) \/ HoldInRow(r)
          PROVE  FALSE
      <4>1. request[r].seller = s
        BY <1>3, <2>2, <3>3 DEF CreateAccount, HoldAtStripe, RecordAccount,
                                HoldInRow, Request, NoRequest
      <4>2. request[r].step = "linking"
        BY <4>1 DEF Quiet
      <4>. QED
        BY <3>3, <4>2 DEF CreateAccount, HoldAtStripe, RecordAccount, HoldInRow
    <3>. QED  BY <1>3, <3>1, <3>2, <3>3 DEF OnboardNext
  <2>. QED  BY <2>1, <2>2
<1>. QED  BY <1>2, <1>3

(* Who earns anything for the first time is quiet then.                    *)
LEMMA EarnersAreQuiet ==
  ASSUME TypeInv, OwnInv, QuietInv, [Next]_vars, NEW s \in Sellers, Earning(s)', ~ Quiet(s)
  PROVE  Quiet(s)'
<1>. USE DEF TypeInv, TypeOK
<1>0. /\ s \notin list /\ releasing # s /\ sales[s].completed = 0 /\ row[s].account \notin lifted
      /\ sales[s] \in Sales
  <2>1. sales[s] \in Sales
    OBVIOUS
  <2>. QED  BY <2>1, LimitsAssumption DEF QuietInv, Earning, Sales
<1>1. ASSUME NEW r \in Requests, OnboardNext(r)  PROVE  FALSE
  <2>1. UNCHANGED <<sales, list, releasing, lifted>>
    BY <1>1 DEF OnboardNext, OnboardReads, CreateAccount, HoldAtStripe, RecordAccount,
                HoldInRow, HandOutLink, OnboardStops, onboardAlone
  <2>2. row'[s].account \in lifted /\ row'[s].account # row[s].account
    BY <1>0, <2>1 DEF Earning
  <2>3. RecordAccount(r) /\ request[r].seller = s /\ row'[s].account = request[r].account
        /\ s \notin Recorded
    <3>1. ~ HoldInRow(r)
      BY <2>2 DEF HoldInRow, SellerRow
    <3>2. RecordAccount(r)
      BY <1>1, <2>2, <3>1 DEF OnboardNext, OnboardReads, CreateAccount, HoldAtStripe,
                              HandOutLink, OnboardStops
    <3>3. request[r].seller \in Sellers
      BY <3>2, RequestHasBoth DEF RecordAccount
    <3>. QED  BY <2>2, <3>2, <3>3 DEF RecordAccount, SellerRow
  <2>4. request[r].account \in Accounts /\ account[request[r].account].owner = s
    BY <2>3, RequestHasBoth DEF RecordAccount, OwnInv
  <2>5. row[s].account = request[r].account
    BY <2>2, <2>3, <2>4 DEF OwnInv
  <2>. QED  BY <2>2, <2>3, <2>5
<1>2. CASE \A r \in Requests : ~ OnboardNext(r)
  <2>1. OthersFrame
    BY <1>2, OthersStep
  <2>2. ASSUME NEW t \in Sellers, SaleCompletes(t)  PROVE  Quiet(s)
    <3>1. t = s
      BY <1>0, <2>1, <2>2 DEF SaleCompletes, salesAlone, Earning, Sales
    <3>. QED  BY <2>2, <3>1 DEF SaleCompletes, Selling, Quiet
  <2>3. CASE JobLists
    <3>1. list' \subseteq {t \in Sellers : sales[t].completed > 0}
      BY <2>3, LimitsAssumption DEF JobLists, HeldSellers, Held, CanReleaseHold, Sales
    <3>2. UNCHANGED <<row, sales, releasing, lifted>>
      BY <2>3 DEF JobLists, jobAlone
    <3>. QED  BY <1>0, <3>1, <3>2 DEF Earning
  <2>4. ASSUME NEW t \in Sellers, JobChangesSchedule(t)  PROVE  FALSE
    <3>1. t # s
      BY <1>0, <2>4 DEF JobChangesSchedule
    <3>2. row[s].account = row[t].account /\ t \in Recorded
      BY <1>0, <2>4, <3>1 DEF JobChangesSchedule, jobAlone, Earning, HeldIsRecorded
    <3>3. s \in Recorded
      BY <3>2 DEF Recorded
    <3>. QED  BY <3>1, <3>2, <3>3 DEF OwnInv
  <2>5. CASE JobNext \/ UNCHANGED vars
    <3>1. ASSUME JobClearsRow \/ JobDies \/ UNCHANGED vars \/ \E t \in Sellers : JobSkips(t)
          PROVE  FALSE
      BY <1>0, <2>1, <3>1, SellersAssumption DEF JobClearsRow, JobDies, JobSkips, jobAlone, vars,
         OthersFrame, Earning
    <3>. QED  BY <2>3, <2>4, <2>5, <3>1 DEF JobNext
  <2>6. ASSUME NEW t \in Sellers, KeyForgotten(t) \/ WeekPasses(t)
                                  \/ \E aged \in BOOLEAN : SaleUndone(t, aged)
        PROVE  FALSE
    <3>1. sales'[s].completed <= sales[s].completed
      BY <1>0, <2>6 DEF KeyForgotten, onboardAlone, WeekPasses, SaleUndone, Sales
    <3>. QED  BY <1>0, <2>1, <2>6, <3>1 DEF KeyForgotten, onboardAlone, WeekPasses, SaleUndone,
                                          salesAlone, Earning, OthersFrame, Sales
  <2>7. ASSUME NEW d \in Deliveries, WebhookNext(d)  PROVE  FALSE
    BY <1>0, <2>1, <2>7 DEF WebhookNext, EventReads, EventWrites, EventRollsBack, webhookAlone,
                           Earning, OthersFrame
  <2>8. ASSUME NEW a \in Accounts, CapabilityChanges(a)  PROVE  FALSE
    BY <1>0, <2>8 DEF CapabilityChanges, webhookAlone, Earning
  <2>. QED
    BY <1>2, <2>2, <2>5, <2>6, <2>7, <2>8, QuietStays DEF Next, SalesNext
<1>. QED  BY <1>1, <1>2

(* The hold in a row is lifted by the job and set by the route.            *)
LEMMA HoldFrame ==
  ASSUME TypeInv, [Next]_vars, NEW s \in Sellers, row'[s].held # row[s].held
  PROVE  \/ JobClearsRow /\ releasing = s /\ row[s].held
         \/ \E r \in Requests : HoldInRow(r) /\ request[r].seller = s /\ ~ row[s].held
<1>. USE DEF TypeInv, TypeOK
<1>0. \A t \in Sellers : row[t] \in SellerRow
  OBVIOUS
<1>1. ASSUME NEW r \in Requests, OnboardNext(r)
      PROVE  HoldInRow(r) /\ request[r].seller = s /\ ~ row[s].held
  <2>1. ~ RecordAccount(r)
    <3>. SUFFICES ASSUME RecordAccount(r)  PROVE  row'[s].held = row[s].held
      OBVIOUS
    <3>1. request[r].seller \in Sellers
      BY RequestHasBoth DEF RecordAccount
    <3>2. CASE request[r].seller \in Recorded
      BY <3>2 DEF RecordAccount
    <3>3. CASE request[r].seller \notin Recorded /\ request[r].seller # s
      BY <3>1, <3>3 DEF RecordAccount
    <3>4. CASE request[r].seller \notin Recorded /\ request[r].seller = s
      <4>1. row'[s] = [row[s] EXCEPT !.account = request[r].account,
                                     !.created = Cardinality(Recorded)]
        BY <3>1, <3>4 DEF RecordAccount
      <4>. QED  BY <1>0, <4>1 DEF SellerRow
    <3>. QED  BY <3>2, <3>3, <3>4
  <2>2. HoldInRow(r)
    BY <1>1, <2>1 DEF OnboardNext, OnboardReads, CreateAccount, HoldAtStripe, HandOutLink,
                      OnboardStops
  <2>3. request[r].seller \in Sellers
    BY <2>2, RequestHasBoth DEF HoldInRow
  <2>. QED  BY <1>0, <2>2, <2>3 DEF HoldInRow, SellerRow
<1>2. CASE JobNext
  <2>1. JobClearsRow
    BY <1>2 DEF JobNext, JobLists, JobChangesSchedule, JobSkips, JobDies
  <2>. QED  BY <1>0, <2>1 DEF JobClearsRow, SellerRow
<1>3. ASSUME NEW d \in Deliveries, WebhookNext(d)  PROVE  FALSE
  BY <1>0, <1>3 DEF WebhookNext, EventReads, EventWrites, EventRollsBack, SellerRow
<1>. QED
  BY <1>1, <1>2, <1>3 DEF Next, vars, KeyForgotten, SalesNext, SaleCompletes, WeekPasses,
     SaleUndone, salesAlone, CapabilityChanges

LEMMA QuietStep == TypeInv /\ OwnInv /\ QuietInv /\ [Next]_vars => QuietInv'
<1>. SUFFICES ASSUME TypeInv, OwnInv, QuietInv, [Next]_vars  PROVE  QuietInv'
  OBVIOUS
<1>. USE DEF TypeInv, TypeOK
<1>1. ASSUME NEW s \in Sellers, Earning(s)'  PROVE  Quiet(s)'
  BY <1>1, QuietStays, EarnersAreQuiet
<1>2. ASSUME NEW s \in Sellers, JobChangesSchedule(s)
      PROVE  account'[row'[s].account].schedule = "daily" /\ releasing' = s
  <2>1. row[s].account \in Accounts
    BY <1>2 DEF JobChangesSchedule, HeldIsRecorded, Recorded, SellerRow
  <2>. QED  BY <1>2, <2>1 DEF JobChangesSchedule, ConnectedAccount
<1>3. ASSUME NEW s \in Sellers, releasing' = s, releasing = s
      PROVE  account'[row'[s].account].schedule = "daily"
  <2>1. /\ Quiet(s) /\ s \in Recorded /\ row[s].account \in Accounts /\ s # NoSeller
        /\ account[row[s].account].schedule = "daily" /\ account[row[s].account].owner = s
    BY <1>3, SellersAssumption DEF QuietInv, Earning, Quiet, OwnInv, Recorded, SellerRow
  <2>2. row'[s].account = row[s].account
    BY <2>1, OwnersStay
  <2>3. ASSUME NEW r \in Requests, HoldAtStripe(r)  PROVE  request[r].account # row[s].account
    BY <2>1, <2>3, RequestHasBoth DEF HoldAtStripe, OwnInv, Quiet
  <2>4. CASE UNCHANGED account
    BY <2>1, <2>2, <2>4
  <2>5. ASSUME NEW r \in Requests, OnboardNext(r)
        PROVE  account'[row[s].account].schedule = "daily"
    BY <2>1, <2>3, <2>5 DEF OnboardNext, OnboardReads, CreateAccount, HoldAtStripe, RecordAccount,
       HoldInRow, HandOutLink, OnboardStops, ConnectedAccount
  <2>6. ASSUME NEW a \in Accounts, CapabilityChanges(a)
        PROVE  account'[row[s].account].schedule = "daily"
    BY <2>1, <2>6 DEF CapabilityChanges, ConnectedAccount
  <2>7. ASSUME NEW t \in Sellers, JobChangesSchedule(t)  PROVE  FALSE
    BY <1>3, <2>1, <2>7 DEF JobChangesSchedule
  <2>. QED
    BY <2>2, <2>4, <2>5, <2>6, <2>7 DEF Next, vars, KeyForgotten, SalesNext, SaleCompletes,
       WeekPasses, SaleUndone, salesAlone, WebhookNext, EventReads, EventWrites, EventRollsBack,
       JobNext, JobLists, JobSkips, JobClearsRow, JobDies
<1>4. \/ \E s \in Sellers : JobChangesSchedule(s)
      \/ releasing' = releasing
      \/ releasing' = NoSeller
  BY DEF Next, vars, OnboardNext, OnboardReads, CreateAccount, HoldAtStripe, RecordAccount,
     HoldInRow, HandOutLink, OnboardStops, onboardAlone, KeyForgotten, SalesNext,
     SaleCompletes, WeekPasses, SaleUndone, salesAlone, CapabilityChanges, WebhookNext,
     EventReads, EventWrites, EventRollsBack, webhookAlone, JobNext, JobLists, JobSkips,
     JobClearsRow, JobDies
<1>5. releasing' # NoSeller => account'[row'[releasing'].account].schedule = "daily"
  BY <1>2, <1>3, <1>4
<1>. QED  BY <1>1, <1>5 DEF QuietInv

LEMMA QuietInit == Init => OwnInv /\ QuietInv
BY SellersAssumption DEF Init, OwnInv, QuietInv, Earning, NoRequest, Recorded

(* The row says released only when Stripe pays the bank daily.             *)
THEOREM ReleasesAreReal == Spec => ReleaseIsReal
<1>1. ASSUME TypeInv, QuietInv, [Next]_vars, NEW s \in Sellers, row[s].held, ~ row'[s].held
      PROVE  account[row[s].account].schedule = "daily"
  BY <1>1, HoldFrame, SellersAssumption DEF QuietInv
<1>2. TypeInv /\ QuietInv /\ [Next]_vars =>
        [\A s \in Sellers : row[s].held /\ ~ row'[s].held =>
           account[row[s].account].schedule = "daily"]_vars
  BY <1>1
<1>. QED
  BY <1>2, TypeInit, TypeStep, QuietInit, OwnStep, QuietStep, PTL DEF Spec, ReleaseIsReal

(* The row of a seller whose hold is lifted is never put on hold again.    *)
THEOREM ReleasesAreFinal == Spec => ReleasedForGood
<1>1. ASSUME TypeInv, QuietInv, [Next]_vars,
             NEW s \in Recorded, row[s].account \in lifted, ~ row[s].held
      PROVE  ~ row'[s].held
  <2>1. s \in Sellers /\ Quiet(s)
    BY <1>1 DEF Recorded, QuietInv, Earning
  <2>2. \A r \in Requests : request[r].seller = s => ~ HoldInRow(r)
    BY <2>1 DEF Quiet, HoldInRow
  <2>. QED  BY <1>1, <2>1, <2>2, HoldFrame
<1>2. TypeInv /\ QuietInv /\ [Next]_vars =>
        [\A s \in Recorded : row[s].account \in lifted /\ ~ row[s].held => ~ row'[s].held]_vars
  BY <1>1
<1>. QED
  BY <1>2, TypeInit, TypeStep, QuietInit, OwnStep, QuietStep, PTL DEF Spec, ReleasedForGood

-----------------------------------------------------------------------------
(* Rows agree. With one delivery of events at a time, what the last one    *)
(* read is still what Stripe says, for a change since then would be an     *)
(* event more.                                                             *)

AgreeInv ==
  /\ \A s \in Sellers : s \notin Recorded => ~ row[s].enabled
  /\ \A a \in Accounts : ~ account[a].linked => ~ account[a].active /\ unhandled[a] = 0
  /\ \A d \in Deliveries, a \in Accounts :
       delivery[d].account = a /\ unhandled[a] = 1 => delivery[d].active = account[a].active
  /\ \A s \in Sellers, a \in Accounts :
       row[s].account = a /\ unhandled[a] = 0 => row[s].enabled = account[a].active

(* What most steps leave alone.                                            *)
AgreeFrame ==
  /\ UNCHANGED <<unhandled, delivery>>
  /\ \A s \in Sellers : row'[s].account = row[s].account /\ row'[s].enabled = row[s].enabled
  /\ \A a \in Accounts : /\ account'[a].active = account[a].active
                         /\ account[a].linked => account'[a].linked

LEMMA FrameAgrees == AgreeInv /\ AgreeFrame => AgreeInv'
BY DEF AgreeInv, AgreeFrame, Recorded

LEMMA OnboardFrame ==
  ASSUME TypeInv, NEW r \in Requests, OnboardNext(r), ~ RecordAccount(r)
  PROVE  AgreeFrame
<1>. USE DEF TypeInv, TypeOK, AgreeFrame
<1>0. /\ \A a \in Accounts : account[a] \in ConnectedAccount
      /\ \A s \in Sellers : row[s] \in SellerRow
  OBVIOUS
<1>1. CASE \E s \in Sellers : OnboardReads(r, s)
  BY <1>1 DEF OnboardReads, onboardAlone
<1>2. CASE \E a \in Accounts : CreateAccount(r, a)
  BY <1>0, <1>2 DEF CreateAccount, onboardAlone, ConnectedAccount
<1>3. CASE HoldAtStripe(r)  BY <1>0, <1>3 DEF HoldAtStripe, onboardAlone, ConnectedAccount
<1>4. CASE HoldInRow(r)  BY <1>0, <1>4 DEF HoldInRow, onboardAlone, SellerRow
<1>5. CASE HandOutLink(r)  BY <1>0, <1>5 DEF HandOutLink, onboardAlone, ConnectedAccount
<1>6. CASE OnboardStops(r)  BY <1>6 DEF OnboardStops, onboardAlone
<1>. QED  BY <1>1, <1>2, <1>3, <1>4, <1>5, <1>6 DEF OnboardNext

(* An account that is recorded for a seller without one was never linked.  *)
LEMMA RecordAgrees ==
  ASSUME TypeInv, OwnInv, AgreeInv, NEW r \in Requests, RecordAccount(r)
  PROVE  AgreeInv'
<1>. USE DEF TypeInv, TypeOK
<1>. DEFINE s == request[r].seller
            a == request[r].account
<1>1. s \in Sellers /\ a \in Accounts /\ account[a].owner = s
  BY RequestHasBoth DEF RecordAccount, OwnInv
<1>2. UNCHANGED <<account, unhandled, delivery>>  BY DEF RecordAccount, onboardAlone
<1>3. CASE s \in Recorded
  BY <1>2, <1>3 DEF RecordAccount, AgreeInv, Recorded
<1>4. CASE s \notin Recorded
  <2>1. row' = [row EXCEPT ![s].account = a, ![s].created = Cardinality(Recorded)]
    BY <1>4 DEF RecordAccount
  <2>2. /\ row'[s].account = a /\ row'[s].enabled = row[s].enabled
        /\ \A t \in Sellers : t # s => row'[t] = row[t]
    BY <1>1, <2>1 DEF SellerRow
  <2>3. ~ account[a].linked
    BY <1>1, <1>4, SellersAssumption DEF OwnInv, Recorded
  <2>4. ~ account[a].active /\ ~ row[s].enabled
    BY <1>1, <1>4, <2>3 DEF AgreeInv
  <2>5. \A t \in Sellers, b \in Accounts :
          row'[t].account = b /\ unhandled[b] = 0 => row'[t].enabled = account[b].active
    <3>1. row[s] \in SellerRow /\ account[a] \in ConnectedAccount  BY <1>1
    <3>2. row[s].enabled = FALSE /\ account[a].active = FALSE
      BY <2>4, <3>1 DEF SellerRow, ConnectedAccount
    <3>3. row'[s].enabled = account[a].active  BY <2>2, <3>2
    <3>4. \A t \in Sellers, b \in Accounts :
            t # s /\ row[t].account = b /\ unhandled[b] = 0 => row[t].enabled = account[b].active
      BY DEF AgreeInv
    <3>. HIDE DEF s, a
    <3>. QED  BY <2>2, <3>3, <3>4
  <2>6. \A t \in Sellers : t \notin Recorded' => ~ row'[t].enabled
    BY <1>1, <2>2, SellersAssumption DEF AgreeInv, Recorded
  <2>. QED  BY <1>2, <2>5, <2>6 DEF AgreeInv
<1>. QED  BY <1>3, <1>4

(* A change that a delivery does not know of is an event of its own.       *)
LEMMA ChangeAgrees ==
  ASSUME TypeInv, AgreeInv, NEW a \in Accounts, CapabilityChanges(a)
  PROVE  AgreeInv'
<1>. USE DEF TypeInv, TypeOK
<1>1. /\ account[a].linked /\ UNCHANGED <<row, delivery>>
      /\ unhandled' = [unhandled EXCEPT ![a] = @ + 1]
      /\ account' = [account EXCEPT ![a].active = ~ @]
  BY DEF CapabilityChanges, webhookAlone
<1>2. account[a] \in ConnectedAccount /\ unhandled[a] \in Nat  BY LimitsAssumption
<1>3. /\ \A b \in Accounts : b # a => account'[b] = account[b] /\ unhandled'[b] = unhandled[b]
      /\ unhandled'[a] = unhandled[a] + 1
      /\ account'[a].linked = account[a].linked
  BY <1>1, <1>2 DEF ConnectedAccount
<1>4. unhandled'[a] # 0 /\ (unhandled'[a] = 1 => unhandled[a] = 0)  BY <1>2, <1>3
<1>5. unhandled[a] = 0 => \A d \in Deliveries : delivery[d].account # a
  <2>. SUFFICES ASSUME unhandled[a] = 0, NEW d \in Deliveries, delivery[d].account = a
                PROVE  FALSE
    OBVIOUS
  <2>1. Cardinality(InHand(a)) = 0  BY InHandIsFinite DEF EventsClaimed
  <2>2. InHand(a) = {}  BY <2>1, InHandIsFinite, FS_EmptySet
  <2>. QED  BY <2>2 DEF InHand
<1>6. \A d \in Deliveries, b \in Accounts :
        delivery'[d].account = b /\ unhandled'[b] = 1 => delivery'[d].active = account'[b].active
  BY <1>1, <1>3, <1>4, <1>5 DEF AgreeInv
<1>7. \A s \in Sellers, b \in Accounts :
        row'[s].account = b /\ unhandled'[b] = 0 => row'[s].enabled = account'[b].active
  BY <1>1, <1>3, <1>4 DEF AgreeInv
<1>8. \A b \in Accounts : ~ account'[b].linked => ~ account'[b].active /\ unhandled'[b] = 0
  BY <1>1, <1>3 DEF AgreeInv
<1>. QED  BY <1>1, <1>6, <1>7, <1>8 DEF AgreeInv, Recorded

LEMMA WebhookAgrees ==
  ASSUME TypeInv, AgreeInv, NEW d \in Deliveries, WebhookNext(d),
         \A e, f \in Deliveries : e = f
  PROVE  AgreeInv'
<1>. USE DEF TypeInv, TypeOK
<1>1. ASSUME NEW a \in Accounts, EventReads(d, a)  PROVE AgreeInv'
  <2>1. /\ delivery' = [delivery EXCEPT ![d] = [account |-> a, active |-> account[a].active]]
        /\ UNCHANGED <<row, account, unhandled>>
    BY <1>1 DEF EventReads, webhookAlone
  <2>. QED  BY <2>1 DEF AgreeInv, Recorded
<1>2. CASE EventRollsBack(d)
  <2>1. delivery' = [delivery EXCEPT ![d] = NoDelivery] /\ UNCHANGED <<row, account, unhandled>>
    BY <1>2 DEF EventRollsBack, webhookAlone
  <2>. QED  BY <2>1, SellersAssumption DEF AgreeInv, Recorded, NoDelivery
<1>3. CASE EventWrites(d)
  <2>. DEFINE a == delivery[d].account
  <2>1. /\ row' = [s \in Sellers |->
                     IF row[s].account = a THEN [row[s] EXCEPT !.enabled = delivery[d].active]
                     ELSE row[s]]
        /\ unhandled' = [unhandled EXCEPT ![a] = @ - 1]
        /\ delivery' = [delivery EXCEPT ![d] = NoDelivery]
        /\ UNCHANGED account
    BY <1>3 DEF EventWrites, webhookAlone
  <2>2. a \in Accounts
    BY <1>3 DEF EventWrites, Delivery, NoDelivery
  <2>3. unhandled[a] \in Nat /\ unhandled[a] # 0
    <3>1. Cardinality(InHand(a)) >= 1  BY <2>1, <2>2, HandDropped
    <3>. QED  BY <2>2, <3>1, InHandIsFinite, LimitsAssumption DEF EventsClaimed
  <2>4. /\ unhandled'[a] = unhandled[a] - 1
        /\ \A b \in Accounts : b # a => unhandled'[b] = unhandled[b]
    BY <2>1, <2>2
  <2>5. \A s \in Sellers :
          /\ row'[s].account = row[s].account
          /\ row[s].account = a => row'[s].enabled = delivery[d].active
          /\ row[s].account # a => row'[s].enabled = row[s].enabled
    BY <2>1 DEF SellerRow
  <2>6. \A e \in Deliveries : delivery'[e].account = NoAccount
    BY <2>1 DEF NoDelivery
  <2>7. \A s \in Sellers, b \in Accounts :
          row'[s].account = b /\ unhandled'[b] = 0 => row'[s].enabled = account'[b].active
    <3>1. unhandled'[a] = 0 => delivery[d].active = account[a].active
      BY <2>2, <2>3, <2>4 DEF AgreeInv
    <3>. QED  BY <2>1, <2>4, <2>5, <3>1 DEF AgreeInv
  <2>8. \A s \in Sellers : s \notin Recorded' => ~ row'[s].enabled
    BY <2>2, <2>5, SellersAssumption DEF AgreeInv, Recorded
  <2>9. \A b \in Accounts : ~ account'[b].linked => ~ account'[b].active /\ unhandled'[b] = 0
    BY <2>1, <2>2, <2>3, <2>4 DEF AgreeInv
  <2>. QED  BY <2>6, <2>7, <2>8, <2>9, SellersAssumption DEF AgreeInv
<1>. QED  BY <1>1, <1>2, <1>3 DEF WebhookNext

LEMMA JobFrame ==
  ASSUME TypeInv, JobNext
  PROVE  AgreeFrame
<1>. USE DEF TypeInv, TypeOK, AgreeFrame
<1>0. /\ \A a \in Accounts : account[a] \in ConnectedAccount
      /\ \A s \in Sellers : row[s] \in SellerRow
  OBVIOUS
<1>1. CASE \E s \in Sellers : JobChangesSchedule(s)
  BY <1>0, <1>1 DEF JobChangesSchedule, jobAlone, ConnectedAccount
<1>2. CASE JobClearsRow
  BY <1>0, <1>2 DEF JobClearsRow, jobAlone, SellerRow
<1>3. CASE JobLists \/ JobDies \/ \E s \in Sellers : JobSkips(s)
  BY <1>3 DEF JobLists, JobSkips, JobDies, jobAlone
<1>. QED  BY <1>1, <1>2, <1>3 DEF JobNext

LEMMA AgreeStep ==
  ASSUME TypeInv, OwnInv, AgreeInv, [Next]_vars, \A e, f \in Deliveries : e = f
  PROVE  AgreeInv'
<1>. USE DEF TypeInv, TypeOK
<1>0. /\ \A a \in Accounts : account[a] \in ConnectedAccount
      /\ \A s \in Sellers : row[s] \in SellerRow
  OBVIOUS
<1>1. ASSUME NEW r \in Requests, OnboardNext(r)  PROVE AgreeInv'
  BY <1>1, OnboardFrame, FrameAgrees, RecordAgrees
<1>2. ASSUME NEW s \in Sellers, KeyForgotten(s) \/ SalesNext(s)  PROVE AgreeFrame
  BY <1>2 DEF KeyForgotten, onboardAlone, SalesNext, SaleCompletes, WeekPasses, SaleUndone,
              salesAlone, AgreeFrame
<1>3. CASE JobNext
  BY <1>3, JobFrame, FrameAgrees
<1>4. CASE UNCHANGED vars
  <2>1. AgreeFrame  BY <1>4 DEF vars, AgreeFrame
  <2>. QED  BY <2>1, FrameAgrees
<1>. QED  BY <1>1, <1>2, <1>3, <1>4, FrameAgrees, ChangeAgrees, WebhookAgrees DEF Next

(* With no more than one event in hand at a time, once every event about   *)
(* an account has been handled the row says what Stripe says: onboarding,  *)
(* the job, rollbacks and repeated deliveries cannot part them             *)
(* (handleV2 in routes/stripe-webhook.ts).                       *)
THEOREM RowsAgreeInTurn ==
  ASSUME \A d, e \in Deliveries : d = e
  PROVE  Spec => []SettledRowsAgree
<1>1. Init => OwnInv /\ AgreeInv
  BY SellersAssumption DEF Init, OwnInv, AgreeInv, NoRequest, NoDelivery, Recorded
<1>2. TypeInv /\ AgreeInv => SettledRowsAgree
  BY DEF TypeInv, TypeOK, AgreeInv, SettledRowsAgree, Recorded, SellerRow
<1>3. TypeInv /\ OwnInv /\ AgreeInv /\ [Next]_vars => AgreeInv'
  BY AgreeStep
<1>. QED  BY <1>1, <1>2, <1>3, OwnStep, TypeInit, TypeStep, PTL DEF Spec
==============================================================================
