------------------------------ MODULE Screens ------------------------------
(***************************************************************************)
(* The two pages a marketplace user works from, as clients of the API:     *)
(* apps/web's orders-manager.tsx and selling-manager.tsx.  A page holds a  *)
(* copy of the rows it listed, offers the buttons the copy allows, posts a *)
(* press, and reads the list again when the answer was yes.  The rows move *)
(* under it: the other party, the webhooks and the jobs write them too.    *)
(* A behaviour is about one of the two pages.                              *)
(***************************************************************************)
EXTENDS Naturals, OrderRules

CONSTANTS
  Item,         \* the orders, or the listings, of one user
  Slot,        \* the calls a page may have in flight
  MaxVersion,  \* how often a row may be written
  Nothing

ASSUME ScreenAssumption == MaxVersion \in Nat

VARIABLES
  screen,   \* "orders" or "selling"
  row,      \* the rows: the user's side, the status, how often written, if rated
  copy,     \* what the page last listed
  form,     \* the one form that is open, or Nothing
  busy,     \* the page's flag: its buttons are disabled
  call,     \* the calls in flight
  problem   \* the message the page shows

screenVars == <<screen, row, copy, form, busy, call, problem>>

ShownStatus == {"draft", "active", "sold", "withdrawn"}
Statuses(s) == IF s = "orders" THEN OrderStatus ELSE ShownStatus
NewRow(side, status) == [side |-> side, status |-> status, version |-> 0, rated |-> FALSE]

Quiet == [step |-> "idle"]

ScreenInit ==
  /\ screen \in {"orders", "selling"}
  /\ \E status \in [Item -> Statuses(screen)], side \in [Item -> {"buying", "selling"}] :
       row = [r \in Item |-> NewRow(side[r], status[r])]
  /\ copy = row
  /\ form = Nothing
  /\ busy = FALSE
  /\ call = [s \in Slot |-> Quiet]
  /\ problem = Nothing

-----------------------------------------------------------------------------
(* What the pages offer.                                                   *)

(* TERMINAL: the page's own set, which counts completed although the       *)
(* table lets a completed order be disputed.                               *)
Terminal == {"completed", "cancelled", "refunded"}

(* card: the buttons of one order.                                         *)
OrderOffers(r) ==
  {k \in {"ship", "cancel", "dispute", "rate"} :
     \/ k = "ship"    /\ r.side = "selling" /\ r.status = "paid"
     \/ k = "cancel"  /\ r.status = "created"
     \/ k = "dispute" /\ r.side = "buying" /\ r.status \notin Terminal \cup {"created"}
     \/ k = "rate"    /\ r.side = "buying" /\ r.status = "completed"}

(* The buttons of one listing.                                             *)
ListingOffers(r) ==
  {k \in {"publish", "withdraw"} :
     \/ k = "publish"  /\ r.status = "draft"
     \/ k = "withdraw" /\ r.status = "active"}

Offers(r) == IF screen = "orders" THEN OrderOffers(copy[r])
                         ELSE ListingOffers(copy[r])

(* messageFor of the orders page, by the error the API names.              *)
OrderMessage(error) ==
  IF error \in {"illegal_transition", "not_ratable", "already_rated"}
  THEN error ELSE "nothing was changed"

(* messageFor and problemOf of the selling page: the API's own sentence    *)
(* when it wrote one, a sentence for the codes it knows, or the last one.  *)
SellingMessage(error) ==
  IF error \in {"photo_required", "photo_limit", "refused_photo", "not_found"}
  THEN error ELSE "nothing was changed"

Message(error) == IF screen = "orders" THEN OrderMessage(error) ELSE SellingMessage(error)

-----------------------------------------------------------------------------
(* As if a second press did not wait for the first.                        *)
NotBusyAlways == TRUE

(* disabled={busy}, on every button but the file input.                    *)
NotBusy == ~busy

Formed == {"ship", "dispute", "rate"}

OpenForm(r, kind) ==
  /\ screen = "orders" /\ NotBusy
  /\ kind \in Formed \cap Offers(r)
  /\ form' = <<r, kind>>
  /\ UNCHANGED <<screen, row, copy, busy, call, problem>>

Post(s, r, kind) ==
  /\ call[s] = Quiet
  /\ call' = [call EXCEPT ![s] =
       [step |-> "sent", row |-> r, kind |-> kind, offered |-> kind \in Offers(r)]]
  /\ busy' = TRUE
  /\ problem' = Nothing
  /\ UNCHANGED <<screen, row, copy, form>>

(* ship, dispute and rate: the form stays open, whatever the order has     *)
(* become, until an answer closes it.                                      *)
SubmitForm(s) ==
  /\ form # Nothing /\ NotBusy
  /\ Post(s, form[1], form[2])

(* act, for a cancel.                                                      *)
PressCancel(s, r) == "cancel" \in Offers(r) /\ screen = "orders" /\ NotBusy /\ Post(s, r, "cancel")

(* setStatus.                                                              *)
PressStatus(s, r, kind) ==
  screen = "selling" /\ NotBusy /\ kind \in Offers(r) /\ Post(s, r, kind)

(* onboard, saveName and createListing: posts that touch no row of the     *)
(* list; the last reads the list again.                                    *)
PressOther(s, kind) ==
  /\ screen = "selling" /\ NotBusy
  /\ \E r \in Item : Post(s, r, kind)

-----------------------------------------------------------------------------
(* What the API answers.                                                   *)

Becomes(kind) ==
  CASE kind = "ship"     -> "shipped"
    [] kind = "cancel"   -> "cancelled"
    [] kind = "dispute"  -> "disputed"
    [] kind = "publish"  -> "active"
    [] kind = "withdraw" -> "withdrawn"

ActorOf(r) == IF row[r].side = "selling" THEN "seller" ELSE "buyer"

(* The answers to a press on a row as it is now: none of them changes a    *)
(* row but yes.                                                            *)
Answers(kind, r) ==
  CASE kind \in {"ship", "cancel", "dispute"} ->
         IF CanTransition(row[r].status, Becomes(kind), ActorOf(r))
         THEN {"yes"} ELSE {"illegal_transition"}
    [] kind = "rate" ->
         IF row[r].status # "completed" THEN {"not_ratable"}
         ELSE IF row[r].rated THEN {"already_rated"} ELSE {"yes"}
    [] kind = "publish" -> {"yes", "photo_required"}
    [] OTHER -> {"yes"}

Changed(kind, r) ==
  CASE kind = "rate"  -> [row[r] EXCEPT !.rated = TRUE, !.version = @ + 1]
    [] kind \in {"ship", "cancel", "dispute", "publish", "withdraw"} ->
         [row[r] EXCEPT !.status = Becomes(kind), !.version = @ + 1]
    [] OTHER -> row[r]

Serve(s) ==
  LET c == call[s] IN
  /\ c.step = "sent" /\ row[c.row].version < MaxVersion
  /\ \E answer \in Answers(c.kind, c.row) :
       /\ row' = IF answer = "yes" THEN [row EXCEPT ![c.row] = Changed(c.kind, c.row)]
                                   ELSE row
       /\ call' = [call EXCEPT ![s] =
            [step |-> "answered", row |-> c.row, kind |-> c.kind, answer |-> answer,
             fresh |-> c.offered /\ copy[c.row] = row[c.row]]]
  /\ UNCHANGED <<screen, copy, form, busy, problem>>

(* The handler fails after the row was written, when its audit row is not: *)
(* the page is told of a failure.                                          *)
ServeThenFail(s) ==
  LET c == call[s] IN
  /\ c.step = "sent" /\ row[c.row].version < MaxVersion
  /\ "yes" \in Answers(c.kind, c.row)
  /\ row' = [row EXCEPT ![c.row] = Changed(c.kind, c.row)]
  /\ call' = [call EXCEPT ![s] =
       [step |-> "answered", row |-> c.row, kind |-> c.kind, answer |-> "failed",
        fresh |-> FALSE]]
  /\ UNCHANGED <<screen, copy, form, busy, problem>>

(* Everybody else: the other party, the webhooks, the jobs, another tab.   *)
Elsewhere(r, status) ==
  /\ row[r].version < MaxVersion
  /\ \/ screen = "orders" /\ \E a \in OrderActor : CanTransition(row[r].status, status, a)
     \/ screen = "selling" /\ status \in ShownStatus \ {row[r].status}
  /\ row' = [row EXCEPT ![r].status = status, ![r].version = @ + 1]
  /\ UNCHANGED <<screen, copy, form, busy, call, problem>>

-----------------------------------------------------------------------------
(* What the page does with an answer.                                      *)

Settles(s) == /\ call' = [call EXCEPT ![s] = Quiet]
              /\ busy' = FALSE

(* act: a refusal is put into words and the list is left as it was.        *)
Refuse(s) ==
  /\ call[s].step = "answered" /\ call[s].answer # "yes"
  /\ problem' = Message(call[s].answer)
  /\ Settles(s)
  /\ UNCHANGED <<screen, row, copy, form>>

(* onboard leaves the page and saveName keeps what the answer said; the    *)
(* others read the list again.                                             *)
Accept(s) ==
  /\ call[s].step = "answered" /\ call[s].answer = "yes"
  /\ IF call[s].kind \in {"onboard", "name"}
     THEN Settles(s)
     ELSE /\ call' = [call EXCEPT ![s] = [step |-> "asking", kind |-> call[s].kind]]
          /\ UNCHANGED busy
  /\ UNCHANGED <<screen, row, copy, form, problem>>

(* refresh: the list as it is when the request is served...                *)
RefreshReads(s) ==
  /\ call[s].step = "asking"
  /\ call' = [call EXCEPT ![s] = [step |-> "read", kind |-> call[s].kind, rows |-> row]]
  /\ UNCHANGED <<screen, row, copy, form, busy, problem>>

ClosesForm(kind) == form' = IF kind \in Formed THEN Nothing ELSE form

(* ...and as it is shown, later.                                           *)
RefreshShows(s) ==
  /\ call[s].step = "read"
  /\ copy' = call[s].rows
  /\ ClosesForm(call[s].kind)
  /\ Settles(s)
  /\ UNCHANGED <<screen, row, problem>>

(* A refused refresh keeps the old list, and the press still counts.       *)
RefreshRefused(s) ==
  /\ call[s].step = "asking"
  /\ ClosesForm(call[s].kind)
  /\ Settles(s)
  /\ UNCHANGED <<screen, row, copy, problem>>

(* A fetch that never answers throws past everything but finally.          *)
ConnectionLost(s) ==
  /\ call[s].step \in {"sent", "answered", "asking", "read"}
  /\ Settles(s)
  /\ UNCHANGED <<screen, row, copy, form, problem>>

-----------------------------------------------------------------------------
(* uploadPhoto: three requests, the second to the bucket, and the file     *)
(* input that starts it is the one control busy does not disable.          *)
PickFile(s) ==
  /\ screen = "selling" /\ call[s] = Quiet
  /\ call' = [call EXCEPT ![s] = [step |-> "upload"]]
  /\ busy' = TRUE /\ problem' = Nothing
  /\ UNCHANGED <<screen, row, copy, form>>

(* The row is made, or the request refused.                                *)
UploadStarts(s) ==
  /\ call[s].step = "upload"
  /\ \/ call' = [call EXCEPT ![s] = [step |-> "put"]] /\ UNCHANGED <<busy, problem>>
     \/ \E error \in {"photo_limit", "photos unavailable"} :
          /\ problem' = IF error = "photo_limit" THEN Message(error) ELSE error
          /\ Settles(s)
  /\ UNCHANGED <<screen, row, copy, form>>

(* The browser cannot reach the bucket, or the bucket refuses, or it lands.*)
UploadPuts(s) ==
  /\ call[s].step = "put"
  /\ \/ call' = [call EXCEPT ![s] = [step |-> "complete"]] /\ UNCHANGED <<busy, problem>>
     \/ /\ problem' \in {"storage not reached", "storage refused"}
        /\ Settles(s)
  /\ UNCHANGED <<screen, row, copy, form>>

(* Accepted or refused, the gallery and then the list are read again.      *)
UploadCompletes(s) ==
  /\ call[s].step = "complete"
  /\ problem' \in {problem, Message("refused_photo")}
  /\ call' = [call EXCEPT ![s] = [step |-> "asking", kind |-> "photo"]]
  /\ UNCHANGED <<screen, row, copy, form, busy>>

ScreenNext ==
  \/ \E s \in Slot :
       \/ SubmitForm(s)
       \/ \E r \in Item : PressCancel(s, r)
       \/ \E r \in Item, k \in {"publish", "withdraw"} : PressStatus(s, r, k)
       \/ \E k \in {"onboard", "name", "create"} : PressOther(s, k)
       \/ Serve(s) \/ ServeThenFail(s) \/ Refuse(s) \/ Accept(s)
       \/ RefreshReads(s) \/ RefreshShows(s) \/ RefreshRefused(s) \/ ConnectionLost(s)
       \/ PickFile(s) \/ UploadStarts(s) \/ UploadPuts(s) \/ UploadCompletes(s)
  \/ \E r \in Item, k \in Formed : OpenForm(r, k)
  \/ \E r \in Item : \E status \in Statuses(screen) : Elsewhere(r, status)

ScreenSpec == ScreenInit /\ [][ScreenNext]_screenVars

-----------------------------------------------------------------------------
(* The orders page never shows an order as it was before what the page has *)
(* already shown: one press is in flight at a time, and its list is on the *)
(* page before the next can start (act's busy flag).                       *)
NeverGoesBack ==
  [][screen = "orders" =>
       \A r \in Item : copy[r].version <= copy'[r].version]_screenVars

(* A button pressed on a row the page has as it is now is refused only for *)
(* what the page does not know of a row: that the price asks for a         *)
(* photograph, that it was rated already, and a dispute on an order that   *)
(* is in dispute (the page offers that one: orders-manager.tsx:202).       *)
FreshPressIsServed ==
  \A s \in Slot :
    (call[s].step = "answered" /\ call[s].answer \notin {"yes", "failed"} /\ call[s].fresh) =>
      \/ call[s].answer \in {"photo_required", "already_rated"}
      \/ call[s].kind = "dispute" /\ copy[call[s].row].status = "disputed"
=============================================================================
